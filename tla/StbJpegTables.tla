-------------------------- MODULE StbJpegTables --------------------------
(* The constant tables of the JPEG writer of stb_image_write.h: the Huffman  *)
(* codes as the file announces them, how many of each size and for which     *)
(* values, the codes that are written, <<code, size>> for each value, and    *)
(* the quantisation tables.                                                  *)
EXTENDS Integers, Sequences

std_dc_luminance_nrcodes == <<0, 1, 5, 1, 1, 1, 1, 1, 1, 0, 0, 0, 0, 0, 0, 0>>
std_dc_luminance_values == <<0, 1, 2, 3, 4, 5, 6, 7, 8, 9, 10, 11>>
std_ac_luminance_nrcodes == <<0, 2, 1, 3, 3, 2, 4, 3, 5, 5, 4, 4, 0, 0, 1, 125>>
std_ac_luminance_values == <<
  1, 2, 3, 0, 4, 17, 5, 18, 33, 49, 65, 6, 19, 81, 97, 7, 34, 113, 20, 50, 129, 145, 161, 8, 35, 66, 177, 193, 21, 82,
  209, 240, 36, 51, 98, 114, 130, 9, 10, 22, 23, 24, 25, 26, 37, 38, 39, 40, 41, 42, 52, 53, 54, 55, 56, 57, 58, 67,
  68, 69, 70, 71, 72, 73, 74, 83, 84, 85, 86, 87, 88, 89, 90, 99, 100, 101, 102, 103, 104, 105, 106, 115, 116, 117,
  118, 119, 120, 121, 122, 131, 132, 133, 134, 135, 136, 137, 138, 146, 147, 148, 149, 150, 151, 152, 153, 154, 162,
  163, 164, 165, 166, 167, 168, 169, 170, 178, 179, 180, 181, 182, 183, 184, 185, 186, 194, 195, 196, 197, 198, 199,
  200, 201, 202, 210, 211, 212, 213, 214, 215, 216, 217, 218, 225, 226, 227, 228, 229, 230, 231, 232, 233, 234, 241,
  242, 243, 244, 245, 246, 247, 248, 249, 250>>
std_dc_chrominance_nrcodes == <<0, 3, 1, 1, 1, 1, 1, 1, 1, 1, 1, 0, 0, 0, 0, 0>>
std_dc_chrominance_values == <<0, 1, 2, 3, 4, 5, 6, 7, 8, 9, 10, 11>>
std_ac_chrominance_nrcodes == <<0, 2, 1, 2, 4, 4, 3, 4, 7, 5, 4, 4, 0, 1, 2, 119>>
std_ac_chrominance_values == <<
  0, 1, 2, 3, 17, 4, 5, 33, 49, 6, 18, 65, 81, 7, 97, 113, 19, 34, 50, 129, 8, 20, 66, 145, 161, 177, 193, 9, 35, 51,
  82, 240, 21, 98, 114, 209, 10, 22, 36, 52, 225, 37, 241, 23, 24, 25, 26, 38, 39, 40, 41, 42, 53, 54, 55, 56, 57, 58,
  67, 68, 69, 70, 71, 72, 73, 74, 83, 84, 85, 86, 87, 88, 89, 90, 99, 100, 101, 102, 103, 104, 105, 106, 115, 116,
  117, 118, 119, 120, 121, 122, 130, 131, 132, 133, 134, 135, 136, 137, 138, 146, 147, 148, 149, 150, 151, 152, 153,
  154, 162, 163, 164, 165, 166, 167, 168, 169, 170, 178, 179, 180, 181, 182, 183, 184, 185, 186, 194, 195, 196, 197,
  198, 199, 200, 201, 202, 210, 211, 212, 213, 214, 215, 216, 217, 218, 226, 227, 228, 229, 230, 231, 232, 233, 234,
  242, 243, 244, 245, 246, 247, 248, 249, 250>>

YDC_HT == <<<<0, 2>>, <<2, 3>>, <<3, 3>>, <<4, 3>>, <<5, 3>>, <<6, 3>>, <<14, 4>>, <<30, 5>>, <<62, 6>>, <<126, 7>>, <<254, 8>>, <<510, 9>>>>
UVDC_HT ==
  <<<<0, 2>>, <<1, 2>>, <<2, 2>>, <<6, 3>>, <<14, 4>>, <<30, 5>>, <<62, 6>>, <<126, 7>>, <<254, 8>>, <<510, 9>>, <<1022, 10>>, <<2046, 11>>>>

\* The AC codes: a row for each run of zeros, in it the sizes 0 to 10; the other
\* entries of the 256 are empty.
YAC_HT == <<
  <<<<10, 4>>, <<0, 2>>, <<1, 2>>, <<4, 3>>, <<11, 4>>, <<26, 5>>, <<120, 7>>, <<248, 8>>, <<1014, 10>>, <<65410, 16>>, <<65411, 16>>>>,
  <<<<0, 0>>, <<12, 4>>, <<27, 5>>, <<121, 7>>, <<502, 9>>, <<2038, 11>>, <<65412, 16>>, <<65413, 16>>, <<65414, 16>>, <<65415, 16>>, <<65416, 16>>>>,
  <<<<0, 0>>, <<28, 5>>, <<249, 8>>, <<1015, 10>>, <<4084, 12>>, <<65417, 16>>, <<65418, 16>>, <<65419, 16>>, <<65420, 16>>, <<65421, 16>>, <<65422, 16>>>>,
  <<<<0, 0>>, <<58, 6>>, <<503, 9>>, <<4085, 12>>, <<65423, 16>>, <<65424, 16>>, <<65425, 16>>, <<65426, 16>>, <<65427, 16>>, <<65428, 16>>, <<65429, 16>>>>,
  <<<<0, 0>>, <<59, 6>>, <<1016, 10>>, <<65430, 16>>, <<65431, 16>>, <<65432, 16>>, <<65433, 16>>, <<65434, 16>>, <<65435, 16>>, <<65436, 16>>, <<65437, 16>>>>,
  <<<<0, 0>>, <<122, 7>>, <<2039, 11>>, <<65438, 16>>, <<65439, 16>>, <<65440, 16>>, <<65441, 16>>, <<65442, 16>>, <<65443, 16>>, <<65444, 16>>, <<65445, 16>>>>,
  <<<<0, 0>>, <<123, 7>>, <<4086, 12>>, <<65446, 16>>, <<65447, 16>>, <<65448, 16>>, <<65449, 16>>, <<65450, 16>>, <<65451, 16>>, <<65452, 16>>, <<65453, 16>>>>,
  <<<<0, 0>>, <<250, 8>>, <<4087, 12>>, <<65454, 16>>, <<65455, 16>>, <<65456, 16>>, <<65457, 16>>, <<65458, 16>>, <<65459, 16>>, <<65460, 16>>, <<65461, 16>>>>,
  <<<<0, 0>>, <<504, 9>>, <<32704, 15>>, <<65462, 16>>, <<65463, 16>>, <<65464, 16>>, <<65465, 16>>, <<65466, 16>>, <<65467, 16>>, <<65468, 16>>, <<65469, 16>>>>,
  <<<<0, 0>>, <<505, 9>>, <<65470, 16>>, <<65471, 16>>, <<65472, 16>>, <<65473, 16>>, <<65474, 16>>, <<65475, 16>>, <<65476, 16>>, <<65477, 16>>, <<65478, 16>>>>,
  <<<<0, 0>>, <<506, 9>>, <<65479, 16>>, <<65480, 16>>, <<65481, 16>>, <<65482, 16>>, <<65483, 16>>, <<65484, 16>>, <<65485, 16>>, <<65486, 16>>, <<65487, 16>>>>,
  <<<<0, 0>>, <<1017, 10>>, <<65488, 16>>, <<65489, 16>>, <<65490, 16>>, <<65491, 16>>, <<65492, 16>>, <<65493, 16>>, <<65494, 16>>, <<65495, 16>>, <<65496, 16>>>>,
  <<<<0, 0>>, <<1018, 10>>, <<65497, 16>>, <<65498, 16>>, <<65499, 16>>, <<65500, 16>>, <<65501, 16>>, <<65502, 16>>, <<65503, 16>>, <<65504, 16>>, <<65505, 16>>>>,
  <<<<0, 0>>, <<2040, 11>>, <<65506, 16>>, <<65507, 16>>, <<65508, 16>>, <<65509, 16>>, <<65510, 16>>, <<65511, 16>>, <<65512, 16>>, <<65513, 16>>, <<65514, 16>>>>,
  <<<<0, 0>>, <<65515, 16>>, <<65516, 16>>, <<65517, 16>>, <<65518, 16>>, <<65519, 16>>, <<65520, 16>>, <<65521, 16>>, <<65522, 16>>, <<65523, 16>>, <<65524, 16>>>>,
  <<<<2041, 11>>, <<65525, 16>>, <<65526, 16>>, <<65527, 16>>, <<65528, 16>>, <<65529, 16>>, <<65530, 16>>, <<65531, 16>>, <<65532, 16>>, <<65533, 16>>, <<65534, 16>>>>>>
UVAC_HT == <<
  <<<<0, 2>>, <<1, 2>>, <<4, 3>>, <<10, 4>>, <<24, 5>>, <<25, 5>>, <<56, 6>>, <<120, 7>>, <<500, 9>>, <<1014, 10>>, <<4084, 12>>>>,
  <<<<0, 0>>, <<11, 4>>, <<57, 6>>, <<246, 8>>, <<501, 9>>, <<2038, 11>>, <<4085, 12>>, <<65416, 16>>, <<65417, 16>>, <<65418, 16>>, <<65419, 16>>>>,
  <<<<0, 0>>, <<26, 5>>, <<247, 8>>, <<1015, 10>>, <<4086, 12>>, <<32706, 15>>, <<65420, 16>>, <<65421, 16>>, <<65422, 16>>, <<65423, 16>>, <<65424, 16>>>>,
  <<<<0, 0>>, <<27, 5>>, <<248, 8>>, <<1016, 10>>, <<4087, 12>>, <<65425, 16>>, <<65426, 16>>, <<65427, 16>>, <<65428, 16>>, <<65429, 16>>, <<65430, 16>>>>,
  <<<<0, 0>>, <<58, 6>>, <<502, 9>>, <<65431, 16>>, <<65432, 16>>, <<65433, 16>>, <<65434, 16>>, <<65435, 16>>, <<65436, 16>>, <<65437, 16>>, <<65438, 16>>>>,
  <<<<0, 0>>, <<59, 6>>, <<1017, 10>>, <<65439, 16>>, <<65440, 16>>, <<65441, 16>>, <<65442, 16>>, <<65443, 16>>, <<65444, 16>>, <<65445, 16>>, <<65446, 16>>>>,
  <<<<0, 0>>, <<121, 7>>, <<2039, 11>>, <<65447, 16>>, <<65448, 16>>, <<65449, 16>>, <<65450, 16>>, <<65451, 16>>, <<65452, 16>>, <<65453, 16>>, <<65454, 16>>>>,
  <<<<0, 0>>, <<122, 7>>, <<2040, 11>>, <<65455, 16>>, <<65456, 16>>, <<65457, 16>>, <<65458, 16>>, <<65459, 16>>, <<65460, 16>>, <<65461, 16>>, <<65462, 16>>>>,
  <<<<0, 0>>, <<249, 8>>, <<65463, 16>>, <<65464, 16>>, <<65465, 16>>, <<65466, 16>>, <<65467, 16>>, <<65468, 16>>, <<65469, 16>>, <<65470, 16>>, <<65471, 16>>>>,
  <<<<0, 0>>, <<503, 9>>, <<65472, 16>>, <<65473, 16>>, <<65474, 16>>, <<65475, 16>>, <<65476, 16>>, <<65477, 16>>, <<65478, 16>>, <<65479, 16>>, <<65480, 16>>>>,
  <<<<0, 0>>, <<504, 9>>, <<65481, 16>>, <<65482, 16>>, <<65483, 16>>, <<65484, 16>>, <<65485, 16>>, <<65486, 16>>, <<65487, 16>>, <<65488, 16>>, <<65489, 16>>>>,
  <<<<0, 0>>, <<505, 9>>, <<65490, 16>>, <<65491, 16>>, <<65492, 16>>, <<65493, 16>>, <<65494, 16>>, <<65495, 16>>, <<65496, 16>>, <<65497, 16>>, <<65498, 16>>>>,
  <<<<0, 0>>, <<506, 9>>, <<65499, 16>>, <<65500, 16>>, <<65501, 16>>, <<65502, 16>>, <<65503, 16>>, <<65504, 16>>, <<65505, 16>>, <<65506, 16>>, <<65507, 16>>>>,
  <<<<0, 0>>, <<2041, 11>>, <<65508, 16>>, <<65509, 16>>, <<65510, 16>>, <<65511, 16>>, <<65512, 16>>, <<65513, 16>>, <<65514, 16>>, <<65515, 16>>, <<65516, 16>>>>,
  <<<<0, 0>>, <<16352, 14>>, <<65517, 16>>, <<65518, 16>>, <<65519, 16>>, <<65520, 16>>, <<65521, 16>>, <<65522, 16>>, <<65523, 16>>, <<65524, 16>>, <<65525, 16>>>>,
  <<<<1018, 10>>, <<32707, 15>>, <<65526, 16>>, <<65527, 16>>, <<65528, 16>>, <<65529, 16>>, <<65530, 16>>, <<65531, 16>>, <<65532, 16>>, <<65533, 16>>, <<65534, 16>>>>>>

YQT == <<
  16, 11, 10, 16, 24, 40, 51, 61, 12, 12, 14, 19, 26, 58, 60, 55, 14, 13, 16, 24, 40, 57, 69, 56, 14, 17, 22, 29, 51,
  87, 80, 62, 18, 22, 37, 56, 68, 109, 103, 77, 24, 35, 55, 64, 81, 104, 113, 92, 49, 64, 78, 87, 103, 121, 120, 101,
  72, 92, 95, 98, 112, 100, 103, 99>>
UVQT == <<
  17, 18, 24, 47, 99, 99, 99, 99, 18, 21, 26, 66, 99, 99, 99, 99, 24, 26, 56, 99, 99, 99, 99, 99, 47, 66, 99, 99, 99,
  99, 99, 99, 99, 99, 99, 99, 99, 99, 99, 99, 99, 99, 99, 99, 99, 99, 99, 99, 99, 99, 99, 99, 99, 99, 99, 99, 99, 99,
  99, 99, 99, 99, 99, 99>>

\* The place of a coefficient in the zigzag.
ZigZag == <<
  0, 1, 5, 6, 14, 15, 27, 28, 2, 4, 7, 13, 16, 26, 29, 42, 3, 8, 12, 17, 25, 30, 41, 43, 9, 11, 18, 24, 31, 40, 44,
  53, 10, 19, 23, 32, 39, 45, 52, 54, 20, 22, 33, 38, 46, 51, 55, 60, 21, 34, 37, 47, 50, 56, 59, 61, 35, 36, 48, 49,
  57, 58, 62, 63>>
=============================================================================
