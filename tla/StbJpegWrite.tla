--------------------------- MODULE StbJpegWrite ---------------------------
(* The JPEG writer of stb_image_write.h after the transform: a data unit is  *)
(* given by its 64 quantised coefficients in zigzag order (the forward       *)
(* transform and the quantisation are in floating point), and the writer     *)
(* encodes one unit after the other between the headers and the end marker.  *)
EXTENDS StbJpegTables, StbSeqs

VARIABLES
  wbits,   \* the bits that do not make a byte yet (bitBuf, bitCnt)
  wdc,     \* the last DC of Y, U and V
  wat,     \* how many units are written
  wout     \* the bytes written

wvars == <<wbits, wdc, wat, wout>>

MSB(v, n) == [k \in 1..n |-> (v \div 2^(n - k)) % 2]

\* Every full byte goes out, with a 0 after a 255; the rest stays.
writeBits(bits) ==
  LET all == wbits \o bits
      full == Len(all) \div 8
      value(b) == LET v[k \in 0..8] == IF k = 0 THEN 0 ELSE 2 * v[k - 1] + all[8 * (b - 1) + k] IN v[8]
      bytes == [b \in 1..full |-> IF value(b) = 255 THEN <<255, 0>> ELSE <<value(b)>>]
  IN [out |-> Concat(bytes), rest |-> SubSeq(all, 8 * full + 1, Len(all))]

\* How many bits a value needs, and those bits: a negative one less 1.
calcBits(val) ==
  LET abs == IF val < 0 THEN -val ELSE val
      n == CHOOSE n \in 1..16 : abs < 2^n /\ (n = 1 \/ abs >= 2^(n - 1))
  IN [n |-> n, bits |-> MSB(IF val < 0 THEN (val - 1) % 2^n ELSE val, n)]

Code(ht) == MSB(ht[1], ht[2])

\* The bits of one data unit: the difference of the DC terms, each coefficient
\* after the zeros before it, and the end of the block.
processDU(DU, DC, HTDC, HTAC) ==
  LET diff == DU[1] - DC
      dc == calcBits(diff)
      nonzero == SelectSeq([i \in 1..63 |-> i], LAMBDA i : DU[i + 1] # 0)
      M16zeroes == Code(HTAC[16][1])
      Ac(j) == LET i == nonzero[j]
                   nrzeroes == i - 1 - (IF j = 1 THEN 0 ELSE nonzero[j - 1])
                   bits == calcBits(DU[i + 1])
               IN Concat([k \in 1..nrzeroes \div 16 |-> M16zeroes])
                    \o Code(HTAC[(nrzeroes % 16) + 1][bits.n + 1]) \o bits.bits
  IN (IF diff = 0 THEN Code(HTDC[1]) ELSE Code(HTDC[dc.n + 1]) \o dc.bits)
       \o Concat([j \in DOMAIN nonzero |-> Ac(j)])
       \o (IF DU[64] # 0 THEN <<>> ELSE Code(HTAC[1][1]))

\* The parameters: a default, the range, and the factor of the tables in percent.
subsample(quality) == quality <= 90
scale(quality) ==
  LET q == IF quality = 0 THEN 90 ELSE quality
      c == IF q < 1 THEN 1 ELSE IF q > 100 THEN 100 ELSE q
  IN IF c < 50 THEN 5000 \div c ELSE 200 - c * 2

\* A quantisation table in zigzag order.
QTable(QT, quality) ==
  LET Entry(i) == LET t == (QT[i] * scale(quality) + 50) \div 100
                  IN IF t < 1 THEN 1 ELSE IF t > 255 THEN 255 ELSE t
  IN [k \in 1..64 |-> Entry(CHOOSE i \in 1..64 : ZigZag[i] = k - 1)]

headers(width, height, quality) ==
  <<255, 216, 255, 224, 0, 16, 74, 70, 73, 70, 0, 1, 1, 0, 0, 1, 0, 1, 0, 0, 255, 219, 0, 132, 0>>
  \o QTable(YQT, quality) \o <<1>> \o QTable(UVQT, quality)
  \o <<255, 192, 0, 17, 8, height \div 256, height % 256, width \div 256, width % 256,
       3, 1, IF subsample(quality) THEN 34 ELSE 17, 0, 2, 17, 1, 3, 17, 1, 255, 196, 1, 162, 0>>
  \o std_dc_luminance_nrcodes \o std_dc_luminance_values
  \o <<16>> \o std_ac_luminance_nrcodes \o std_ac_luminance_values
  \o <<1>> \o std_dc_chrominance_nrcodes \o std_dc_chrominance_values
  \o <<17>> \o std_ac_chrominance_nrcodes \o std_ac_chrominance_values
  \o <<255, 218, 0, 12, 3, 1, 0, 2, 17, 3, 17, 0, 63, 0>>

wIdle == wbits = <<>> /\ wdc = <<0, 0, 0>> /\ wat = 0 /\ wout = <<>>

write_headers(width, height, quality) ==
  /\ wout = <<>> /\ width # 0 /\ height # 0
  /\ wout' = headers(width, height, quality)
  /\ UNCHANGED <<wbits, wdc, wat>>

\* The units of an MCU: four of Y when U and V are subsampled, one of each.
ChannelOf(i, quality) ==
  IF subsample(quality) THEN <<1, 1, 1, 1, 2, 3>>[(i % 6) + 1] ELSE <<1, 2, 3>>[(i % 3) + 1]

write_unit(units, quality) ==
  /\ wout # <<>> /\ wat < Len(units)
  /\ LET c == ChannelOf(wat, quality)
         DU == units[wat + 1]
         w == writeBits(processDU(DU, wdc[c], IF c = 1 THEN YDC_HT ELSE UVDC_HT,
                                  IF c = 1 THEN YAC_HT ELSE UVAC_HT))
     IN /\ wout' = wout \o w.out
        /\ wbits' = w.rest
        /\ wdc' = [wdc EXCEPT ![c] = DU[1]]
        /\ wat' = wat + 1

\* The file: the last byte is filled with ones, and the end marker follows.
jpg_file == wout \o writeBits(MSB(127, 7)).out \o <<255, 217>>
=============================================================================
