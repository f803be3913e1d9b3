-------------------------- MODULE StbJpegPixels --------------------------
(* From coefficients to pixels, in the JPEG loader of stb_image.h: the       *)
(* integer inverse transform of a block, the resamplers of one line, and the *)
(* colour conversions.  Shifts to the right are divisions that round down.   *)
EXTENDS Integers, Sequences

clamp(x) == IF x < 0 THEN 0 ELSE IF x > 255 THEN 255 ELSE x

\* STBI__IDCT_1D: the four sums x and the four differences t.
IDCT_1D(s) ==
  LET e1 == (s[3] + s[7]) * 2217
      e2 == e1 - s[7] * 7567
      e3 == e1 + s[3] * 3135
      e0 == (s[1] + s[5]) * 4096
      d0 == (s[1] - s[5]) * 4096
      p5 == (s[8] + s[4] + s[6] + s[2]) * 4816
      p1 == p5 - (s[8] + s[2]) * 3685
      p2 == p5 - (s[6] + s[4]) * 10497
      p3 == -(s[8] + s[4]) * 8034
      p4 == -(s[6] + s[2]) * 1597
  IN [x |-> <<e0 + e3, d0 + e2, d0 - e2, e0 - e3>>,
      t |-> <<s[2] * 6149 + p1 + p4, s[4] * 12586 + p2 + p3,
              s[6] * 8410 + p2 + p4, s[8] * 1223 + p1 + p3>>]

\* The eight results of a pass: the sums and differences, rounded and shifted.
Butterfly(f, round, scale) ==
  LET sum(k) == (f.x[k] + round + f.t[k]) \div scale
      dif(k) == (f.x[k] + round - f.t[k]) \div scale
  IN <<sum(1), sum(2), sum(3), sum(4), dif(4), dif(3), dif(2), dif(1)>>

\* A column without AC terms is constant.
column(d, i) ==
  LET s == <<d[i], d[8 + i], d[16 + i], d[24 + i], d[32 + i], d[40 + i], d[48 + i], d[56 + i]>>
      c == s[1] * 4
  IN IF \A k \in 2..8 : s[k] = 0 THEN <<c, c, c, c, c, c, c, c>>
     ELSE Butterfly(IDCT_1D(s), 512, 2^10)

\* The lines of the columns v.
idct_rows(v) ==
  LET line(j) == Butterfly(IDCT_1D(<<v[1][j], v[2][j], v[3][j], v[4][j],
                                     v[5][j], v[6][j], v[7][j], v[8][j]>>),
                           65536 + 128 * 2^17, 2^17)
      Clamped(s) == <<clamp(s[1]), clamp(s[2]), clamp(s[3]), clamp(s[4]),
                      clamp(s[5]), clamp(s[6]), clamp(s[7]), clamp(s[8])>>
  IN <<Clamped(line(1)), Clamped(line(2)), Clamped(line(3)), Clamped(line(4)),
       Clamped(line(5)), Clamped(line(6)), Clamped(line(7)), Clamped(line(8))>>

\* The 8 by 8 samples of the coefficients d[0..63].
idct_block(d) == idct_rows(<<column(d, 0), column(d, 1), column(d, 2), column(d, 3),
                             column(d, 4), column(d, 5), column(d, 6), column(d, 7)>>)

-----------------------------------------------------------------------------
(* One line of a component brought to the width of the image: near is the    *)
(* row whose centre is nearest, far the next one, w their length.            *)

resample_row_v_2(near, far, w) == [i \in 1..w |-> (3 * near[i] + far[i] + 2) \div 4]

\* The last sample but one has the weights of its two neighbours exchanged.
resample_row_h_2(near, w) ==
  [o \in 1..2 * w |->
     LET i == (o + 1) \div 2
     IN CASE o = 1 \/ o = 2 * w -> near[i]
          [] o # 1 /\ o = 2 * w - 1 -> (3 * near[w - 1] + near[w] + 2) \div 4
          [] o % 2 = 1 /\ o # 1 /\ o # 2 * w - 1 -> (3 * near[i] + near[i - 1] + 2) \div 4
          [] o % 2 = 0 /\ o # 2 * w -> (3 * near[i] + near[i + 1] + 2) \div 4]

resample_row_hv_2(near, far, w) ==
  LET t(i) == 3 * near[i] + far[i]
  IN [o \in 1..2 * w |->
        LET i == (o + 1) \div 2
        IN CASE o = 1 \/ o = 2 * w -> (t(i) + 2) \div 4
             [] o % 2 = 1 /\ o # 1 -> (3 * t(i) + t(i - 1) + 8) \div 16
             [] o % 2 = 0 /\ o # 2 * w -> (3 * t(i) + t(i + 1) + 8) \div 16]

resample_row_generic(near, w, hs) == [o \in 1..w * hs |-> near[((o - 1) \div hs) + 1]]

resample(near, far, w, hs, vs) ==
  CASE hs = 1 /\ vs = 1 -> near
    [] hs = 1 /\ vs = 2 -> resample_row_v_2(near, far, w)
    [] hs = 2 /\ vs = 1 -> resample_row_h_2(near, w)
    [] hs = 2 /\ vs = 2 -> resample_row_hv_2(near, far, w)
    [] OTHER -> resample_row_generic(near, w, hs)

-----------------------------------------------------------------------------
(* Colours. *)

\* Fixed point with 20 bits; the product with cb in green loses its low half.
YCbCr_to_RGB(y, cb, cr) ==
  LET f == y * 2^20 + 2^19
      b == cb - 128
      r == cr - 128
  IN <<clamp((f + r * 1470208) \div 2^20),
       clamp((f - r * 748800 + ((-b * 360960) \div 2^16) * 2^16) \div 2^20),
       clamp((f + b * 1858048) \div 2^20)>>

blinn_8x8(x, y) == LET t == x * y + 128 IN (t + t \div 256) \div 256
=============================================================================
