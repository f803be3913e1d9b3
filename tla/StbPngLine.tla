---------------------------- MODULE StbPngLine ----------------------------
(* The scanline filters of PNG, as stb_image_write.h applies them and as     *)
(* stb_image.h undoes them.  A line is a sequence of bytes; n is the number  *)
(* of bytes of a pixel, a, b and c the bytes to the left, above, and above   *)
(* to the left of the one at hand.                                           *)
EXTENDS Integers, Sequences

Byte == 0..255

Abs(x) == IF x < 0 THEN -x ELSE x

-----------------------------------------------------------------------------
(* The writer. *)

\* stbiw__paeth, the definition of the PNG specification.
wpaeth(a, b, c) ==
  LET p == a + b - c
      pa == Abs(p - a)
      pb == Abs(p - b)
      pc == Abs(p - c)
  IN IF pa <= pb /\ pa <= pc THEN a ELSE IF pb <= pc THEN b ELSE c

\* The filter used for a requested type: the first row has no row above.
wmap(y, filter_type) == IF y # 0 THEN filter_type ELSE <<0, 1, 0, 5, 6>>[filter_type + 1]

\* What is subtracted from a byte; left of the first pixel everything is 0.
wpredict(type, a, b, c) ==
  CASE type = 0 -> 0
    [] type = 1 -> a
    [] type = 2 -> b
    [] type = 3 -> (a + b) \div 2
    [] type = 4 -> wpaeth(a, b, c)
    [] type = 5 -> a \div 2
    [] type = 6 -> wpaeth(a, 0, 0)

encode_png_line(z, above, y, n, filter_type) ==
  LET left(line, i) == IF i > n THEN line[i - n] ELSE 0
      type == wmap(y, filter_type)
      up(i) == IF type \in 2..4 THEN above[i] ELSE 0
      upleft(i) == IF type = 4 THEN left(above, i) ELSE 0
  IN [i \in 1..Len(z) |-> (z[i] - wpredict(type, left(z, i), up(i), upleft(i))) % 256]

-----------------------------------------------------------------------------
(* The reader. *)

\* stbi__paeth, "actually equivalent" to the definition.
paeth(a, b, c) ==
  LET thresh == c * 3 - (a + b)
      lo == IF a < b THEN a ELSE b
      hi == IF a < b THEN b ELSE a
      t0 == IF hi <= thresh THEN lo ELSE c
  IN IF thresh <= lo THEN hi ELSE t0

F_avg_first == 5

\* On the first row a filter is replaced by one that needs no row above.
row_filter(j, filter) ==
  IF j # 0 THEN filter ELSE <<0, 1, 0, F_avg_first, 1>>[filter + 1]

\* What is added back.
predict(filter, a, b, c) ==
  CASE filter = 0 -> 0
    [] filter = 1 -> a
    [] filter = 2 -> b
    [] filter = 3 -> (b + a) \div 2
    [] filter = 4 -> paeth(a, b, c)
    [] filter = F_avg_first -> a \div 2

\* In the first pixel of a line there is nothing to the left.
predict_first(filter, b) ==
  CASE filter \in {2, 4} -> b
    [] filter = 3 -> b \div 2
    [] OTHER -> 0

unfilter_line(raw, prior, j, filter_bytes, filter) ==
  LET f == row_filter(j, filter)
      cur[k \in 1..Len(raw)] ==
        (raw[k] + (IF k <= filter_bytes
                   THEN predict_first(f, IF j = 0 THEN 0 ELSE prior[k])
                   ELSE predict(f, cur[k - filter_bytes],
                                IF j = 0 THEN 0 ELSE prior[k],
                                IF j = 0 THEN 0 ELSE prior[k - filter_bytes]))) % 256
  IN cur

-----------------------------------------------------------------------------
(* From the bytes of a line to samples. *)

depth_scale(depth) == CASE depth = 1 -> 255 [] depth = 2 -> 85 [] depth = 4 -> 17 [] OTHER -> 1

\* Sample i (from 0) of a line: the bits of a packed byte from the top down, a
\* byte, or two bytes in big-endian order; packed grey is scaled to 0..255.
sample(cur, i, depth, color) ==
  IF depth = 16 THEN cur[2 * i + 1] * 256 + cur[2 * i + 2]
  ELSE LET per == 8 \div depth
           v == (cur[i \div per + 1] \div 2^(8 - depth * (1 + (i % per)))) % 2^depth
       IN IF depth < 8 /\ color = 0 THEN v * depth_scale(depth) ELSE v

\* An opaque alpha, when one more channel is wanted than the line has.
alpha_expand8(px, out_n, opaque) == IF Len(px) = out_n THEN px ELSE Append(px, opaque)

line_pixels(cur, x, img_n, out_n, depth, color) ==
  [i \in 1..x |->
     alpha_expand8([c \in 1..img_n |-> sample(cur, (i - 1) * img_n + c - 1, depth, color)],
                   out_n, IF depth = 16 THEN 65535 ELSE 255)]
=============================================================================
