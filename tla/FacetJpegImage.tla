--------------------------- MODULE FacetJpegImage ---------------------------
(* What a JPEG file means, by the definition of the format, and that the     *)
(* decoder of FacetJpeg returns it.                                          *)
EXTENDS FacetJpeg

\* The place in the zigzag of the coefficient in column u and row v: diagonal
\* after diagonal, up and down in turn.
ZigzagOf(u, v) ==
  LET d == u + v
      before == IF d <= 8 THEN (d * (d + 1)) \div 2 ELSE 64 - ((15 - d) * (16 - d)) \div 2
      along == (IF d % 2 = 0 THEN u ELSE v) - (IF d > 7 THEN d - 7 ELSE 0)
  IN before + along

\* 10000 / 2 cos(m pi / 16).
Cosine(m) ==
  LET c == <<5000, 4904, 4619, 4157, 3536, 2778, 1913, 975, 0>>
      k == m % 32
  IN IF k <= 8 THEN c[k + 1] ELSE IF k <= 16 THEN -c[17 - k] ELSE IF k <= 24 THEN -c[k - 15] ELSE c[33 - k]
Basis(u, x) == IF u = 0 THEN 3536 ELSE Cosine((2 * x + 1) * u)

\* The inverse cosine transform of a block, at column x and row y, times 10^6.
Exact(zz, qt, x, y) ==
  LET at == {uv \in (0..7) \X (0..7) : zz[ZigzagOf(uv[1], uv[2]) + 1] # 0}
      Term(uv) == LET k == ZigzagOf(uv[1], uv[2]) + 1
                  IN ((zz[k] * qt[k] * Basis(uv[1], x)) \div 100) * Basis(uv[2], y)
  IN MapThenSumSet(Term, at) + 128000000

InRange(v, one) == IF v < 0 THEN 0 ELSE IF v > 255 * one THEN 255 * one ELSE v
Near(a, b, eps) == a - b \in -eps..eps

\* The blocks of component n that hold samples of the image.
SeenBlocks(n) == (0..scan_blocks(jpg.x, jpg.comp[n].h, jpg.hmax) - 1)
                   \X (0..scan_blocks(jpg.y, jpg.comp[n].v, jpg.vmax) - 1)

\* The sample of component n at pixel x, y of the image: interpolated between the
\* nearest samples when a factor of 2 is missing, else the nearest.
Upsampled(n, x, y) ==
  LET hs == Hs(n)
      vs == Vs(n)
      wide == hs \in {1, 2} /\ vs \in {1, 2}
      last == <<WLores(n) - 1, comp_size(jpg.y, jpg.comp[n].v, jpg.vmax) - 1>>
      Other(p, f, e) == LET o == (p \div f) + (IF p % f = 0 THEN -1 ELSE 1)
                        IN IF f = 1 \/ ~ wide THEN p \div f ELSE IF o < 0 THEN 0 ELSE IF o > e THEN e ELSE o
      At(i, j) == planes[n][<<i \div 8, j \div 8>>][(j % 8) + 1][(i % 8) + 1]
      i0 == x \div hs
      i1 == Other(x, hs, last[1])
      j0 == y \div vs
      j1 == Other(y, vs, last[2])
      swapped == hs = 2 /\ vs = 1 /\ WLores(n) > 1 /\ x = 2 * last[1]
  IN IF swapped THEN (3 * At(i1, j0) + At(i0, j0) + 2) \div 4
     ELSE (9 * At(i0, j0) + 3 * At(i1, j0) + 3 * At(i0, j1) + At(i1, j1) + 8) \div 16

\* The colour of a pixel with samples c, times 10000; K is multiplied in.
ExactColour(c) ==
  LET Ink(v, k) == InRange((v * k) \div 255, 10000)
      ycc == <<c[1] * 10000 + 14020 * (c[3] - 128), c[1] * 10000 - 3441 * (c[2] - 128) - 7141 * (c[3] - 128),
               c[1] * 10000 + 17720 * (c[2] - 128)>>
      rgb == [k \in 1..3 |-> 10000 * c[k]]
      clip == [k \in 1..3 |-> InRange(ycc[k], 10000)]
  IN CASE job.colour = "grey" -> <<10000 * c[1], 10000 * c[1], 10000 * c[1]>>
       [] job.colour = "YCbCr" -> clip
       [] job.colour = "RGB" -> rgb
       [] job.colour = "CMYK" -> [k \in 1..3 |-> Ink(rgb[k], c[4])]
       [] job.colour = "YCCK" -> [k \in 1..3 |-> Ink(2550000 - clip[k], c[4])]

\* A pixel against the samples c: grey, of which YCbCr has a component, or RGB.
ColourRight(got, c) ==
  LET want == ExactColour(c)
      luma == (want[1] \div 100) * 299 + (want[2] \div 100) * 587 + (want[3] \div 100) * 114
  IN IF Len(got) > 2 THEN \A k \in 1..3 : Near(got[k] * 10000, want[k], 15000)
     ELSE IF job.colour \in {"grey", "YCbCr"} THEN got[1] = c[1]
     ELSE Near(got[1] * 100000, luma, 200000)

-----------------------------------------------------------------------------
(* Properties. *)

\* When the scans of a well-formed file are over, every block of the image has
\* been given, and its samples are those of the file's coefficients: through the
\* Huffman codes and their shortcuts, runs, restarts, the order of the blocks,
\* spectral selection and successive approximation, and the integer transform.
SamplesRight ==
  (lpc = "output" /\ job.good) =>
    \A n \in 1..jpg.img_n : \A at \in SeenBlocks(n) :
      /\ planes[n][at] # <<>>
      /\ \A x, y \in 0..7 : Near(planes[n][at][y + 1][x + 1] * 1000000,
                                 InRange(Exact(job.coefs[n][at], job.quant[n], x, y), 1000000), 1100000)

\* The image returned has the size of the frame, and every pixel has the colour
\* of the interpolated samples, for every mix of sampling factors: no line or
\* column is shifted at the edges of the planes.  (In a line of resample_row_h_2
\* the last sample but one has the two weights exchanged.)
PixelsRight ==
  (lpc = "ok" /\ job.good) =>
    /\ Len(image) = jpg.y /\ \A y \in 1..jpg.y : Len(image[y]) = jpg.x
    /\ \A y \in 1..jpg.y, x \in 1..jpg.x :
         ColourRight(image[y][x], [n \in 1..jpg.img_n |-> Upsampled(n, x - 1, y - 1)])
=============================================================================
