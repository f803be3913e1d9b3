---------------------------- MODULE StbPngWrite ----------------------------
(* The PNG writer of stb_image_write.h, stbi_write_png_to_mem, for an image  *)
(* given as rows of pixels: the filtered lines go through the compressor and *)
(* the result is the chunks IHDR, IDAT and IEND.                             *)
EXTENDS StbDeflate, StbPngLine

CONSTANT force_filter   \* stbi_write_force_png_filter; not in 0..4, the writer chooses

Line(rows, j) == Concat(rows[j])

\* Line j (from 1) under a filter.
Encoded(rows, j, type) ==
  encode_png_line(Line(rows, j), IF j > 1 THEN Line(rows, j - 1) ELSE <<>>, j - 1,
                  Len(rows[1][1]), type)

\* The estimate of a line's entropy: the sum of its bytes taken as signed.
Estimate(line) ==
  MapThenSumSet(LAMBDA i : IF line[i] < 128 THEN line[i] ELSE 256 - line[i], DOMAIN line)

\* The first of the filters with the least estimate, unless one is forced.
best_filter(rows, j) ==
  IF force_filter \in 0..4 THEN force_filter
  ELSE LET est == [t \in 0..4 |-> Estimate(Encoded(rows, j, t))]
       IN Min({t \in 0..4 : \A u \in 0..4 : est[t] <= est[u]})

filt(rows) ==
  Concat([j \in DOMAIN rows |->
    LET t == best_filter(rows, j) IN <<t>> \o Encoded(rows, j, t)])

\* The file around the compressed lines.
png_file(rows, idat) ==
  <<[type |-> "IHDR", length |-> 13,
     body |-> [x |-> Len(rows[1]), y |-> Len(rows), depth |-> 8,
               color |-> <<0, 4, 2, 6>>[Len(rows[1][1])],
               comp |-> 0, filter |-> 0, interlace |-> 0]],
    [type |-> "IDAT", length |-> Len(idat), body |-> idat],
    [type |-> "IEND", length |-> 0, body |-> <<>>]>>
=============================================================================
