----------------------------- MODULE StbImage -----------------------------
(* What the loaders of stb_image.h share.  An image is a sequence of rows, a *)
(* row a sequence of pixels, and a pixel the sequence of its components:     *)
(* grey, grey and alpha, RGB or RGBA.                                        *)
(*                                                                           *)
(* Every allocation may fail.  heap counts, for each buffer, the allocations *)
(* less the frees.                                                           *)
EXTENDS Integers, Sequences, StbSizes

CONSTANTS
  MAX_DIMENSIONS,  \* STBI_MAX_DIMENSIONS
  Junk             \* what an uninitialised byte or coefficient may hold

ASSUME DimensionsAssumption == MAX_DIMENSIONS \in Nat

VARIABLES
  req_comp,   \* the components the caller wants, or 0 for those of the file
  image,      \* the pixels so far
  heap,       \* how often each buffer is allocated
  own,        \* the buffers that the loader's own cleanup frees
  lpc         \* the step of a loader, or how it ended: "ok", "fail", "outofmem"

lvars == <<req_comp, image, heap, own, lpc>>

\* The buffers of the PNG and BMP loaders.
Buffers == {"idata", "expanded", "final", "raw", "filter_buf", "temp_out", "good", "reduced"}

Alloc(h, bs) == [b \in DOMAIN h |-> IF b \in bs THEN h[b] + 1 ELSE h[b]]
Free(h, bs) == [b \in DOMAIN h |-> IF b \in bs THEN h[b] - 1 ELSE h[b]]
Ended == lpc \in {"ok", "fail", "outofmem"}

compute_y(px) == (px[1] * 77 + px[2] * 150 + 29 * px[3]) \div 256

\* stbi__convert_format and stbi__convert_format16 on one pixel; opaque is the
\* alpha of a pixel that has none, 255 or 65535.
convert_pixel(px, comp, opaque) ==
  LET n == Len(px)
      y == IF n <= 2 THEN px[1] ELSE compute_y(px)
      rgb == IF n <= 2 THEN <<px[1], px[1], px[1]>> ELSE SubSeq(px, 1, 3)
      alpha == IF n \in {2, 4} THEN px[n] ELSE opaque
  IN CASE comp = n -> px
       [] comp = 1 /\ n # 1 -> <<y>>
       [] comp = 2 /\ n # 2 -> <<y, alpha>>
       [] comp = 3 /\ n # 3 -> rgb
       [] comp = 4 /\ n # 4 -> Append(rgb, alpha)

\* An operation on pixels applied to an image.
MapImage(rows, op(_)) ==
  [j \in DOMAIN rows |-> [i \in DOMAIN rows[j] |-> op(rows[j][i])]]

convert_format(rows, comp, opaque) ==
  MapImage(rows, LAMBDA px : convert_pixel(px, comp, opaque))

\* The top byte of every component.
convert_16_to_8(rows) == MapImage(rows, LAMBDA px : [c \in DOMAIN px |-> px[c] \div 256])
=============================================================================
