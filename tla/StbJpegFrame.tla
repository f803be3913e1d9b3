--------------------------- MODULE StbJpegFrame ---------------------------
(* The sizes that stbi__process_frame_header of stb_image.h derives from the *)
(* size of the image and the sampling factors, in one direction: a component *)
(* of factor f, where max is the largest factor, has                         *)
(*   comp_size  samples of its own,                                          *)
(*   plane_size samples of memory, whole MCUs of them,                       *)
(* and load_jpeg_image reads w_lores of them, each for expansion pixels.     *)
EXTENDS Integers

img_mcu(x, max) == (x + 8 * max - 1) \div (8 * max)
comp_size(x, f, max) == (x * f + max - 1) \div max
plane_size(x, f, max) == img_mcu(x, max) * f * 8
expansion(f, max) == max \div f
w_lores(x, f, max) == (x + expansion(f, max) - 1) \div expansion(f, max)

\* The blocks of a scan of this component alone.
scan_blocks(x, f, max) == (comp_size(x, f, max) + 7) \div 8

\* The factors that are accepted.
Factors == {fm \in (1..4) \X (1..4) : fm[1] <= fm[2] /\ fm[2] % fm[1] = 0}
=============================================================================
