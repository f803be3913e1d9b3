----------------------------- MODULE FacetJpeg -----------------------------
(* facet_image_decode of facet_image.c on JPEG files, and the JPEG writer of *)
(* stb_image_write.h as one source of them.  The job names what is decoded:  *)
(*   - via "jpg": its units go through the writer;                           *)
(*   - via "file": file is given.                                            *)
(* quant and coefs are what the file describes: for each component its       *)
(* quantisation table and the coefficients of its blocks, in zigzag order.   *)
(* good says whether the file is well formed.                                *)
EXTENDS StbJpeg, StbJpegWrite

CONSTANT Jobs

VARIABLE job

vars == <<job, wvars, jvars, lvars>>

Init ==
  /\ job \in Jobs
  /\ wIdle
  /\ jIdle
  /\ req_comp = job.req /\ image = <<>> /\ heap = [b \in JBuffers |-> 0] /\ own = {}
  /\ lpc = "idle"

write_jpg_core ==
  /\ lpc = "idle" /\ job.via = "jpg"
  /\ write_headers(job.width, job.height, job.quality) \/ write_unit(job.units, job.quality)
  /\ UNCHANGED <<job, jvars, lvars>>

load_jpeg ==
  /\ lpc = "idle"
  /\ \/ job.via = "jpg" /\ wat = Len(job.units) /\ start_mem(jpg_file)
     \/ job.via = "file" /\ start_mem(job.file)
  /\ UNCHANGED <<job, wvars>>

decode_jpeg == jNext /\ UNCHANGED <<job, wvars>>

\* facet_image_free gives the pixels back.
facet_image_free ==
  /\ lpc = "ok" /\ heap[<<"output", 0>>] > 0
  /\ heap' = Free(heap, {<<"output", 0>>})
  /\ UNCHANGED <<job, wvars, jvars, req_comp, image, own, lpc>>

\* Nothing is left to do.
done == Ended /\ UNCHANGED vars

Next == write_jpg_core \/ load_jpeg \/ decode_jpeg \/ facet_image_free \/ done

Spec == Init /\ [][Next]_vars

-----------------------------------------------------------------------------
(* Properties. *)

\* Every access stays in its buffer: a block in its plane, a coefficient in the
\* zigzag table with its 15 entries of slack, the rows and samples that the
\* resampler reads in the plane, and what it writes in the line buffer of the
\* width of the image and 3 bytes.
Inside ==
  /\ lpc \in {"ac", "refine", "advance", "block"} => Place \in DOMAIN planes[Comp] /\ blk.k <= 64 + 15
  /\ (lpc = "line" /\ Len(image) < jpg.y) =>
       \A n \in 1..DecodeN : /\ lines[n].line0 < 8 * PlaneH(jpg, n) /\ lines[n].line1 < 8 * PlaneH(jpg, n)
                             /\ WLores(n) <= 8 * PlaneW(jpg, n) /\ WLores(n) * Hs(n) <= jpg.x + 3

\* A well-formed file is refused only for want of memory.
GoodFilesDecode == job.good => lpc # "fail"

\* No buffer is freed twice, and none is allocated over one that is still held,
\* whichever of the allocations of the frame and of the output fails; once the
\* loader has returned, nothing but the result is allocated.
HeapSound ==
  /\ \A b \in JBuffers : heap[b] \in {0, 1}
  /\ Ended => \A b \in JBuffers : heap[b] > 0 => lpc = "ok" /\ b = <<"output", 0>>

\* What is left to do, most significant part first: the stage, the bytes left,
\* and in a scan the blocks and the coefficients left.
Left ==
  LET bytes == IF rd.pos < Len(file) THEN Len(file) - rd.pos ELSE 0
      blocks == (scan.total - scan.at) * Len(scan.mcu) - scan.b
  IN CASE lpc = "idle" -> IF job.via = "jpg" THEN <<8, Len(job.units) - wat, IF wout = <<>> THEN 1 ELSE 0>>
                          ELSE <<8, 0, 0>>
       [] lpc = "test" -> <<7>>
       [] lpc \in {"header", "padding"} -> <<6, bytes>>
       [] lpc = "image" -> <<5, bytes, 0>>
       [] lpc = "scan" -> <<5, bytes, 1, blocks + 1, 200>>
       [] lpc \in {"ac", "refine", "advance"} ->
            <<5, bytes, 1, blocks + 1, 2 * (80 - blk.k) + (IF lpc = "refine" THEN 1 ELSE 0)>>
       [] lpc = "block" -> <<5, bytes, 1, blocks + 1, 0>>
       [] lpc = "finish" -> <<4, jpg.img_n - Len(lines)>>
       [] lpc = "output" -> <<3>>
       [] lpc = "line" -> <<2, jpg.y - Len(image)>>
       [] OTHER -> <<1, heap[<<"output", 0>>]>>

Before(a, b) == \E k \in DOMAIN a \cap DOMAIN b : a[k] < b[k] /\ \A i \in 1..k - 1 : a[i] = b[i]

\* Every step brings the decode nearer to its end, whatever the file holds, even
\* when it ends in the middle of a scan and the bit buffer makes up zeros.  With
\* the absence of deadlock this is termination.
Progress == [][Before(Left', Left) /\ \A k \in DOMAIN Left' : Left'[k] >= 0]_vars
=============================================================================
