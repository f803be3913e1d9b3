---------------------------- MODULE FacetImage ----------------------------
(* facet_image_decode of facet_image.c with the loaders it can reach for PNG *)
(* and BMP files, and the writers of stb_image_write.h as one source of such *)
(* files.  The job names what is decoded:                                    *)
(*   - via "png" or "bmp": the rows go through the writer of that format;    *)
(*   - via "file": file is given, its format in magic.                       *)
(* want is the image that the file describes, and good says whether the file *)
(* is well formed.                                                           *)
EXTENDS StbPng, StbPngWrite, StbBmp

CONSTANT Jobs   \* a sequence, since a job of one kind and one of another do not compare

VARIABLE job

vars == <<job, cvars, zvars, pvars, bmp, lvars>>

Init ==
  /\ \E i \in DOMAIN Jobs : job = Jobs[i]
  /\ cIdle
  /\ zIdle
  /\ chunks = <<>> /\ png = NoPng /\ ras = NoRas
  /\ bmp = NoBmp
  /\ req_comp = job.req /\ image = <<>> /\ heap = [b \in Buffers |-> 0] /\ own = {}
  /\ lpc = "idle"

\* stbi_write_png_to_mem filters the lines and hands them to the compressor.
write_png_to_mem ==
  /\ lpc = "idle" /\ job.via = "png"
  /\ zlib_compress(filt(job.rows))
  /\ UNCHANGED <<job, zvars, pvars, bmp, lvars>>

write_symbol == lpc = "idle" /\ cNext /\ UNCHANGED <<job, zvars, pvars, bmp, lvars>>

\* stbi__load_main tries PNG first, then BMP.
load_png ==
  /\ lpc = "idle"
  /\ \/ job.via = "png" /\ cpc = "done"
     \/ job.via = "file" /\ job.magic = "png"
  /\ png_load(IF job.via = "png" THEN png_file(job.rows, zlib) ELSE job.file)
  /\ UNCHANGED <<job, cvars, zvars, bmp>>

load_bmp ==
  /\ lpc = "idle"
  /\ job.via = "bmp" \/ (job.via = "file" /\ job.magic = "bmp")
  /\ bmp_load(IF job.via = "bmp" THEN write_bmp_core(job.rows) ELSE job.file)
  /\ UNCHANGED <<job, cvars, zvars, pvars>>

unknown_image_type ==
  /\ lpc = "idle" /\ job.via = "file" /\ job.magic = "none"
  /\ lpc' = "fail"
  /\ UNCHANGED <<job, cvars, zvars, pvars, bmp, req_comp, image, heap, own>>

decode_png == pNext /\ UNCHANGED <<job, cvars, bmp>>

decode_bmp == (bmp_row \/ bmp_done) /\ UNCHANGED <<job, cvars, zvars, pvars>>

\* facet_image_free gives the pixels back.
facet_image_free ==
  /\ lpc = "ok" /\ \E b \in Buffers : heap[b] > 0
  /\ heap' = Free(heap, {b \in Buffers : heap[b] > 0})
  /\ UNCHANGED <<job, cvars, zvars, pvars, bmp, req_comp, image, own, lpc>>

\* Nothing is left to do.
done == Ended /\ UNCHANGED vars

Next == \/ write_png_to_mem \/ write_symbol \/ load_png \/ load_bmp \/ unknown_image_type
        \/ decode_png \/ decode_bmp \/ facet_image_free
        \/ done

Spec == Init /\ [][Next]_vars

-----------------------------------------------------------------------------
(* Properties. *)

\* The decoder and the encoders keep the shape of their state.
TypeOK ==
  /\ lpc \in {"idle", "chunk", "inflate", "pass", "row", "bmp_row", "ok", "fail", "outofmem"}
  /\ zpc \in {"idle", "header", "block", "lengths", "symbol", "ok", "fail", "outofmem"}
  /\ heap \in [Buffers -> Int]
  /\ own \subseteq Buffers
  /\ z.nb \in 0..32 /\ Len(zout) <= zcap

\* Whatever facet_image_decode returns is the image that the file describes:
\* through the filters, the compressor and the inflater, for every depth and
\* colour type, interlaced or not, and for every BMP header, depth and mask.  Of an OS/2
\* palette this is so only for files that do not use their last four colours:
\* bmp_load counts the palette with 24 in place of 12 bytes of header, four
\* entries short.
Decoded == (lpc = "ok" /\ job.good) => image = job.want

\* stbi__bmp_load says that it accepts extra bytes after the header: a file with
\* few of them decodes to the rows that begin at its offset.
ExtraBytesAccepted ==
  (lpc = "ok" /\ job.magic = "bmp" /\ OffsetOk(job.file)) => image = job.want

\* A well-formed file is refused only for want of memory.  An OS/2 file of just
\* four palette colours is not among them: its palette counts as empty, and
\* bmp_load refuses it.
GoodFilesDecode == job.good => lpc # "fail"

\* No buffer is freed twice, and none is allocated over one that is still held,
\* on any path through stbi__do_png and its failures; once the loader has
\* returned, nothing but the result is allocated.  The one exception is
\* stbi__convert_16_to_8, which keeps its argument when it finds no memory for
\* the result.
HeapSound ==
  /\ \A b \in Buffers : heap[b] \in {0, 1}
  /\ Ended => LET held == {b \in Buffers : heap[b] > 0}
              IN /\ lpc = "ok" => Cardinality(held) <= 1
                 /\ lpc = "fail" => held = {}
                 /\ lpc = "outofmem" => held = {} \/ (png.depth = 16 /\ Cardinality(held) = 1)

\* The bits of the compressed data that the inflater has not used.
Unread == Max({0, 8 * (Len(input) - z.at) - z.ph + z.nb})

\* What is left to do, most significant part first: the stage, and in it what
\* is still to be read or produced.  Past the end of its data the inflater reads
\* zeros, and then fails, ends, or fills a buffer that has a limit.
Left ==
  CASE lpc = "idle" -> <<6, IF cpc = "idle" THEN 2 ELSE IF cpc = "symbols" THEN 1 ELSE 0,
                         Len(data) - ci, 0>>
    [] lpc = "chunk" -> <<5, Len(chunks), 0, 0>>
    [] lpc = "inflate" /\ zpc = "lengths" -> <<4, Unread, 3, -Len(blk.lens)>>
    [] lpc = "inflate" /\ zpc = "symbol" -> <<4, Unread, 2, -Len(zout)>>
    [] lpc = "inflate" /\ zpc \in {"header", "block"} -> <<4, Unread, 1, 0>>
    [] lpc = "inflate" /\ zpc \in {"ok", "fail", "outofmem"} -> <<4, Unread, 0, 0>>
    [] lpc \in {"pass", "row"} ->
         <<3, Passes - ras.p, IF lpc = "row" THEN ras.y - ras.j + 1 ELSE 0, 0>>
    [] lpc = "bmp_row" -> <<2, 0, bmp.y - Len(image), 0>>
    [] OTHER -> <<1, 0, Cardinality({b \in Buffers : heap[b] > 0}), 0>>

Before(a, b) == \E k \in DOMAIN a : a[k] < b[k] /\ \A i \in 1..k - 1 : a[i] = b[i]

\* Every step brings the decode nearer to its end, whatever the file holds: a
\* step that neither consumes input nor produces output would be a hang.  With
\* the absence of deadlock this is termination: blk.lens is never longer than
\* blk.ntot, nor zout than an unsigned int can say.
Progress == [][Before(Left', Left) /\ \A k \in 1..3 : Left'[k] >= 0]_vars
=============================================================================
