------------------------------ MODULE StbPng ------------------------------
(* The PNG loader of stb_image.h, stbi__do_png, on a file that begins with   *)
(* the PNG signature: one action per kind of chunk, the inflate machine of   *)
(* StbInflate, one action per scanline, and the steps that follow.           *)
(*                                                                           *)
(* A chunk is a record of its type, its length field and its body, of which  *)
(* a truncated file has fewer bytes than the length says; the body of IHDR   *)
(* is a record of its fields.                                                *)
EXTENDS StbInflate, StbPngLine, StbImage

CONSTANT FirstIdata   \* what is allocated for the first IDAT at least (4096)

VARIABLES
  chunks,     \* the chunks still to be read
  png,        \* the locals of stbi__parse_png_file
  ras         \* the locals of stbi__create_png_image and its raw half

pvars == <<chunks, png, ras>>

NoPng == [first |-> TRUE, x |-> 0, y |-> 0, n |-> 0, depth |-> 0, color |-> 0, interlace |-> 0,
          palette |-> <<>>, pal_len |-> 0, pal_img_n |-> 0, has_trans |-> FALSE, tc |-> <<>>,
          idata |-> <<>>, limit |-> 0, is_iphone |-> FALSE, out_n |-> 0]

\* raw is what is left of the decompressed bytes; p the interlace pass, x and y
\* its size, j the row, prior the row above and rows the pixels so far.
NoRas == [p |-> 0, x |-> 0, y |-> 0, j |-> 0, raw |-> <<>>, prior |-> <<>>, rows |-> <<>>]

png_load(file) ==
  /\ chunks' = file
  /\ lpc' = "chunk"
  /\ UNCHANGED <<req_comp, image, heap, own, png, ras>>

\* A failure anywhere below, for the reason given to stbi__err, when stbi__png
\* points to the buffers of held: stbi__do_png frees them.
png_stop(reason, held) ==
  /\ lpc' = reason
  /\ heap' = Free(heap, held)
  /\ own' = {}
  /\ UNCHANGED <<chunks, req_comp, png, ras, image>>

png_fail == png_stop("fail", own)
png_nomem == png_stop("outofmem", own)

-----------------------------------------------------------------------------
(* Chunks. *)

\* Past the end of the file stbi__get8 reads zeros: an unknown critical chunk.
Chunk == IF chunks = <<>> THEN [type |-> "critical", length |-> 0, body |-> <<>>] ELSE Head(chunks)

Reading(type) == lpc = "chunk" /\ Chunk.type = type

\* (mutant) The body of the chunk is not skipped.
NextChunk_Stays(p) ==
  /\ png' = p
  /\ UNCHANGED <<chunks, req_comp, ras, image, lpc>>

\* The chunk is done; its checksum is skipped.
NextChunk(p) ==
  /\ png' = p
  /\ chunks' = Tail(chunks)
  /\ UNCHANGED <<req_comp, ras, image, lpc>>

NextChunkOnly(p) == NextChunk(p) /\ UNCHANGED <<heap, own>>

CgBI == Reading("CgBI") /\ NextChunkOnly([png EXCEPT !.is_iphone = TRUE])

\* What stbi__parse_png_file accepts as a header.
Components(color) ==
  IF color = 3 THEN 1 ELSE (IF color \in {2, 6} THEN 3 ELSE 1) + (IF color \in {4, 6} THEN 1 ELSE 0)

HeaderOk(h) ==
  /\ h.x \in 1..MAX_DIMENSIONS /\ h.y \in 1..MAX_DIMENSIONS
  /\ h.depth \in {1, 2, 4, 8, 16}
  /\ h.color \in {0, 2, 3, 4, 6} /\ (h.color = 3 => h.depth # 16)
  /\ h.comp = 0 /\ h.filter = 0 /\ h.interlace \in {0, 1}
  /\ (2^30 \div h.x) \div (IF h.color = 3 THEN 4 ELSE Components(h.color)) >= h.y

IHDR ==
  /\ Reading("IHDR")
  /\ LET h == Chunk.body
     IN IF ~ png.first \/ Chunk.length # 13 \/ ~ HeaderOk(h) THEN png_fail
        ELSE NextChunkOnly([png EXCEPT !.first = FALSE, !.x = h.x, !.y = h.y,
               !.n = Components(h.color), !.depth = h.depth, !.color = h.color,
               !.interlace = h.interlace, !.pal_img_n = IF h.color = 3 THEN 3 ELSE 0])

\* Byte i of the body: zero where the file has ended.
At(i) == IF i <= Len(Chunk.body) THEN Chunk.body[i] ELSE 0

PLTE ==
  /\ Reading("PLTE")
  /\ LET n == Chunk.length \div 3
     IN IF png.first \/ Chunk.length > 768 \/ n * 3 # Chunk.length THEN png_fail
        ELSE NextChunkOnly([png EXCEPT !.pal_len = n,
               !.palette = [i \in 1..n |-> <<At(3 * i - 2), At(3 * i - 1), At(3 * i), 255>>]
                             \o SubSeq(@, n + 1, Len(@))])

\* With a palette the alpha of its first entries, else the colour to drop.
tRNS ==
  /\ Reading("tRNS")
  /\ LET n == Chunk.length
         Value(k) == At(2 * k - 1) * 256 + At(2 * k)
         alpha == [png EXCEPT !.pal_img_n = 4,
                     !.palette = [i \in DOMAIN @ |->
                                    IF i <= n THEN [@[i] EXCEPT ![4] = At(i)] ELSE @[i]]]
         trans == [png EXCEPT !.has_trans = TRUE,
                     !.tc = [k \in 1..png.n |->
                               IF png.depth = 16 THEN Value(k)
                               ELSE ((Value(k) % 256) * depth_scale(png.depth)) % 256]]
     IN IF png.first \/ "idata" \in own THEN png_fail
        ELSE IF png.pal_img_n > 0
        THEN IF png.pal_len = 0 \/ n > png.pal_len THEN png_fail ELSE NextChunkOnly(alpha)
        ELSE IF png.n % 2 = 0 \/ n # 2 * png.n THEN png_fail ELSE NextChunkOnly(trans)

\* The body is appended to idata, whose capacity doubles until it fits.
IDAT ==
  /\ Reading("IDAT")
  /\ LET need == Len(png.idata) + Chunk.length
         grow == need > png.limit
         limit == Doubled(IF png.limit > 0 THEN png.limit ELSE Max({Chunk.length, FirstIdata}), need)
         new == IF grow THEN {"idata"} \ own ELSE {}
     IN IF png.first \/ (png.pal_img_n > 0 /\ png.pal_len = 0)
           \/ Chunk.length > 2^30 \/ need > INT_MAX THEN png_fail
        ELSE \/ grow /\ png_nomem
             \/ /\ Chunk.length > Len(Chunk.body)
                /\ png_fail                         \* what was allocated is freed
             \/ /\ Chunk.length <= Len(Chunk.body)
                /\ heap' = Alloc(heap, new)
                /\ own' = own \cup new
                /\ NextChunk([png EXCEPT !.idata = @ \o SubSeq(Chunk.body, 1, Chunk.length),
                                         !.limit = IF grow THEN limit ELSE @])

skip_chunk == Reading("ancillary") /\ IF png.first THEN png_fail ELSE NextChunkOnly(png)

bad_chunk == Reading("critical") /\ png_fail

\* The size guessed for the decompressed data.
RawGuess == ((png.x * png.depth + 7) \div 8) * png.y * png.n + png.y

IEND ==
  /\ Reading("IEND")
  /\ IF png.first \/ "idata" \notin own THEN png_fail /\ UNCHANGED zvars
     ELSE \/ png_nomem /\ UNCHANGED zvars
          \/ /\ do_zlib(png.idata, RawGuess, ~ png.is_iphone)
             /\ heap' = Alloc(heap, {"expanded"})
             /\ lpc' = "inflate"
             /\ UNCHANGED <<chunks, req_comp, png, ras, image, own>>

-----------------------------------------------------------------------------
(* From the decompressed bytes to pixels. *)

inflate == lpc = "inflate" /\ zNext /\ UNCHANGED <<lvars, pvars>>

\* stbi_zlib_decode_malloc_guesssize_headerflag frees what it allocated.
inflate_failed ==
  /\ lpc = "inflate" /\ zpc \in {"fail", "outofmem"}
  /\ png_stop(zpc, own \cup {"expanded"})
  /\ UNCHANGED zvars

\* One more component is made room for when the caller wants it, or tRNS does;
\* an interlaced image is put together in a buffer of its own.
inflated ==
  /\ lpc = "inflate" /\ zpc = "ok"
  /\ LET out_n == IF (req_comp = png.n + 1 /\ req_comp # 3 /\ png.pal_img_n = 0) \/ png.has_trans
                  THEN png.n + 1 ELSE png.n
         final == IF png.interlace = 1 THEN {"final"} ELSE {}
     IN \/ /\ png.interlace = 1
           /\ png_stop("outofmem", {"idata", "expanded"})
        \/ /\ png' = [png EXCEPT !.out_n = out_n, !.idata = <<>>, !.limit = 0]
           /\ ras' = [NoRas EXCEPT !.raw = zout]
           /\ image' = [j \in 1..png.y |-> [i \in 1..png.x |-> <<>>]]
           /\ heap' = Alloc(Free(heap, {"idata"}), final)
           /\ own' = {"expanded"}
           /\ lpc' = "pass"
           /\ UNCHANGED <<chunks, req_comp>>
  /\ input' = <<>> /\ zout' = <<>> /\ blk' = NoBlock /\ zpc' = "idle"
  /\ z' = [at |-> 0, nb |-> 0, ph |-> 0, zeof |-> FALSE]
  /\ zcap' = 0

xorig == <<0, 4, 0, 2, 0, 1, 0>>
yorig == <<0, 0, 4, 0, 2, 0, 1>>
xspc == <<8, 8, 4, 4, 2, 2, 1>>
yspc == <<8, 8, 8, 4, 4, 2, 2>>

\* The size of pass p of an interlaced image, or of the only pass.
PassX(p) == IF png.interlace = 0 THEN png.x ELSE (png.x - xorig[p] + xspc[p] - 1) \div xspc[p]
PassY(p) == IF png.interlace = 0 THEN png.y ELSE (png.y - yorig[p] + yspc[p] - 1) \div yspc[p]
Passes == IF png.interlace = 0 THEN 1 ELSE 7

WidthBytes(x) == (png.n * x * png.depth + 7) \div 8

\* The buffer create_png_image gives up itself when a pass fails.
Final == IF png.interlace = 1 THEN {"final"} ELSE {}

\* (mutant) z->out still points to the buffer of the pass before.
PassHeld_Dangling == own \cup Final

\* What is freed when a pass fails before its first row.
PassHeld == {"expanded"} \cup Final

\* (mutant) The data must be exactly the bytes of the pass.
PassFits_Exact(x, y) ==
  /\ mad3sizes_valid(png.n, x, png.depth, 7)
  /\ mad2sizes_valid(WidthBytes(x), y, WidthBytes(x))
  /\ Len(ras.raw) = (WidthBytes(x) + 1) * y

\* The sizes of a pass can be computed and the data has that many bytes.
PassFits(x, y) ==
  /\ mad3sizes_valid(png.n, x, png.depth, 7)
  /\ mad2sizes_valid(WidthBytes(x), y, WidthBytes(x))
  /\ Len(ras.raw) >= (WidthBytes(x) + 1) * y

\* The next pass that has pixels, up to where its rows begin.  z->out, which
\* still points to the freed buffer of the pass before, is overwritten first.
start_pass ==
  /\ lpc = "pass" /\ ras.p < Passes
  /\ LET p == ras.p + 1
         x == PassX(p)
         y == PassY(p)
     IN \/ /\ x = 0 \/ y = 0
           /\ ras' = [ras EXCEPT !.p = p]
           /\ UNCHANGED <<chunks, req_comp, png, image, heap, own, lpc>>
        \/ /\ x > 0 /\ y > 0
           /\ png_stop("outofmem", PassHeld)
        \/ /\ x > 0 /\ y > 0 /\ ~ PassFits(x, y)
           /\ png_stop("fail", PassHeld)   \* z->out comes and goes
        \/ /\ x > 0 /\ y > 0 /\ PassFits(x, y)
           /\ mad3sizes_valid(x, y, png.out_n * (IF png.depth = 16 THEN 2 ELSE 1), 0)
           /\ ras' = [ras EXCEPT !.p = p, !.x = x, !.y = y, !.j = 0, !.prior = <<>>, !.rows = <<>>]
           /\ heap' = Alloc(heap, {"raw", "filter_buf"})
           /\ own' = {"expanded", "raw"}
           /\ lpc' = "row"
           /\ UNCHANGED <<chunks, req_comp, png, image>>

\* One scanline: its filter is undone and its bytes become pixels.
row ==
  /\ lpc = "row" /\ ras.j < ras.y
  /\ LET w == WidthBytes(ras.x)
         filter == ras.raw[1]
         fb == IF png.depth < 8 THEN 1 ELSE png.n * (IF png.depth = 16 THEN 2 ELSE 1)
         cur == unfilter_line(SubSeq(ras.raw, 2, w + 1), ras.prior, ras.j, fb, filter)
     IN IF filter > 4 THEN png_stop("fail", own \cup {"filter_buf"} \cup Final)
        ELSE /\ ras' = [ras EXCEPT !.j = @ + 1, !.raw = SubSeq(@, w + 2, Len(@)), !.prior = cur,
                  !.rows = Append(@, line_pixels(cur, ras.x, png.n, png.out_n, png.depth, png.color))]
             /\ UNCHANGED <<chunks, req_comp, png, image, heap, own, lpc>>

\* The rows of a pass go to their places in the interlaced image.
Placed(p) ==
  [y \in DOMAIN image |-> [x \in DOMAIN image[y] |->
     LET i == x - 1 - xorig[p]
         j == y - 1 - yorig[p]
     IN IF i >= 0 /\ j >= 0 /\ i % xspc[p] = 0 /\ j % yspc[p] = 0
        THEN ras.rows[j \div yspc[p] + 1][i \div xspc[p] + 1] ELSE image[y][x]]]

end_pass ==
  /\ lpc = "row" /\ ras.j = ras.y
  /\ image' = IF png.interlace = 1 THEN Placed(ras.p) ELSE ras.rows
  /\ heap' = Free(heap, {"filter_buf"} \cup (IF png.interlace = 1 THEN {"raw"} ELSE {}))
  /\ ras' = [ras EXCEPT !.rows = <<>>, !.prior = <<>>]
  /\ lpc' = "pass"
  /\ UNCHANGED <<chunks, req_comp, png, own>>

\* (mutant) Only the first component is compared with the colour of tRNS.
compute_transparency_First(px) ==
  LET n == Len(px)
      opaque == IF png.depth = 16 THEN 65535 ELSE 255
  IN IF px[1] = png.tc[1] THEN [px EXCEPT ![n] = 0]
     ELSE IF n = 2 THEN [px EXCEPT ![n] = opaque] ELSE px

\* The colour of tRNS becomes transparent; grey gets an alpha either way.
compute_transparency(px) ==
  LET n == Len(px)
      opaque == IF png.depth = 16 THEN 65535 ELSE 255
  IN IF SubSeq(px, 1, n - 1) = png.tc THEN [px EXCEPT ![n] = 0]
     ELSE IF n = 2 THEN [px EXCEPT ![n] = opaque] ELSE px

\* An entry of the palette; those that no PLTE gave are uninitialised.
Entry(k, n, junk) == IF k < Len(png.palette) THEN SubSeq(png.palette[k + 1], 1, n)
                     ELSE [c \in 1..n |-> junk]

\* Of the buffers out and expanded only kept is left.
png_end(pc, out, kept) ==
  /\ lpc' = pc
  /\ heap' = Alloc(Free(heap, {out, "expanded"}), kept)
  /\ own' = {}
  /\ UNCHANGED <<chunks, req_comp, png>>

\* The components once the palette is applied, and whether the caller wants others.
PalComp == IF req_comp >= 3 THEN req_comp ELSE png.pal_img_n
Convert == req_comp \notin {0, IF png.pal_img_n > 0 THEN PalComp ELSE png.out_n}

\* The pixels after transparency or palette, the conversion to what the caller
\* wants, and from 16 to 8 bits a component (stbi__load_and_postprocess_8bit).
PostImage(junk) ==
  LET clear == IF png.has_trans THEN MapImage(image, compute_transparency) ELSE image
      coloured == IF png.pal_img_n = 0 THEN clear
                  ELSE MapImage(clear, LAMBDA px : Entry(px[1], PalComp, junk))
      wanted == IF Convert
                THEN convert_format(coloured, req_comp, IF png.depth = 16 THEN 65535 ELSE 255)
                ELSE coloured
  IN IF png.depth = 16 THEN convert_16_to_8(wanted) ELSE wanted

\* Each buffer is freed when the next has been filled; stbi__convert_16_to_8
\* alone keeps its argument when it has no memory.
post ==
  /\ lpc = "pass" /\ ras.p = Passes
  /\ LET out == IF png.interlace = 1 THEN "final" ELSE "raw"
         coloured == IF png.pal_img_n > 0 THEN "temp_out" ELSE out
         wanted == IF Convert THEN "good" ELSE coloured
         result == IF png.depth = 16 THEN "reduced" ELSE wanted
     IN \/ png.pal_img_n > 0 /\ png_end("outofmem", out, {}) /\ UNCHANGED <<ras, image>>
        \/ Convert /\ png_end("outofmem", out, {}) /\ UNCHANGED <<ras, image>>
        \/ png.depth = 16 /\ png_end("outofmem", out, {wanted}) /\ UNCHANGED <<ras, image>>
        \/ /\ png_end("ok", out, {result})
           /\ ras' = NoRas
           /\ \E junk \in Junk : image' = PostImage(junk)

pNext ==
  \/ (CgBI \/ IHDR \/ PLTE \/ tRNS \/ IDAT \/ skip_chunk \/ bad_chunk) /\ UNCHANGED zvars
  \/ IEND
  \/ inflate
  \/ inflate_failed
  \/ inflated
  \/ (start_pass \/ row \/ end_pass \/ post) /\ UNCHANGED zvars
=============================================================================
