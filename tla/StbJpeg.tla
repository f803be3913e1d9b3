------------------------------ MODULE StbJpeg ------------------------------
(* The JPEG loader of stb_image.h, stbi__jpeg_load: markers and segments,    *)
(* the frame and its buffers, baseline and progressive scans one symbol at a *)
(* time, and the resampling into pixels one line at a time.                  *)
EXTENDS StbJpegHuff, StbJpegFrame, StbJpegPixels, StbImage, FiniteSetsExt

VARIABLES
  rd,      \* the reader
  mark,    \* the marker at hand (m)
  jpg,     \* what the headers and tables say (stbi__jpeg)
  scan,    \* the scan and where it is
  blk,     \* the block being decoded
  planes,  \* for each component its blocks: samples
  coeffs,  \* the same before the inverse transform, of a progressive image
  lines    \* for each component where the resampler is

jvars == <<file, rd, mark, jpg, scan, blk, planes, coeffs, lines>>

Zero == [n \in 0..63 |-> 0]

NoJpg == [img_n |-> 0, x |-> 0, y |-> 0, progressive |-> FALSE, comp |-> <<>>, hmax |-> 1, vmax |-> 1,
          jfif |-> FALSE, app14 |-> -1, restart_interval |-> 0, dequant |-> [t \in 0..3 |-> Zero],
          huff_dc |-> [t \in 0..3 |-> NoTable], huff_ac |-> [t \in 0..3 |-> NoTable]]
NoScan == [mcu |-> <<>>, interleaved |-> FALSE, across |-> 0, total |-> 0, at |-> 0, b |-> 1, ss |-> 0, se |-> 0,
           ah |-> 0, al |-> 0, dc_pred |-> <<0, 0, 0, 0>>, todo |-> 0, eob_run |-> 0]
NoBlk == [k |-> 0, run |-> 0, s |-> 0, data |-> <<>>]

\* The buffers: the decoder's state, the result, and those of a component.
JBuffers == {<<"jpeg", 0>>, <<"output", 0>>} \cup ({"data", "coeff", "linebuf"} \X (1..4))

\* (short)
Short(v) == ((v + 2^15) % 2^16) - 2^15

dezigzag == <<0, 1, 8, 16, 9, 2, 3, 10, 17, 24, 32, 25, 18, 11, 4, 5,
              12, 19, 26, 33, 40, 48, 41, 34, 27, 20, 13, 6, 7, 14, 21, 28,
              35, 42, 49, 56, 57, 50, 43, 36, 29, 22, 15, 23, 30, 37, 44, 51,
              58, 59, 52, 45, 38, 31, 39, 46, 53, 60, 61, 54, 47, 55, 62, 63>>
              \o [i \in 1..15 |-> 63]
Zig(k) == dezigzag[k + 1]
\* Where a coefficient comes in the zigzag.
zigzag == [n \in 0..63 |-> (CHOOSE i \in 1..64 : dezigzag[i] = n) - 1]

jIdle ==
  /\ file = <<>> /\ rd = [pos |-> 0, bits |-> <<>>, marker |-> MARKER_none, nomore |-> FALSE]
  /\ mark = MARKER_none /\ jpg = NoJpg /\ scan = NoScan /\ blk = NoBlk
  /\ planes = <<>> /\ coeffs = <<>> /\ lines = <<>>

\* Failure with o the pointers that are set: stbi__cleanup_jpeg frees what they
\* point to, and stbi__jpeg_load the state.
jpeg_stop(reason, h, o) ==
  /\ lpc' = reason
  /\ heap' = Free(h, o \cup {<<"jpeg", 0>>})
  /\ own' = {}
  /\ UNCHANGED <<req_comp, image, jvars>>

jpeg_fail == jpeg_stop("fail", heap, own)

\* stbi__start_mem.
start_mem(bytes) ==
  /\ file' = bytes
  /\ lpc' = "test"
  /\ UNCHANGED <<req_comp, image, heap, own, rd, mark, jpg, scan, blk, planes, coeffs, lines>>

\* stbi__jpeg_test looks for SOI with a state of its own; then stbi__jpeg_load
\* begins from the start again.  There may be no memory for either state.
jpeg_load ==
  /\ lpc = "test"
  /\ LET soi == get_marker(rd)
         first == get_marker(soi.r)
     IN \/ soi.m # 216 /\ lpc' = "fail" /\ UNCHANGED <<heap, rd, mark>>
        \/ lpc' = "outofmem" /\ UNCHANGED <<heap, rd, mark>>
        \/ /\ soi.m = 216 /\ lpc' = "header"
           /\ heap' = Alloc(heap, {<<"jpeg", 0>>})
           /\ rd' = first.r /\ mark' = first.m
  /\ UNCHANGED <<req_comp, image, own, file, jpg, scan, blk, planes, coeffs, lines>>

-----------------------------------------------------------------------------
(* Segments: p is the place of the segment's length. *)

Bad == [ok |-> FALSE, jpg |-> NoJpg, pos |-> 0]

\* A segment's tables, one after the other: s has what is read so far, the place
\* of the next table and the bytes left for it.
Begun(p) == [ok |-> TRUE, jpg |-> jpg, pos |-> p + 2, left |-> Word(p) - 2]
Over(s) == ~ s.ok \/ s.left <= 0
Read(s) == [ok |-> s.ok /\ s.left = 0, jpg |-> s.jpg, pos |-> s.pos]

\* A quantisation table of 8 or of 16 bits an entry.
dqt_table(s) ==
  LET wide == Byte(s.pos) \div 16
      t == Byte(s.pos) % 16
      Entry(i) == IF wide = 1 THEN Word(s.pos + 1 + 2 * i) ELSE Byte(s.pos + 1 + i)
      size == IF wide = 1 THEN 129 ELSE 65
  IN IF Over(s) THEN s
     ELSE IF wide > 1 \/ t > 3 THEN [s EXCEPT !.ok = FALSE]
     ELSE [s EXCEPT !.jpg.dequant[t] = [n \in 0..63 |-> Entry(zigzag[n])], !.pos = @ + size, !.left = @ - size]

\* A table has 65 bytes or more.
DQT(p) ==
  LET n == (Word(p) \div 65) + 1
      s[i \in 0..n] == IF i = 0 THEN Begun(p) ELSE dqt_table(s[i - 1])
  IN Read(s[CHOOSE i \in 0..n : i = n \/ Over(s[i])])

\* A table of Huffman codes.
dht_table(s) ==
  LET tc == Byte(s.pos) \div 16
      th == Byte(s.pos) % 16
      h == build_huffman([i \in 1..16 |-> Byte(s.pos + i)])
      table == [h EXCEPT !.values = [i \in 1..256 |-> IF i <= h.total THEN Byte(s.pos + 16 + i) ELSE 0]]
      size == 17 + h.total
  IN IF Over(s) THEN s
     ELSE IF tc > 1 \/ th > 3 \/ h.total > 256 \/ ~ h.ok THEN [s EXCEPT !.ok = FALSE]
     ELSE [s EXCEPT !.jpg.huff_dc[th] = IF tc = 0 THEN table ELSE @,
                    !.jpg.huff_ac[th] = IF tc = 1 THEN table ELSE @, !.pos = @ + size, !.left = @ - size]

\* A table has 17 bytes or more.
DHT(p) ==
  LET n == (Word(p) \div 17) + 1
      s[i \in 0..n] == IF i = 0 THEN Begun(p) ELSE dht_table(s[i - 1])
  IN Read(s[CHOOSE i \in 0..n : i = n \/ Over(s[i])])

process_marker(m, p) ==
  LET L == Word(p)
      Tag(bytes) == \A i \in DOMAIN bytes : Byte(p + 1 + i) = bytes[i]
      app == [jpg EXCEPT !.jfif = @ \/ (m = 224 /\ L >= 7 /\ Tag(<<74, 70, 73, 70, 0>>)),
                !.app14 = IF m = 238 /\ L >= 14 /\ Tag(<<65, 100, 111, 98, 101, 0>>)
                          THEN Byte(p + 13) ELSE @]
  IN CASE m = 221 -> [ok |-> L = 4, pos |-> p + 4,
                      jpg |-> [jpg EXCEPT !.restart_interval = Word(p + 2)]]
       [] m = 219 -> DQT(p)
       [] m = 196 -> DHT(p)
       [] m \in 224..239 \cup {254} -> [ok |-> L >= 2, pos |-> p + L, jpg |-> app]
       [] OTHER -> Bad

\* The next marker from place p on.
NextMarker(p) ==
  LET g == get_marker([rd EXCEPT !.pos = p])
  IN rd' = g.r /\ mark' = g.m

SOF == {192, 193, 194}

\* Segments before the frame; a missing marker is looked for in the padding.
header_segment ==
  /\ lpc = "header" /\ mark \notin SOF
  /\ LET s == process_marker(mark, rd.pos)
     IN IF ~ s.ok THEN jpeg_fail
        ELSE /\ jpg' = s.jpg
             /\ NextMarker(s.pos)
             /\ lpc' = IF mark' = MARKER_none THEN "padding" ELSE "header"
             /\ UNCHANGED <<req_comp, image, heap, own, file, scan, blk, planes, coeffs, lines>>

\* (mutant) The end of the file is not noticed.
padding_Forever ==
  /\ lpc = "padding"
  /\ NextMarker(rd.pos)
  /\ lpc' = IF mark' = MARKER_none THEN "padding" ELSE "header"
  /\ UNCHANGED <<req_comp, image, heap, own, file, jpg, scan, blk, planes, coeffs, lines>>

padding ==
  /\ lpc = "padding"
  /\ IF at_eof(rd.pos) THEN jpeg_fail
     ELSE /\ NextMarker(rd.pos)
          /\ lpc' = IF mark' = MARKER_none THEN "padding" ELSE "header"
          /\ UNCHANGED <<req_comp, image, heap, own, file, jpg, scan, blk, planes, coeffs, lines>>

-----------------------------------------------------------------------------
(* The frame. *)

FrameComp(p, i) ==
  LET q == Byte(p + 6 + 3 * i)
  IN [id |-> Byte(p + 5 + 3 * i), h |-> q \div 16, v |-> q % 16, tq |-> Byte(p + 7 + 3 * i),
      hd |-> 0, ha |-> 0]

\* What stbi__process_frame_header reads at p, and whether it accepts it.
Frame(p) ==
  LET c == Byte(p + 7)
      comp == [i \in 1..c |-> FrameComp(p, i)]
  IN [jpg EXCEPT !.y = Word(p + 3), !.x = Word(p + 5), !.img_n = c, !.comp = comp,
                 !.hmax = Max({1} \cup {comp[i].h : i \in 1..c}),
                 !.vmax = Max({1} \cup {comp[i].v : i \in 1..c}), !.progressive = mark = 194]

\* (mutant) The factors are divided the wrong way around.
FrameOk_Divides(p, f) ==
  /\ Word(p) >= 11 /\ Byte(p + 2) = 8
  /\ f.x \in 1..MAX_DIMENSIONS /\ f.y \in 1..MAX_DIMENSIONS
  /\ f.img_n \in {1, 3, 4} /\ Word(p) = 8 + 3 * f.img_n
  /\ \A i \in 1..f.img_n : /\ f.comp[i].h \in 1..4 /\ f.comp[i].h % f.hmax = 0
                            /\ f.comp[i].v \in 1..4 /\ f.comp[i].v % f.vmax = 0
                            /\ f.comp[i].tq <= 3

FrameOk(p, f) ==
  /\ Word(p) >= 11 /\ Byte(p + 2) = 8
  /\ f.x \in 1..MAX_DIMENSIONS /\ f.y \in 1..MAX_DIMENSIONS
  /\ f.img_n \in {1, 3, 4} /\ Word(p) = 8 + 3 * f.img_n
  /\ \A i \in 1..f.img_n : /\ f.comp[i].h \in 1..4 /\ f.hmax % f.comp[i].h = 0
                            /\ f.comp[i].v \in 1..4 /\ f.vmax % f.comp[i].v = 0
                            /\ f.comp[i].tq <= 3
  /\ mad3sizes_valid(f.x, f.y, f.img_n, 0)

\* The size of a component's plane in blocks, and whether it can be computed.
PlaneW(f, n) == img_mcu(f.x, f.hmax) * f.comp[n].h
PlaneH(f, n) == img_mcu(f.y, f.vmax) * f.comp[n].v
PlaneOk(f, n) ==
  IF f.progressive THEN mad3sizes_valid(8 * PlaneW(f, n), 8 * PlaneH(f, n), 2, 15)
  ELSE mad2sizes_valid(8 * PlaneW(f, n), 8 * PlaneH(f, n), 15)

\* (mutant) Nothing is given back.
free_jpeg_components_Leaks(got) == jpeg_stop("outofmem", Alloc(heap, got), {})

\* stbi__free_jpeg_components gives back the buffers got and forgets them.
free_jpeg_components(got) == jpeg_stop("outofmem", Free(Alloc(heap, got), got), {})

\* Every buffer of the frame, or those allocated before one that failed.
frame_header ==
  /\ lpc = "header" /\ mark \in SOF
  /\ LET p == rd.pos
         f == Frame(p)
         kinds == IF f.progressive THEN {"data", "coeff"} ELSE {"data"}
         Earlier(i, b) == (kinds \X (1..i - 1)) \cup (IF b = "coeff" THEN {<<"data", i>>} ELSE {})
         blank == [n \in 1..f.img_n |-> [at \in (0..PlaneW(f, n) - 1) \X (0..PlaneH(f, n) - 1) |-> <<>>]]
     IN IF ~ FrameOk(p, f) THEN jpeg_fail
        ELSE \/ \E i \in 1..f.img_n, b \in kinds : free_jpeg_components(Earlier(i, b))
             \/ /\ \A n \in 1..f.img_n : PlaneOk(f, n)
                /\ jpg' = f
                /\ heap' = Alloc(heap, kinds \X (1..f.img_n))
                /\ own' = kinds \X (1..f.img_n)
                /\ planes' = blank
                /\ coeffs' = IF f.progressive THEN blank ELSE <<>>
                /\ NextMarker(p + Word(p))
                /\ lpc' = "image"
                /\ UNCHANGED <<req_comp, image, file, scan, blk, lines>>

-----------------------------------------------------------------------------
(* After the frame: scans, tables between them, and the end of the image. *)

\* stbi__jpeg_reset
Reset(r) == [r EXCEPT !.bits = <<>>, !.nomore = FALSE, !.marker = MARKER_none]
ResetScan(s) == [s EXCEPT !.dc_pred = <<0, 0, 0, 0>>, !.eob_run = 0,
                          !.todo = IF jpg.restart_interval > 0 THEN jpg.restart_interval ELSE INT_MAX]

\* The components that a scan header at p names, with the tables they use.
Chosen(p, i) == CHOOSE n \in 1..jpg.img_n :
                  jpg.comp[n].id = Byte(p + 1 + 2 * i) /\ \A l \in 1..n - 1 : jpg.comp[l].id # jpg.comp[n].id
ScanOk(p) ==
  LET n == Byte(p + 2)
      q == p + 3 + 2 * n
      aa == Byte(q + 2)
  IN /\ n \in 1..jpg.img_n /\ Word(p) = 6 + 2 * n
     /\ \A i \in 1..n : /\ \E c \in 1..jpg.img_n : jpg.comp[c].id = Byte(p + 1 + 2 * i)
                        /\ Byte(p + 2 + 2 * i) \div 16 <= 3 /\ Byte(p + 2 + 2 * i) % 16 <= 3
     /\ IF jpg.progressive
        THEN /\ Byte(q) <= Byte(q + 1) /\ Byte(q + 1) <= 63
             /\ aa \div 16 <= 13 /\ aa % 16 <= 13
        ELSE Byte(q) = 0 /\ aa = 0

\* The blocks of an MCU: one, or for each component its h by v blocks.
Mcu(f, order) ==
  LET Blocks(k) == LET n == order[k]
                   IN IF k > Len(order) THEN <<>>
                      ELSE [e \in 1..f.comp[n].h * f.comp[n].v |->
                              <<n, (e - 1) % f.comp[n].h, (e - 1) \div f.comp[n].h>>]
  IN IF Len(order) = 1 THEN <<<<order[1], 0, 0>>>>
     ELSE Blocks(1) \o Blocks(2) \o Blocks(3) \o Blocks(4)

scan_header ==
  /\ lpc = "image" /\ mark = 218
  /\ LET p == rd.pos
         n == Byte(p + 2)
         q == p + 3 + 2 * n
         order == [i \in 1..n |-> Chosen(p, i)]
         Tables(c) == LET is == {i \in 1..n : order[i] = c}
                      IN IF is = {} THEN jpg.comp[c]
                         ELSE [jpg.comp[c] EXCEPT !.hd = Byte(p + 2 + 2 * Max(is)) \div 16,
                                                  !.ha = Byte(p + 2 + 2 * Max(is)) % 16]
         one == jpg.comp[order[1]]
         across == IF n = 1 THEN scan_blocks(jpg.x, one.h, jpg.hmax) ELSE img_mcu(jpg.x, jpg.hmax)
         down == IF n = 1 THEN scan_blocks(jpg.y, one.v, jpg.vmax) ELSE img_mcu(jpg.y, jpg.vmax)
     IN IF ~ ScanOk(p) THEN jpeg_fail
        ELSE /\ jpg' = [jpg EXCEPT !.comp = [c \in DOMAIN @ |-> Tables(c)]]
             /\ scan' = ResetScan([NoScan EXCEPT !.mcu = Mcu(jpg, order), !.interleaved = n > 1, !.across = across,
                                     !.total = across * down, !.ss = Byte(q),
                                     !.se = IF jpg.progressive THEN Byte(q + 1) ELSE 63,
                                     !.ah = Byte(q + 2) \div 16, !.al = Byte(q + 2) % 16])
             /\ rd' = Reset([rd EXCEPT !.pos = q + 3])
             /\ lpc' = "scan"
             /\ UNCHANGED <<req_comp, image, heap, own, file, mark, blk, planes, coeffs, lines>>

\* DNL repeats the height.
line_count ==
  /\ lpc = "image" /\ mark = 220
  /\ IF Word(rd.pos) # 4 \/ Word(rd.pos + 2) # jpg.y THEN jpeg_fail
     ELSE /\ NextMarker(rd.pos + 4)
          /\ UNCHANGED <<lvars, file, jpg, scan, blk, planes, coeffs, lines>>

\* A segment that cannot be read ends the image, without an error.
image_segment ==
  /\ lpc = "image" /\ mark \notin {217, 218, 220}
  /\ LET s == process_marker(mark, rd.pos)
     IN IF ~ s.ok THEN lpc' = "output" /\ UNCHANGED <<jpg, rd, mark>>
        ELSE jpg' = s.jpg /\ NextMarker(s.pos) /\ UNCHANGED lpc
  /\ UNCHANGED <<req_comp, image, heap, own, file, scan, blk, planes, coeffs, lines>>

\* EOI: the coefficients of a progressive image are complete.
end_of_image ==
  /\ lpc = "image" /\ mark = 217
  /\ lpc' = IF jpg.progressive THEN "finish" ELSE "output"
  /\ UNCHANGED <<req_comp, image, heap, own, jvars>>

-----------------------------------------------------------------------------
(* Scans.  The block at hand is the b-th of MCU number at. *)

Comp == scan.mcu[scan.b][1]
Place ==
  LET e == scan.mcu[scan.b]
      i == scan.at % scan.across
      j == scan.at \div scan.across
  IN IF scan.interleaved THEN <<i * jpg.comp[Comp].h + e[2], j * jpg.comp[Comp].v + e[3]>>
     ELSE <<i, j>>

\* The decoding of the block goes on at pc with blk b, scan s and reader r.
Goes(pc, b, s, r) ==
  /\ lpc' = pc /\ blk' = b /\ scan' = s /\ rd' = r
  /\ UNCHANGED <<req_comp, image, heap, own, file, mark, jpg, planes, coeffs, lines>>

\* The DC term: a difference to the one before of the same component.
DcSum(pred, diff, factor) ==
  IF ~ addints_valid(pred, diff.v) THEN [ok |-> FALSE]
  ELSE IF ~ mul2shorts_valid(pred + diff.v, factor) THEN [ok |-> FALSE]
  ELSE [ok |-> TRUE, dc |-> pred + diff.v, r |-> diff.r]
DcAfter(t, factor) ==
  IF t.v \notin 0..15 THEN [ok |-> FALSE]
  ELSE DcSum(scan.dc_pred[Comp], IF t.v > 0 THEN extend_receive(t.r, t.v) ELSE [v |-> 0, r |-> t.r], factor)
DcTerm(r0, factor) == DcAfter(huff_decode(r0, jpg.huff_dc[jpg.comp[Comp].hd]), factor)

\* stbi__jpeg_decode_block, the DC part.
decode_block_dc ==
  /\ lpc = "scan" /\ scan.at < scan.total /\ ~ jpg.progressive
  /\ LET factor == jpg.dequant[jpg.comp[Comp].tq][0]
         t == DcTerm(Grown(rd, 16), factor)
     IN IF ~ t.ok THEN jpeg_fail
        ELSE Goes("ac", [NoBlk EXCEPT !.k = 1, !.data = [Zero EXCEPT ![0] = t.dc * factor]],
                  [scan EXCEPT !.dc_pred[Comp] = t.dc], t.r)

\* An AC symbol at place blk.k: ok, then whether the block ends, the run length
\* code of an end of block, or the zeros to skip and a value.  f is the shortcut
\* for the next bits of r, and d the symbol there.
AcFrom(r, f, d) ==
  LET s == d.v % 16
      x == extend_receive(d.r, s)
  IN CASE f.length > Len(r.bits) -> [ok |-> FALSE]
       [] f.length \in 1..Len(r.bits) ->
            [ok |-> TRUE, end |-> FALSE, run |-> f.run, size |-> 1, value |-> f.value, r |-> Drop(r, f.length)]
       [] f.length = 0 ->
            IF d.v < 0 THEN [ok |-> FALSE]
            ELSE IF s # 0 THEN [ok |-> TRUE, end |-> FALSE, run |-> d.v \div 16, size |-> s, value |-> x.v, r |-> x.r]
            ELSE [ok |-> TRUE, end |-> d.v # 240, run |-> d.v \div 16, size |-> 0, value |-> 0, r |-> d.r]
AcNext(r, h) == AcFrom(r, fast_ac(h, Top(r.bits, FAST_BITS)), huff_decode(r, h))
AcSymbol == AcNext(Grown(rd, 16), jpg.huff_ac[jpg.comp[Comp].ha])

\* blk after a symbol: a coefficient scaled by scale, or sixteen zeros.
AfterSymbol(a, scale) ==
  LET z == Zig(blk.k + a.run)
  IN IF a.size = 0 THEN [blk EXCEPT !.k = @ + 16]
     ELSE [blk EXCEPT !.k = @ + a.run + 1, !.data[z] = Short(a.value * scale[z])]

BaselineAc(a) ==
  LET b == AfterSymbol(a, jpg.dequant[jpg.comp[Comp].tq])
  IN IF ~ a.ok THEN jpeg_fail
     ELSE IF a.end THEN Goes("block", blk, scan, a.r)
     ELSE Goes(IF b.k < 64 THEN "ac" ELSE "block", b, scan, a.r)

decode_block_ac == lpc = "ac" /\ ~ jpg.progressive /\ BaselineAc(AcSymbol)

\* The coefficients that a progressive block has so far; before its first DC
\* scan they are uninitialised.
Coefficients(junk) == IF coeffs[Comp][Place] = <<>> THEN [n \in 0..63 |-> junk] ELSE coeffs[Comp][Place]

decode_block_prog_dc ==
  /\ lpc = "scan" /\ scan.at < scan.total /\ jpg.progressive
  /\ scan.ss = 0 \/ scan.interleaved
  /\ LET r == Grown(rd, 16)
         t == DcTerm(r, 2^scan.al)
         bit == jpeg_get_bits(r, 1)
     IN IF scan.se # 0 THEN jpeg_fail
        ELSE IF scan.ah > 0
        THEN \E junk \in Junk :
               LET old == Coefficients(junk)
               IN Goes("block", [NoBlk EXCEPT !.data = [old EXCEPT ![0] = Short(@ + bit.v * 2^scan.al)]],
                       scan, bit.r)
        ELSE IF ~ t.ok THEN jpeg_fail
        ELSE Goes("block", [NoBlk EXCEPT !.data = [Zero EXCEPT ![0] = t.dc * 2^scan.al]],
                  [scan EXCEPT !.dc_pred[Comp] = t.dc], t.r)

\* A block of an AC scan: one of a run of blocks without new coefficients, or
\* the first symbol is read.
decode_block_prog_ac ==
  /\ lpc = "scan" /\ scan.at < scan.total /\ jpg.progressive
  /\ ~ (scan.ss = 0 \/ scan.interleaved)
  /\ \E junk \in Junk :
       LET b == [NoBlk EXCEPT !.k = scan.ss, !.data = Coefficients(junk)]
           less == [scan EXCEPT !.eob_run = @ - 1]
       IN IF scan.eob_run = 0 THEN Goes(IF scan.ah = 0 THEN "ac" ELSE "refine", b, scan, rd)
          ELSE IF scan.ah = 0 THEN Goes("block", b, less, rd)
          ELSE Goes("advance", [b EXCEPT !.run = 64], less, rd)

ProgressiveAc(a) ==
  LET b == AfterSymbol(a, [z \in 0..63 |-> 2^scan.al])
      more == IF a.run > 0 THEN jpeg_get_bits(a.r, a.run) ELSE [v |-> 0, r |-> a.r]
  IN IF ~ a.ok THEN jpeg_fail
     ELSE IF a.end THEN Goes("block", blk, [scan EXCEPT !.eob_run = 2^a.run + more.v - 1], more.r)
     ELSE Goes(IF b.k <= scan.se THEN "ac" ELSE "block", b, scan, a.r)

prog_ac_first == lpc = "ac" /\ jpg.progressive /\ ProgressiveAc(AcSymbol)

\* A symbol of a refinement scan: a new coefficient after run zeros, sixteen
\* zeros, or the end of this and of some following blocks.
RefinementAc(d) ==
  LET s == d.v % 16
      run == d.v \div 16
      more == IF run > 0 THEN jpeg_get_bits(d.r, run) ELSE [v |-> 0, r |-> d.r]
      sign == jpeg_get_bits(d.r, 1)
      bit == 2^scan.al
  IN IF d.v < 0 \/ s > 1 THEN jpeg_fail
     ELSE IF s = 1 THEN Goes("advance", [blk EXCEPT !.run = run, !.s = IF sign.v = 1 THEN bit ELSE -bit],
                             scan, sign.r)
     ELSE IF run = 15 THEN Goes("advance", [blk EXCEPT !.run = 15, !.s = 0], scan, d.r)
     ELSE Goes("advance", [blk EXCEPT !.run = 64, !.s = 0],
               [scan EXCEPT !.eob_run = 2^run - 1 + more.v], more.r)

prog_ac_refine == lpc = "refine" /\ RefinementAc(huff_decode(rd, jpg.huff_ac[jpg.comp[Comp].ha]))

\* (mutant) A coefficient that is corrected also counts as one of the run.
prog_ac_advance_CountsAll ==
  /\ lpc = "advance"
  /\ LET z == Zig(blk.k)
         bit == 2^scan.al
         g == jpeg_get_bits(rd, 1)
         next == [blk EXCEPT !.k = @ + 1, !.run = IF @ > 0 THEN @ - 1 ELSE 0]
         last == blk.k = scan.se
     IN IF blk.data[z] # 0
        THEN Goes(IF last THEN "block" ELSE "advance",
                  [next EXCEPT !.data[z] = IF g.v = 0 THEN @ ELSE IF @ > 0 THEN @ + bit ELSE @ - bit], scan, g.r)
        ELSE IF blk.run = 0 THEN Goes(IF last THEN "block" ELSE "refine", [next EXCEPT !.data[z] = blk.s], scan, rd)
        ELSE Goes(IF last THEN "block" ELSE "advance", next, scan, rd)

\* One coefficient on the way: a correction bit for one that is not zero, and
\* the new coefficient at the zero after run of them.
prog_ac_advance ==
  /\ lpc = "advance"
  /\ LET z == Zig(blk.k)
         p == blk.data[z]
         bit == 2^scan.al
         g == jpeg_get_bits(rd, 1)
         add == g.v = 1 /\ (p \div bit) % 2 = 0
         next == [blk EXCEPT !.k = @ + 1]
         last == blk.k = scan.se
     IN IF p # 0
        THEN Goes(IF last THEN "block" ELSE "advance",
                  [next EXCEPT !.data[z] = IF ~ add THEN @ ELSE IF @ > 0 THEN Short(@ + bit) ELSE Short(@ - bit)],
                  scan, g.r)
        ELSE IF blk.run = 0
        THEN Goes(IF last THEN "block" ELSE "refine", [next EXCEPT !.data[z] = Short(blk.s)], scan, rd)
        ELSE Goes(IF last THEN "block" ELSE "advance", [next EXCEPT !.run = @ - 1], scan, rd)

\* The block is complete: it is transformed, or kept for more scans.  After the
\* last one of an MCU the restart interval counts down; at its end there is a
\* restart marker, or the scan is given up.
next_block ==
  /\ lpc = "block"
  /\ LET mcu == scan.b = Len(scan.mcu)
         on == IF mcu THEN [scan EXCEPT !.at = @ + 1, !.b = 1, !.todo = @ - 1] ELSE [scan EXCEPT !.b = @ + 1]
         r == Grown(rd, 24)
     IN /\ IF jpg.progressive
           THEN coeffs' = [coeffs EXCEPT ![Comp][Place] = blk.data] /\ UNCHANGED planes
           ELSE planes' = [planes EXCEPT ![Comp][Place] = idct_block(blk.data)] /\ UNCHANGED coeffs
        /\ IF on.todo > 0 THEN scan' = on /\ rd' = rd
           ELSE IF r.marker \in 208..215 THEN scan' = ResetScan(on) /\ rd' = Reset(r)
           ELSE scan' = [on EXCEPT !.total = on.at] /\ rd' = r
        /\ lpc' = "scan"
        /\ blk' = NoBlk
        /\ UNCHANGED <<req_comp, image, heap, own, file, mark, jpg, lines>>

\* Junk after the scan is skipped, and so is one restart marker.
scan_end ==
  /\ lpc = "scan" /\ scan.at = scan.total
  /\ LET g == get_marker(IF rd.marker = MARKER_none THEN skip_jpeg_junk_at_end(rd) ELSE rd)
         next == IF g.m \in 208..215 THEN get_marker(g.r) ELSE g
     IN rd' = next.r /\ mark' = next.m
  /\ lpc' = "image"
  /\ scan' = NoScan
  /\ UNCHANGED <<req_comp, image, heap, own, file, jpg, blk, planes, coeffs, lines>>

\* stbi__jpeg_finish: the blocks with samples of the image are dequantised and
\* transformed, here one component at a time.
jpeg_finish ==
  /\ lpc = "finish"
  /\ LET n == Len(lines) + 1
         c == jpg.comp[n]
         Seen(at) == /\ at[1] < scan_blocks(jpg.x, c.h, jpg.hmax)
                     /\ at[2] < scan_blocks(jpg.y, c.v, jpg.vmax)
     IN IF n > jpg.img_n THEN lpc' = "output" /\ lines' = <<>> /\ UNCHANGED planes
        ELSE /\ \E junk \in Junk :
                  planes' = [planes EXCEPT ![n] = [at \in DOMAIN @ |->
                    LET d == IF coeffs[n][at] = <<>> THEN [i \in 0..63 |-> junk] ELSE coeffs[n][at]
                    IN IF Seen(at) THEN idct_block([i \in 0..63 |-> Short(d[i] * jpg.dequant[c.tq][i])])
                       ELSE @[at]]]
             /\ lines' = Append(lines, <<>>)
             /\ UNCHANGED lpc
  /\ UNCHANGED <<req_comp, image, heap, own, file, rd, mark, jpg, scan, blk, coeffs>>

-----------------------------------------------------------------------------
(* From planes to pixels. *)

Hs(n) == expansion(jpg.comp[n].h, jpg.hmax)
Vs(n) == expansion(jpg.comp[n].v, jpg.vmax)
WLores(n) == w_lores(jpg.x, jpg.comp[n].h, jpg.hmax)

OutN == IF req_comp # 0 THEN req_comp ELSE IF jpg.img_n >= 3 THEN 3 ELSE 1
IsRgb == /\ jpg.img_n = 3
         /\ \/ [i \in 1..3 |-> jpg.comp[i].id] = <<82, 71, 66>>
            \/ jpg.app14 = 0 /\ ~ jpg.jfif
DecodeN == IF jpg.img_n = 3 /\ OutN < 3 /\ ~ IsRgb THEN 1 ELSE jpg.img_n

\* The line buffers and the result, or some of them and a failure.
start_output ==
  /\ lpc = "output"
  /\ LET linebufs == {"linebuf"} \X (1..DecodeN)
     IN \/ \E k \in 0..DecodeN :
             LET got == {"linebuf"} \X (1..k)
             IN jpeg_stop("outofmem", Alloc(heap, got), own \cup got)
        \/ /\ mad3sizes_valid(OutN, jpg.x, jpg.y, 1)
           /\ heap' = Alloc(heap, linebufs \cup {<<"output", 0>>})
           /\ own' = own \cup linebufs
           /\ lines' = [n \in 1..DecodeN |-> [ystep |-> Vs(n) \div 2, ypos |-> 0, line0 |-> 0, line1 |-> 0]]
           /\ lpc' = "line"
           /\ UNCHANGED <<req_comp, image, file, rd, mark, jpg, scan, blk, planes, coeffs>>

\* The samples of a row of a component; those no scan has given hold junk.
Samples(n, row, junk) ==
  [i \in 1..WLores(n) |->
     LET b == planes[n][<<(i - 1) \div 8, row \div 8>>]
     IN IF b = <<>> THEN junk ELSE b[(row % 8) + 1][((i - 1) % 8) + 1]]

\* (mutant) The rows are exchanged half-way down.
Resampled_Late(n, junk) ==
  LET l == lines[n]
      bottom == l.ystep > Vs(n) \div 2
      near == Samples(n, IF bottom THEN l.line1 ELSE l.line0, junk)
      far == Samples(n, IF bottom THEN l.line0 ELSE l.line1, junk)
  IN resample(near, far, WLores(n), Hs(n), Vs(n))

\* Two rows of the component for a line of the image, the nearer one first.
Resampled(n, junk) ==
  LET l == lines[n]
      bottom == l.ystep >= Vs(n) \div 2
      near == Samples(n, IF bottom THEN l.line1 ELSE l.line0, junk)
      far == Samples(n, IF bottom THEN l.line0 ELSE l.line1, junk)
  IN resample(near, far, WLores(n), Hs(n), Vs(n))

\* (mutant) The last row of the component is passed.
NextRow_Past(n) ==
  LET l == lines[n]
  IN IF l.ystep + 1 < Vs(n) THEN [l EXCEPT !.ystep = @ + 1]
     ELSE [ystep |-> 0, ypos |-> l.ypos + 1, line0 |-> l.line1, line1 |-> l.line1 + 1]

\* The next line of the image; there is no row after the component's last.
NextRow(n) ==
  LET l == lines[n]
  IN IF l.ystep + 1 < Vs(n) THEN [l EXCEPT !.ystep = @ + 1]
     ELSE [ystep |-> 0, ypos |-> l.ypos + 1, line0 |-> l.line1,
           line1 |-> IF l.ypos + 1 < comp_size(jpg.y, jpg.comp[n].v, jpg.vmax) THEN l.line1 + 1 ELSE l.line1]

\* The colour of one pixel from its samples.
Pixel(c) ==
  LET ink == <<blinn_8x8(c[1], c[4]), blinn_8x8(c[2], c[4]), blinn_8x8(c[3], c[4])>>
      ycc == YCbCr_to_RGB(c[1], c[2], c[3])
      rgb == CASE jpg.img_n = 1 -> <<c[1], c[1], c[1]>>
               [] jpg.img_n = 3 -> IF IsRgb THEN c ELSE ycc
               [] jpg.img_n = 4 ->
                    CASE jpg.app14 = 0 -> ink
                      [] jpg.app14 = 2 -> [k \in 1..3 |-> blinn_8x8(255 - ycc[k], c[4])]
                      [] OTHER -> ycc
      y == CASE jpg.img_n = 3 /\ IsRgb -> compute_y(c)
             [] jpg.img_n = 4 /\ jpg.app14 = 0 -> compute_y(ink)
             [] jpg.img_n = 4 /\ jpg.app14 = 2 -> blinn_8x8(255 - c[1], c[4])
             [] OTHER -> c[1]
  IN CASE OutN = 1 -> <<y>> [] OutN = 2 -> <<y, 255>> [] OutN = 3 -> rgb [] OutN = 4 -> Append(rgb, 255)

output_line ==
  /\ lpc = "line" /\ Len(image) < jpg.y
  /\ \E junk \in Junk :
       LET rows == [n \in 1..DecodeN |-> Resampled(n, junk)]
       IN image' = Append(image, [i \in 1..jpg.x |-> Pixel([n \in 1..DecodeN |-> rows[n][i]])])
  /\ lines' = [n \in 1..DecodeN |-> NextRow(n)]
  /\ UNCHANGED <<req_comp, heap, own, lpc, file, rd, mark, jpg, scan, blk, planes, coeffs>>

output_done ==
  /\ lpc = "line" /\ Len(image) = jpg.y
  /\ lpc' = "ok"
  /\ heap' = Free(heap, own \cup {<<"jpeg", 0>>})
  /\ own' = {}
  /\ UNCHANGED <<req_comp, image, jvars>>

jNext ==
  \/ jpeg_load \/ header_segment \/ padding \/ frame_header
  \/ scan_header \/ line_count \/ image_segment \/ end_of_image
  \/ decode_block_dc \/ decode_block_ac \/ decode_block_prog_dc \/ decode_block_prog_ac
  \/ prog_ac_first \/ prog_ac_refine \/ prog_ac_advance
  \/ next_block \/ scan_end \/ jpeg_finish \/ start_output \/ output_line \/ output_done
=============================================================================
