--------------------------- MODULE MCFacetImage ---------------------------
(* FacetImage on small files: PNG files put together by the definition of    *)
(* the format (every colour type, depth, filter and interlacing), images     *)
(* sent through the writers, BMP files of every header, depth and mask (OS/2  *)
(* palettes with four spare colours), and damaged files.                     *)
EXTENDS FacetImage, SequencesExt

\* A hash with collisions, so that chains hold offsets whose bytes differ.
SmallHash(a, b, c) == (a + 2 * b + c) % 3

\* Some sample values without a pattern.
Noise(x, y, c, m) == (x * 37 + y * 101 + c * 53 + x * y * 29 + 7) % m

-----------------------------------------------------------------------------
(* PNG files by definition. *)

Chunk_(type, body) == [type |-> type, length |-> Len(body), body |-> body]

IHDR_(w, h, depth, color, lace) ==
  [type |-> "IHDR", length |-> 13,
   body |-> [x |-> w, y |-> h, depth |-> depth, color |-> color, comp |-> 0, filter |-> 0,
             interlace |-> lace]]

\* Samples packed from the highest bit of a byte down, the last byte padded.
PackSamples(vals, depth) ==
  LET msb(v) == [k \in 1..depth |-> (v \div 2^(depth - k)) % 2]
      bs == FlattenSeq([i \in DOMAIN vals |-> msb(vals[i])])
      bit(i) == IF i <= Len(bs) THEN bs[i] ELSE 0
  IN [b \in 1..((Len(bs) + 7) \div 8) |->
        FoldLeft(LAMBDA acc, k : 2 * acc + bit(8 * (b - 1) + k), 0, <<1, 2, 3, 4, 5, 6, 7, 8>>)]

\* The pass of a pixel of an interlaced image, by its place in an 8 by 8 tile.
Adam7 == <<<<1, 6, 4, 6, 2, 6, 4, 6>>, <<7, 7, 7, 7, 7, 7, 7, 7>>,
           <<5, 6, 5, 6, 5, 6, 5, 6>>, <<7, 7, 7, 7, 7, 7, 7, 7>>,
           <<3, 6, 4, 6, 3, 6, 4, 6>>, <<7, 7, 7, 7, 7, 7, 7, 7>>,
           <<5, 6, 5, 6, 5, 6, 5, 6>>, <<7, 7, 7, 7, 7, 7, 7, 7>>>>

PassRows(rows, p) ==
  SelectSeq([j \in DOMAIN rows |->
     LET xs == SelectSeq([i \in DOMAIN rows[j] |-> i],
                         LAMBDA i : Adam7[((j - 1) % 8) + 1][((i - 1) % 8) + 1] = p)
     IN [k \in DOMAIN xs |-> rows[j][xs[k]]]], LAMBDA r : r # <<>>)

\* Lines filtered with the types first, first + 1, ... in turn.
Filtered(rows, depth, first) ==
  LET line(j) == PackSamples(FlattenSeq(rows[j]), depth)
      fb == IF depth < 8 THEN 1 ELSE (Len(rows[1][1]) * depth) \div 8
      type(j) == (first + j) % 5
  IN FlattenSeq([j \in DOMAIN rows |->
       <<type(j)>> \o encode_png_line(line(j), IF j > 1 THEN line(j - 1) ELSE <<>>, j - 1, fb,
                                      type(j))])

RawData(rows, depth, lace, first) ==
  IF lace = 0 THEN Filtered(rows, depth, first)
  ELSE FlattenSeq([p \in 1..7 |-> IF PassRows(rows, p) = <<>> THEN <<>>
                                  ELSE Filtered(PassRows(rows, p), depth, first + p)])

\* Two stored blocks, the second one final.
Stored(final, bytes) ==
  <<final, Len(bytes) % 256, Len(bytes) \div 256, 255 - (Len(bytes) % 256),
    255 - (Len(bytes) \div 256)>> \o bytes
StoredStream(bytes) ==
  LET half == Len(bytes) \div 2
  IN Stored(0, SubSeq(bytes, 1, half)) \o Stored(1, SubSeq(bytes, half + 1, Len(bytes)))
Zlib(stream) == <<120, 1>> \o stream

Palette == <<<<10, 20, 30>>, <<255, 0, 1>>, <<7, 7, 7>>>>

Samples(dim, color, depth) ==
  LET m == IF color = 3 THEN Min({2^depth, Len(Palette)}) ELSE 2^depth
  IN [y \in 1..dim[2] |-> [x \in 1..dim[1] |->
        [c \in 1..Components(color) |-> Noise(x, y, c, m)]]]

\* What a pixel of the file looks like in RGBA.
RGBA(px, color, depth, trns) ==
  LET eight(v) == IF depth = 16 THEN v \div 256 ELSE (v * 255) \div (2^depth - 1)
      v == [c \in DOMAIN px |-> eight(px[c])]
      opaque == IF trns # <<>> /\ px = trns THEN 0 ELSE 255
  IN CASE color = 0 -> <<v[1], v[1], v[1], opaque>>
       [] color = 2 -> <<v[1], v[2], v[3], opaque>>
       [] color = 3 -> Append(Palette[px[1] + 1], IF trns # <<>> /\ px[1] < Len(trns)
                                                  THEN trns[px[1] + 1] ELSE 255)
       [] color = 4 -> <<v[1], v[1], v[1], v[2]>>
       [] color = 6 -> <<v[1], v[2], v[3], v[4]>>

\* A file: trns is the colour, or the alphas, of tRNS, or nothing.
PngFile(dim, color, depth, lace, first, trns, idat) ==
  <<IHDR_(dim[1], dim[2], depth, color, lace)>>
    \o (IF color = 3 THEN <<Chunk_("PLTE", FlattenSeq(Palette))>> ELSE <<>>)
    \o (CASE trns = <<>> -> <<>>
          [] trns # <<>> /\ color = 3 -> <<Chunk_("tRNS", trns)>>
          [] OTHER -> <<Chunk_("tRNS", FlattenSeq([c \in DOMAIN trns |->
                                                     <<trns[c] \div 256, trns[c] % 256>>]))>>)
    \o <<Chunk_("ancillary", <<1>>), Chunk_("IDAT", SubSeq(idat, 1, 5)),
         Chunk_("IDAT", SubSeq(idat, 6, Len(idat))), Chunk_("IEND", <<>>)>>

\* In a truecolour file the second pixel is one off the first, which tRNS names.
PngJob(dim, color, depth, lace, first, hasTrns) ==
  LET all == Samples(dim, color, depth)
      rows == IF hasTrns /\ color = 2 /\ dim[1] > 1
              THEN <<<<all[1][1], <<all[1][1][1], all[1][1][2], (all[1][1][3] + 1) % 2^depth>>>>
                       \o SubSeq(all[1], 3, dim[1])>> \o Tail(all)
              ELSE all
      trns == CASE ~ hasTrns -> <<>> [] hasTrns /\ color = 3 -> <<40, 50>> [] OTHER -> rows[1][1]
      idat == Zlib(StoredStream(RawData(rows, depth, lace, first)))
  IN [via |-> "file", magic |-> "png", req |-> 4, good |-> TRUE,
      file |-> PngFile(dim, color, depth, lace, first, trns, idat),
      want |-> MapImage(rows, LAMBDA px : RGBA(px, color, depth, trns))]

\* Every colour type and depth that it may have.
Formats == <<<<0, 1>>, <<0, 2>>, <<0, 4>>, <<0, 8>>, <<0, 16>>, <<3, 1>>, <<3, 2>>, <<3, 4>>, <<3, 8>>,
             <<2, 8>>, <<2, 16>>, <<4, 8>>, <<4, 16>>, <<6, 8>>, <<6, 16>>>>

Each(seq, op(_)) == [i \in DOMAIN seq |-> op(seq[i])]

PngJobs(dim, lace, trns) ==
  Each(IF trns THEN SubSeq(Formats, 1, 11) ELSE Formats,
       LAMBDA f : PngJob(dim, f[1], f[2], lace, dim[1] + f[2], trns))

RefJobs == FlattenSeq(Each(<<<<1, 1>>, <<3, 2>>, <<5, 5>>, <<9, 6>>>>, LAMBDA dim :
             PngJobs(dim, 0, FALSE) \o PngJobs(dim, 1, FALSE) \o PngJobs(dim, 0, TRUE)))

-----------------------------------------------------------------------------
(* Compressed streams by definition. *)

\* Fifteen zero bytes in a block with codes of its own: the literal 0, the end
\* of the block, and the lengths 3, 4 and 5 at distance 1.  end is the size of
\* the codes of the end and of the lengths, 3.
DynamicBits(end) ==
  LET code == [c \in {1, 3, 16, 17, 18} |->
                 CASE c = 1 -> <<0, 0>> [] c = 3 -> <<0, 1>> [] c = 18 -> <<1, 0>>
                   [] c = 16 -> <<1, 1, 0>> [] c = 17 -> <<1, 1, 1>>]
      size == [c \in 0..18 |-> IF c \in {1, 3, 18} THEN 2 ELSE IF c \in {16, 17} THEN 3 ELSE 0]
      sizes == FlattenSeq([i \in 1..18 |->
                 BitsOf(size[<<16, 17, 18, 0, 8, 7, 9, 6, 10, 5, 11, 4, 12, 3, 13, 2, 14, 1>>[i]], 3)])
      lengths == code[1] \o code[18] \o BitsOf(127, 7) \o code[18] \o BitsOf(106, 7)
                   \o code[end] \o code[16] \o BitsOf(0, 2)      \* 256 to 259
                   \o code[1] \o code[17] \o BitsOf(0, 3)      \* the distances
  IN <<1, 0, 1>> \o BitsOf(3, 5) \o BitsOf(3, 5) \o BitsOf(14, 4) \o sizes \o lengths
       \o <<0>> \o <<1, 0, 1>> \o <<0>> \o <<1, 1, 0>> \o <<0>> \o <<1, 1, 1>> \o <<0>>
       \o <<0>> \o <<0>> \o <<1, 0, 0>>

\* The same bytes in the fixed codes, a long match reaching into itself.
FixedBits == <<1, 1, 0>> \o zlib_huff(0) \o zlib_huff(266) \o <<1>> \o <<0, 0, 0, 0, 0>> \o zlib_huff(256)

Zeros(w, h, px) == [y \in 1..h |-> [x \in 1..w |-> px]]

\* A grey image of zeros in a compressed stream.
GreyJob(w, h, stream, pre, good) ==
  [via |-> "file", magic |-> "png", req |-> 4, good |-> good,
   file |-> pre \o <<IHDR_(w, h, 8, 0, 0), Chunk_("IDAT", stream), Chunk_("IEND", <<>>)>>,
   want |-> Zeros(w, h, <<0, 0, 0, 255>>)]

StreamJobs ==
  <<GreyJob(4, 3, Zlib(Pack(DynamicBits(3))), <<>>, TRUE),
    GreyJob(2, 5, Zlib(Pack(FixedBits)), <<>>, TRUE),
    GreyJob(2, 5, Pack(FixedBits), <<Chunk_("CgBI", <<0>>)>>, TRUE)>>

-----------------------------------------------------------------------------
(* Damaged files. *)

Bad(file) == [via |-> "file", magic |-> "png", req |-> 4, good |-> FALSE, file |-> file, want |-> <<>>]

BadStream(stream) == GreyJob(2, 5, stream, <<>>, FALSE)

\* The whole stream cut after each of its bytes.
CutJobs(stream) == [n \in 1..Len(stream) - 1 |-> BadStream(SubSeq(stream, 1, n))]

Literals(n) == <<1, 1, 0>> \o FlattenSeq([i \in 1..n |-> zlib_huff(100)]) \o zlib_huff(256)

BadStreams == CutJobs(Zlib(Pack(FixedBits))) \o CutJobs(Zlib(Pack(Literals(5))))
  \o <<BadStream(<<120, 2>> \o Pack(FixedBits)),                  \* header checksum
       BadStream(Zlib(<<7, 0, 0>>)),                                \* block type 3
       BadStream(Zlib(<<1, 3, 0, 1, 1, 0, 0, 0>>)),                 \* stored length
       BadStream(Zlib(Pack(<<1, 1, 0>> \o zlib_huff(257) \o <<0, 0, 0, 0, 0>>))),  \* distance
       BadStream(Zlib(Pack(<<1, 1, 0>> \o zlib_huff(286)))),        \* length symbol
       BadStream(Zlib(Pack(<<1, 0, 1>> \o BitsOf(3, 5) \o BitsOf(3, 5) \o BitsOf(0, 4)
                             \o <<1, 0, 0, 1, 0, 0, 1, 0, 0, 1, 0, 0>>))),   \* code sizes
       BadStream(Zlib(Pack(<<1, 0, 1>> \o BitsOf(0, 5) \o BitsOf(0, 5) \o BitsOf(0, 4)
                             \o <<1, 0, 0, 1, 0, 0, 0, 0, 0, 0, 0, 0>> \o <<0>>))),  \* repeat of nothing
       BadStream(Zlib(Pack(DynamicBits(1)))),
       BadStream(Zlib(Pack(<<1, 1, 0>> \o zlib_huff(0) \o zlib_huff(257) \o <<1, 1, 1, 1, 0>>))),  \* distance
       GreyJob(1, 1, Zlib(Pack(FixedBits)), <<>>, FALSE),           \* more data than pixels
       GreyJob(1, 1, Zlib(Pack(Literals(5))), <<>>, FALSE)>>

Pixels23 == RawData(Samples(<<2, 3>>, 0, 8), 8, 0, 0)
Good23 == <<IHDR_(2, 3, 8, 0, 0), Chunk_("IDAT", Zlib(StoredStream(Pixels23))), Chunk_("IEND", <<>>)>>
Lace23(raw) == <<IHDR_(2, 3, 8, 0, 1), Chunk_("IDAT", Zlib(StoredStream(raw))), Chunk_("IEND", <<>>)>>
Index(v) == <<IHDR_(1, 1, 8, 3, 0), Chunk_("PLTE", <<1, 2, 3>>),
              Chunk_("IDAT", Zlib(Stored(1, <<0, v>>))), Chunk_("IEND", <<>>)>>

BadFiles ==
  [n \in 1..3 |-> Bad(SubSeq(Good23, 1, n - 1))]                    \* the file ends early
  \o [n \in 1..3 |-> Bad(SubSeq(Good23, n, 3))]                     \* chunks are missing
  \o Each(<<IHDR_(0, 1, 8, 0, 0), IHDR_(1, 1, 3, 0, 0), IHDR_(1, 1, 8, 5, 0), IHDR_(1, 1, 8, 0, 2)>>,
          LAMBDA h : Bad(<<h>>))
  \o Each(<<<<Good23[1], Good23[1]>>,
            <<Good23[1], [Good23[2] EXCEPT !.length = 99]>>,
            <<Good23[1], Good23[2], Chunk_("tRNS", <<0, 0>>)>>,
            <<Good23[1], Chunk_("tRNS", <<0>>)>>,
            <<Good23[1], Chunk_("PLTE", <<1, 2>>)>>,
            <<Chunk_("ancillary", <<>>)>>, <<Chunk_("critical", <<>>)>>,
            <<IHDR_(1, 1, 8, 3, 0), Chunk_("tRNS", <<0>>)>>,
            <<IHDR_(1, 1, 8, 3, 0), Chunk_("IDAT", <<0>>)>>,
            <<Good23[1], Chunk_("IDAT", <<>>), Chunk_("IEND", <<>>)>>>>, LAMBDA f : Bad(f))
  \o <<Bad([Good23 EXCEPT ![2] = Chunk_("IDAT", Zlib(Stored(1, SubSeq(Pixels23, 1, 8))))]),
       Bad([Good23 EXCEPT ![2] = Chunk_("IDAT", Zlib(Stored(1, [Pixels23 EXCEPT ![4] = 5])))]),
       Bad(Lace23(<<0, 1, 0, 2, 0, 3, 4, 5>>)),
       Bad(Lace23(<<0, 1, 0, 2, 9, 3, 4, 5, 0, 1, 2>>)), Bad(Index(1)),
       [Bad(<<>>) EXCEPT !.magic = "none"]>>

-----------------------------------------------------------------------------
(* Images sent through the writers. *)

WriteRows(w, h, n, m) == [y \in 1..h |-> [x \in 1..w |-> [c \in 1..n |-> Noise(x, y, c, m)]]]

WriteJob(via, rows, req, want) ==
  [via |-> via, rows |-> rows, req |-> req, good |-> TRUE, want |-> want]

ToRGBA(rows) == MapImage(rows, LAMBDA px :
  CASE Len(px) = 1 -> <<px[1], px[1], px[1], 255>> [] Len(px) = 2 -> <<px[1], px[1], px[1], px[2]>>
    [] Len(px) = 3 -> Append(px, 255) [] OTHER -> px)
NoAlpha(rows) == MapImage(rows, LAMBDA px : SubSeq(px, 1, Len(px) - 1))

\* Runs, repeats with an offset, and noise that does not compress.
Patterned(w, h, n) == [y \in 1..h |-> [x \in 1..w |-> [c \in 1..n |-> <<200, 3, 3, 90>>[((x * n + c) % 4) + 1]]]]

WriteJobs ==
  FlattenSeq([n \in 1..4 |->
    LET a == WriteRows(3, 2, n, 256)
        b == Patterned(5, 2, n)
    IN <<WriteJob("png", a, 4, ToRGBA(a)), WriteJob("png", b, 4, ToRGBA(b)),
         WriteJob("png", b, 0, b),
         WriteJob("bmp", a, 4, ToRGBA(IF n = 2 THEN NoAlpha(a) ELSE a))>>])
  \o <<WriteJob("bmp", WriteRows(3, 2, 1, 256), 1, WriteRows(3, 2, 1, 256))>>
  \o <<WriteJob("png", WriteRows(9, 6, 1, 251), 4, ToRGBA(WriteRows(9, 6, 1, 251)))>>

-----------------------------------------------------------------------------
(* BMP files by definition. *)

\* A row of bytes padded to a multiple of four.
Padded(bytes) == bytes \o [k \in 1..((-Len(bytes)) % 4) |-> 0]

\* The rows of a file: from the bottom up unless the height is negative.
BmpRows(lines, topdown) == FlattenSeq(Each(IF topdown THEN lines ELSE Reverse(lines), Padded))

\* A file with extra bytes between its header or palette and its pixels.
BmpFile(dim, hsz, bpp, compress, mask, pre, lines, topdown, extra) ==
  [hsz |-> hsz, x |-> dim[1], y |-> IF topdown THEN -dim[2] ELSE dim[2], planes |-> 1, bpp |-> bpp,
   compress |-> compress, mask |-> mask,
   offset |-> 14 + hsz + (IF hsz \in {40, 56} /\ compress = 3 THEN 12 ELSE 0) + Len(pre) + extra,
   body |-> pre \o [k \in 1..extra |-> 170] \o BmpRows(lines, topdown)]

BmpJob(file, want, good) ==
  [via |-> "file", magic |-> "bmp", req |-> 4, good |-> good, file |-> file, want |-> want]

NoMask == <<{}, {}, {}, {}>>

\* Palette files of n colours. The pixels of an OS/2 file use no colour of the
\* last four: bmp_load counts the palette four entries short (24 for a header of
\* 12 bytes), so it would look those colours up in entries it has not read.
PaletteJob(dim, hsz, bpp, n, topdown) ==
  LET used == Min({IF hsz = 12 THEN n - 4 ELSE n, 2^bpp})
      index == [y \in 1..dim[2] |-> [x \in 1..dim[1] |-> Noise(x, y, 1, used)]]
      colour(k) == <<Noise(k, 1, 1, 256), Noise(k, 1, 2, 256), Noise(k, 1, 3, 256)>>
      pre == FlattenSeq([k \in 1..n |-> Reverse(colour(k - 1)) \o IF hsz = 12 THEN <<>> ELSE <<0>>])
  IN BmpJob(BmpFile(dim, hsz, bpp, 0, NoMask, pre, Each(index, LAMBDA r : PackSamples(r, bpp)),
                    topdown, 0),
            MapImage(index, LAMBDA k : Append(colour(k), 255)), TRUE)

\* Direct files: the value v of a channel of n bits stands for its bits repeated.
Repeated(v, n) ==
  LET bit(k) == (v \div 2^(n - 1 - (k % n))) % 2
  IN FoldLeft(LAMBDA acc, k : 2 * acc + bit(k), 0, <<0, 1, 2, 3, 4, 5, 6, 7>>)

\* alpha is "none" (no mask), "zero" (a mask, and every pixel 0) or "some".
MaskJob(dim, hsz, bpp, compress, field, mask, alpha, topdown) ==
  LET low(k) == IF mask[k] = {} THEN 0 ELSE Min(mask[k])
      width(k) == Cardinality(mask[k])
      value(x, y, k) == IF k = 4 /\ alpha # "some" THEN 0 ELSE Noise(x, y, k, 2^width(k))
      byte(x, y, b) == FoldLeft(LAMBDA acc, i : acc +
          2^i * SumSet({(value(x, y, k) \div 2^(8 * b + i - low(k))) % 2 :
                          k \in {c \in 1..4 : 8 * b + i \in mask[c]}}), 0, <<0, 1, 2, 3, 4, 5, 6, 7>>)
      line(y) == FlattenSeq([x \in 1..dim[1] |-> [b \in 1..bpp \div 8 |-> byte(x, y, b - 1)]])
      want == [y \in 1..dim[2] |-> [x \in 1..dim[1] |-> [k \in 1..4 |->
                 IF k = 4 /\ alpha # "some" THEN 255 ELSE Repeated(value(x, y, k), width(k))]]]
  IN BmpJob(BmpFile(dim, hsz, bpp, compress, field, <<>>, [y \in 1..dim[2] |-> line(y)], topdown, 0),
            want, TRUE)

M555 == <<10..14, 5..9, 0..4, {}>>
M565 == <<11..15, 5..10, 0..4, {}>>
M4444 == <<8..11, 4..7, 0..3, 12..15>>
M8888 == <<16..23, 8..15, 0..7, 24..31>>
M24 == <<16..23, 8..15, 0..7, {}>>
MOdd == <<0..6, 8..15, 24..26, 30..31>>

PaletteJobs == FlattenSeq(Each(<<<<3, 2>>, <<9, 3>>>>, LAMBDA d :
  <<PaletteJob(d, 40, 1, 2, FALSE), PaletteJob(d, 40, 4, 5, TRUE), PaletteJob(d, 40, 8, 20, FALSE),
    PaletteJob(d, 12, 4, 9, FALSE), PaletteJob(d, 12, 8, 9, FALSE), PaletteJob(d, 108, 8, 3, TRUE)>>))

MaskJobs == FlattenSeq(Each(<<<<1, 1>>, <<3, 2>>>>, LAMBDA d :
  <<MaskJob(d, 40, 16, 0, NoMask, M555, "none", FALSE), MaskJob(d, 40, 16, 3, M565, M565, "none", TRUE),
    MaskJob(d, 56, 16, 3, M565, M565, "none", FALSE), MaskJob(d, 108, 16, 3, M4444, M4444, "some", FALSE),
    MaskJob(d, 12, 24, 0, NoMask, M24, "none", FALSE), MaskJob(d, 40, 24, 0, NoMask, M24, "none", TRUE),
    MaskJob(d, 40, 32, 0, NoMask, M8888, "zero", FALSE), MaskJob(d, 40, 32, 0, NoMask, M8888, "some", TRUE),
    MaskJob(d, 124, 32, 0, NoMask, M8888, "some", FALSE), MaskJob(d, 124, 32, 3, MOdd, MOdd, "some", TRUE)>>))

Plain == PaletteJob(<<3, 2>>, 40, 8, 4, FALSE).file

BadBmps == Each(<<[Plain EXCEPT !.hsz = 41], [Plain EXCEPT !.planes = 2], [Plain EXCEPT !.compress = 1],
                  [Plain EXCEPT !.bpp = 2], [Plain EXCEPT !.bpp = 16, !.compress = 3], [Plain EXCEPT !.offset = 54],
                  [Plain EXCEPT !.offset = 40], [Plain EXCEPT !.bpp = 24, !.offset = 53],
                  [Plain EXCEPT !.bpp = 24, !.offset = 1079],
                  [PaletteJob(<<3, 2>>, 12, 4, 5, FALSE).file EXCEPT !.offset = 38],   \* OS/2, four colours
                  [Plain EXCEPT !.body = SubSeq(@, 1, 17)],
                  [Plain EXCEPT !.body = [@ EXCEPT ![17] = 9]],
                  [Plain EXCEPT !.bpp = 32, !.hsz = 108, !.compress = 3, !.offset = 122, !.mask = <<0..8, {9}, {10}, {}>>]>>,
                LAMBDA f : BmpJob(f, <<>>, FALSE))

\* Files with extra bytes before the pixels.
GapJobs == [gap \in 1..3 |->
  BmpJob(BmpFile(<<2, 1>>, 40, 24, 0, NoMask, <<>>, <<<<1, 2, 3, 4, 5, 6>>>>, FALSE, 2 * gap - 2),
         <<<<<<3, 2, 1, 255>>, <<6, 5, 4, 255>>>>>>, TRUE)]

AllJobs == RefJobs \o StreamJobs \o BadStreams \o BadFiles \o WriteJobs
             \o PaletteJobs \o MaskJobs \o BadBmps
=============================================================================
