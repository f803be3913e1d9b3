----------------------------- MODULE StbProofs -----------------------------
(* What holds of the PNG and BMP codecs for every byte, every width of int   *)
(* and every image size: the PNG filters of writer and reader undo each      *)
(* other, the size checks of stb_image.h answer exactly, and the loaders     *)
(* free each buffer exactly once, whatever the file says and whichever       *)
(* allocation fails; and the inflater stays inside its buffers.              *)
EXTENDS FacetImage, TLAPS

-----------------------------------------------------------------------------
(* PNG filters (StbPngLine).                                                 *)

\* The branch-free stbi__paeth of the reader computes what the definition that
\* the writer's stbiw__paeth follows computes: its comment says that it "looks
\* very different" but is "actually equivalent".
THEOREM PaethEquivalent ==
  \A a, b, c \in Byte : paeth(a, b, c) = wpaeth(a, b, c)
<1> SUFFICES ASSUME NEW a \in Byte, NEW b \in Byte, NEW c \in Byte
             PROVE  paeth(a, b, c) = wpaeth(a, b, c)
  BY Zenon
<1> QED BY DEF paeth, wpaeth, Abs, Byte

\* The reader's predictor at the first pixel of a line is its general one with
\* nothing to the left.
LEMMA FirstPixel ==
  \A f \in 0..5, b \in Byte : predict_first(f, b) = predict(f, 0, b, 0)
<1> SUFFICES ASSUME NEW f \in 0..5, NEW b \in Byte
             PROVE  predict_first(f, b) = predict(f, 0, b, 0)
  BY Zenon
<1>1. f = 0 \/ f = 1 \/ f = 2 \/ f = 3 \/ f = 4 \/ f = 5
  OBVIOUS
<1>2. paeth(0, b, 0) = b
  BY DEF paeth, Byte
<1> QED BY <1>1, <1>2 DEF predict_first, predict, F_avg_first, Byte

\* Whatever filter the writer names and whatever row it is on, the reader adds
\* back the very byte the writer subtracted: on the first row (y = 0) each side
\* substitutes filters of its own, and on later rows both use the one named.
THEOREM PredictorsAgree ==
  ASSUME NEW t \in 0..4, NEW y \in Nat, NEW a \in Byte, NEW b \in Byte, NEW c \in Byte,
         y = 0 => b = 0 /\ c = 0
  PROVE  predict(row_filter(y, t), a, b, c) = wpredict(wmap(y, t), a, b, c)
<1>1. paeth(a, b, c) = wpaeth(a, b, c)
  BY PaethEquivalent, Zenon
<1>2. t = 0 \/ t = 1 \/ t = 2 \/ t = 3 \/ t = 4
  OBVIOUS
<1>3. a + b = b + a
  BY DEF Byte
<1>4. CASE y # 0
  BY <1>1, <1>2, <1>3, <1>4 DEF predict, wpredict, row_filter, wmap, F_avg_first
<1>5. CASE y = 0
  <2>1. wpaeth(a, 0, 0) = a
    BY DEF wpaeth, Abs, Byte
  <2>2. row_filter(0, t) = <<0, 1, 0, 5, 1>>[t + 1] /\ wmap(0, t) = <<0, 1, 0, 5, 6>>[t + 1]
    BY Zenon DEF row_filter, wmap, F_avg_first
  <2> QED BY <1>2, <1>5, <2>1, <2>2 DEF predict, wpredict, F_avg_first
<1> QED BY <1>4, <1>5

\* What the writer subtracts is a byte, and depends on the row above for the
\* filters only that look at it.
LEMMA PredictionUses ==
  ASSUME NEW ty \in 0..6, NEW a \in Byte, NEW b \in Byte, NEW c \in Byte
  PROVE  /\ wpredict(ty, a, b, c) \in Byte
         /\ wpredict(ty, a, IF ty \in 2..4 THEN b ELSE 0, IF ty = 4 THEN c ELSE 0) = wpredict(ty, a, b, c)
<1>1. ty = 0 \/ ty = 1 \/ ty = 2 \/ ty = 3 \/ ty = 4 \/ ty = 5 \/ ty = 6
  OBVIOUS
<1>2. wpaeth(a, b, c) \in Byte /\ wpaeth(a, 0, 0) \in Byte
  BY DEF wpaeth, Abs, Byte
<1>3. (a + b) \div 2 \in Byte /\ a \div 2 \in Byte /\ 0 \in Byte
  BY DEF Byte
<1>4. CASE ty \in {0, 1, 2, 3, 4}
  BY <1>2, <1>3, <1>4 DEF wpredict
<1>5. CASE ty \in {5, 6}
  BY <1>2, <1>3, <1>5 DEF wpredict
<1> QED BY <1>1, <1>4, <1>5

-----------------------------------------------------------------------------
(* Size checks (StbSizes).                                                   *)

\* A quotient of the largest integer bounds the factor exactly.
LEMMA QuotientBound ==
  ASSUME NEW n \in Nat, NEW a \in Nat, NEW b \in Nat, b > 0
  PROVE  a <= n \div b <=> a * b <= n
<1> DEFINE q == n \div b
           r == n % b
<1>1. q \in Nat /\ r \in 0..b - 1 /\ n = q * b + r
  OBVIOUS
<1>2. ASSUME a <= q PROVE a * b <= n
  <2>1. a * b <= q * b
    BY <1>1, <1>2
  <2> QED BY <1>1, <2>1
<1>3. ASSUME ~ (a <= q) PROVE ~ (a * b <= n)
  <2>1. a >= q + 1
    BY <1>1, <1>3
  <2>2. a * b >= (q + 1) * b
    BY <1>1, <2>1
  <2>3. (q + 1) * b = q * b + b
    BY <1>1
  <2>4. q * b \in Nat /\ a * b \in Nat
    BY <1>1
  <2> QED BY <1>1, <2>2, <2>3, <2>4
<1> QED BY <1>2, <1>3

\* stbi__mul2sizes_valid answers exactly whether the product of two C ints is
\* an int that is not negative and its factors are not.
THEOREM Mul2Exact ==
  ASSUME NEW a \in Int32, NEW b \in Int32
  PROVE  mul2sizes_valid(a, b) <=> a >= 0 /\ b >= 0 /\ a * b <= INT_MAX
<1>1. CASE a >= 0 /\ b > 0
  <2>1. a \in Nat /\ b \in Nat /\ INT_MAX \in Nat
    BY <1>1, WidthAssumption DEF Int32, INT_MIN
  <2>2. a <= INT_MAX \div b <=> a * b <= INT_MAX
    BY <1>1, <2>1, QuotientBound
  <2> QED BY <1>1, <2>1, <2>2, WidthAssumption DEF mul2sizes_valid
<1>2. CASE a >= 0 /\ b = 0
  <2>1. a * b = 0
    BY <1>2, WidthAssumption DEF Int32, INT_MIN
  <2> QED BY <1>2, <2>1, WidthAssumption DEF mul2sizes_valid
<1>3. CASE a < 0 \/ b < 0
  BY <1>3, WidthAssumption DEF mul2sizes_valid, Int32, INT_MIN
<1> QED BY <1>1, <1>2, <1>3, WidthAssumption DEF Int32, INT_MIN

\* A size that stbi__mad3sizes_valid accepts is what stbi__malloc_mad3 then
\* computes: no intermediate product nor the sum leaves the range of an int.
THEOREM Mad3NoOverflow ==
  ASSUME NEW a \in Int32, NEW b \in Int32, NEW c \in Int32, NEW add \in 0..INT_MAX,
         mad3sizes_valid(a, b, c, add)
  PROVE  /\ a * b \in 0..INT_MAX
         /\ a * b * c \in 0..INT_MAX
         /\ a * b * c + add \in 0..INT_MAX
<1>1. a >= 0 /\ b >= 0 /\ a * b <= INT_MAX
  BY Mul2Exact, WidthAssumption DEF mad3sizes_valid
<1>2. a \in Nat /\ b \in Nat
  BY <1>1, WidthAssumption DEF Int32, INT_MIN
<1>3. a * b \in Nat
  BY <1>2
<1>4. a * b \in Int32
  BY <1>1, <1>3, WidthAssumption DEF Int32, INT_MIN
<1>5. c >= 0 /\ (a * b) * c <= INT_MAX
  BY <1>4, Mul2Exact, WidthAssumption DEF mad3sizes_valid
<1>6. c \in Nat /\ (a * b) * c \in Nat
  BY <1>3, <1>5, WidthAssumption DEF Int32, INT_MIN
<1>7. (a * b) * c <= INT_MAX - add
  BY WidthAssumption, Zenon DEF mad3sizes_valid, addsizes_valid
<1> QED BY <1>1, <1>3, <1>5, <1>6, <1>7, WidthAssumption

\* stbi__addints_valid answers exactly whether the sum of two C ints is one.
THEOREM AddExact ==
  ASSUME NEW a \in Int32, NEW b \in Int32
  PROVE  addints_valid(a, b) <=> a + b \in Int32
BY WidthAssumption DEF addints_valid, Int32, INT_MIN

\* stbi__mul2shorts_valid answers exactly whether the product of a coefficient
\* and an entry of a quantisation table fits a short, as its comment says.
THEOREM Mul2ShortsExact ==
  ASSUME NEW a \in Int32, NEW b \in Nat
  PROVE  mul2shorts_valid(a, b) <=> a * b \in SHRT_MIN..SHRT_MAX
<1>1. CASE b = 0
  BY <1>1, WidthAssumption DEF mul2shorts_valid, Int32, INT_MIN, SHRT_MIN
<1>2. CASE b > 0 /\ a >= 0
  <2>1. a \in Nat /\ b \in Nat /\ SHRT_MAX \in Nat
    BY <1>2, WidthAssumption DEF Int32, INT_MIN
  <2>2. a <= SHRT_MAX \div b <=> a * b <= SHRT_MAX
    BY <1>2, <2>1, QuotientBound
  <2>3. a * b \in Nat
    BY <2>1
  <2> QED BY <1>2, <2>1, <2>2, <2>3, WidthAssumption DEF mul2shorts_valid, Quot, SHRT_MIN
<1>3. CASE b > 0 /\ a < 0
  <2> DEFINE m == -a
  <2>1. m \in Nat /\ b \in Nat /\ SHRT_MAX + 1 \in Nat /\ a = -m
    BY <1>3, WidthAssumption DEF Int32, INT_MIN
  <2>2. m <= (SHRT_MAX + 1) \div b <=> m * b <= SHRT_MAX + 1
    BY <1>3, <2>1, QuotientBound
  <2>3. a * b = -(m * b) /\ m * b \in Nat
    BY <2>1
  <2>4. Quot(SHRT_MIN, b) = -((SHRT_MAX + 1) \div b) /\ (SHRT_MAX + 1) \div b \in Nat
    BY <1>3, <2>1, WidthAssumption DEF Quot, SHRT_MIN
  <2>5. a >= Quot(SHRT_MIN, b) <=> m <= (SHRT_MAX + 1) \div b
    BY <2>1, <2>4
  <2>6. a * b \in SHRT_MIN..SHRT_MAX <=> m * b <= SHRT_MAX + 1
    BY <2>3, WidthAssumption DEF SHRT_MIN
  <2>7. b \notin {0, -1} /\ ~ (b < -1) /\ b > 0 /\ b >= 0 /\ ~ (a >= 0) /\ a < 0
    BY <1>3, <2>1
  <2>8. mul2shorts_valid(a, b) <=> a >= Quot(SHRT_MIN, b)
    BY <2>7, Zenon DEF mul2shorts_valid
  <2> QED BY <2>2, <2>5, <2>6, <2>8
<1> QED BY <1>1, <1>2, <1>3, WidthAssumption DEF Int32, INT_MIN

-----------------------------------------------------------------------------
(* The buffers of the PNG and BMP loaders (FacetImage).                      *)

PngFields == {"first", "x", "y", "n", "depth", "color", "interlace", "palette", "pal_len",
              "pal_img_n", "has_trans", "tc", "idata", "limit", "is_iphone", "out_n"}
RasFields == {"p", "x", "y", "j", "raw", "prior", "rows"}

\* Just the buffers of S are allocated, each once.
Holds(h, S) == h = [b \in Buffers |-> IF b \in S THEN 1 ELSE 0]

\* The pixels of the pass that is done, when they are the image.
Unlaced == IF png.interlace = 0 /\ ras.p = 1 THEN {"raw"} ELSE {}

\* What is allocated at each step of the loaders.  After IHDR no side of the
\* image is zero: the only pass of an image that is not interlaced has rows.
HeapInv ==
  /\ DOMAIN png = PngFields /\ DOMAIN ras = RasFields
  /\ png.interlace \in {0, 1}
  /\ ~ png.first => png.x > 0 /\ png.y > 0
  /\ lpc \in {"idle", "chunk", "inflate", "pass", "row", "bmp_row", "ok", "fail", "outofmem"}
  /\ lpc = "idle" => own = {} /\ Holds(heap, {})
  /\ lpc = "chunk" => own \subseteq {"idata"} /\ Holds(heap, own)
  /\ lpc = "inflate" => ~ png.first /\ own = {"idata"} /\ Holds(heap, {"idata", "expanded"})
  /\ lpc = "pass" => /\ ~ png.first /\ ras.p \in 0..Passes
                     /\ Holds(heap, {"expanded"} \cup Final \cup Unlaced)
  /\ lpc = "row" => /\ ~ png.first /\ ras.p \in 1..Passes /\ own = {"expanded", "raw"}
                    /\ Holds(heap, {"expanded", "raw", "filter_buf"} \cup Final)
  /\ lpc = "bmp_row" => Holds(heap, {"raw"})
  /\ lpc = "fail" => Holds(heap, {})
  /\ lpc = "ok" => Holds(heap, {}) \/ \E b \in Buffers : Holds(heap, {b})
  /\ lpc = "outofmem" => Holds(heap, {}) \/ (png.depth = 16 /\ \E b \in Buffers : Holds(heap, {b}))

\* Alloc of buffers that are not allocated.
LEMMA HoldsMore ==
  ASSUME NEW h, NEW S, NEW T, Holds(h, S), S \cap T = {}
  PROVE  Holds(Alloc(h, T), S \cup T)
BY DEF Holds, Alloc

\* Free of buffers that are.
LEMMA HoldsLess ==
  ASSUME NEW h, NEW S, NEW T, Holds(h, S), T \subseteq S
  PROVE  Holds(Free(h, T), S \ T)
BY DEF Holds, Free

\* png_stop with what is allocated leaves nothing behind.
LEMMA StopKeeps ==
  ASSUME HeapInv, NEW held, Holds(heap, held), NEW reason \in {"fail", "outofmem"},
         png_stop(reason, held)
  PROVE  HeapInv'
<1>1. Holds(heap', {})
  <2>1. held \ held = {}
    BY Zenon
  <2> QED BY <2>1, HoldsLess DEF png_stop
<1> QED BY <1>1, Zenon DEF HeapInv, png_stop

\* A chunk that allocates nothing and keeps what IHDR said.
LEMMA ChunkKeeps ==
  ASSUME HeapInv, lpc = "chunk", NEW p, NextChunkOnly(p), DOMAIN p = PngFields,
         p.interlace \in {0, 1}, ~ p.first => p.x > 0 /\ p.y > 0
  PROVE  HeapInv'
BY Zenon DEF HeapInv, NextChunkOnly, NextChunk

\* The CgBI chunk only notes that the file is Apple's.
LEMMA CgBIKeeps == HeapInv /\ CgBI => HeapInv'
<1> SUFFICES ASSUME HeapInv, CgBI PROVE HeapInv'
  BY Zenon
<1> DEFINE p == [png EXCEPT !.is_iphone = TRUE]
<1>1. lpc = "chunk" /\ NextChunkOnly(p)
  BY Zenon DEF CgBI, Reading
<1>2. DOMAIN p = PngFields /\ p.interlace = png.interlace /\ p.first = png.first /\ p.x = png.x /\ p.y = png.y
  BY Zenon DEF HeapInv, PngFields
<1> HIDE DEF p
<1> QED BY <1>1, <1>2, ChunkKeeps, Zenon DEF HeapInv

\* An error while the chunks are read frees idata if there is one.
LEMMA ChunkFails ==
  ASSUME HeapInv, lpc = "chunk", png_fail \/ png_nomem
  PROVE  HeapInv'
<1>1. Holds(heap, own)
  BY Zenon DEF HeapInv
<1> QED BY <1>1, StopKeeps DEF png_fail, png_nomem

\* The header chunk allocates nothing; a bad one frees what there is.
LEMMA IHDRKeeps == HeapInv /\ IHDR => HeapInv'
<1> SUFFICES ASSUME HeapInv, IHDR, ~ png_fail PROVE HeapInv'
  BY ChunkFails, Zenon DEF IHDR, Reading
<1> DEFINE h == Chunk.body
           p == [png EXCEPT !.first = FALSE, !.x = h.x, !.y = h.y,
                   !.n = Components(h.color), !.depth = h.depth, !.color = h.color,
                   !.interlace = h.interlace, !.pal_img_n = IF h.color = 3 THEN 3 ELSE 0]
<1>1. lpc = "chunk" /\ HeaderOk(h) /\ NextChunkOnly(p)
  BY Zenon DEF IHDR, Reading
<1>2. h.x > 0 /\ h.y > 0 /\ h.interlace \in {0, 1}
  BY <1>1 DEF HeaderOk
<1>3. DOMAIN p = PngFields /\ p.interlace = h.interlace /\ p.x = h.x /\ p.y = h.y
  BY Zenon DEF HeapInv, PngFields
<1> HIDE DEF p, h
<1> QED BY <1>1, <1>2, <1>3, ChunkKeeps

\* The palette goes into the array of stbi__parse_png_file.
LEMMA PLTEKeeps == HeapInv /\ PLTE => HeapInv'
<1> SUFFICES ASSUME HeapInv, PLTE, ~ png_fail PROVE HeapInv'
  BY ChunkFails DEF PLTE, Reading
<1> DEFINE n == Chunk.length \div 3
           entries == [i \in 1..n |-> <<At(3 * i - 2), At(3 * i - 1), At(3 * i), 255>>]
                        \o SubSeq(png.palette, n + 1, Len(png.palette))
           p == [png EXCEPT !.pal_len = n, !.palette = entries]
<1>1. lpc = "chunk" /\ NextChunkOnly(p)
  BY Zenon DEF PLTE, Reading
<1> HIDE DEF entries, n
<1>2. /\ DOMAIN p = PngFields /\ p.interlace = png.interlace /\ p.first = png.first
      /\ p.x = png.x /\ p.y = png.y
  BY Zenon DEF HeapInv, PngFields
<1> HIDE DEF p
<1> QED BY <1>1, <1>2, ChunkKeeps, Zenon DEF HeapInv

\* So do the transparent colours, for a palette or for one key colour.
LEMMA tRNSKeeps == HeapInv /\ tRNS => HeapInv'
<1> SUFFICES ASSUME HeapInv, tRNS, ~ png_fail PROVE HeapInv'
  BY ChunkFails DEF tRNS, Reading
<1>1. /\ lpc = "chunk"
      /\ \E pal, tc : \/ NextChunkOnly([png EXCEPT !.pal_img_n = 4, !.palette = pal])
                      \/ NextChunkOnly([png EXCEPT !.has_trans = TRUE, !.tc = tc])
  BY Zenon DEF tRNS, Reading
<1>2. PICK pal, tc : \/ NextChunkOnly([png EXCEPT !.pal_img_n = 4, !.palette = pal])
                     \/ NextChunkOnly([png EXCEPT !.has_trans = TRUE, !.tc = tc])
  BY <1>1, Zenon
<1> DEFINE p == [png EXCEPT !.pal_img_n = 4, !.palette = pal]
           q == [png EXCEPT !.has_trans = TRUE, !.tc = tc]
<1>3. /\ DOMAIN p = PngFields /\ p.interlace = png.interlace /\ p.first = png.first
      /\ p.x = png.x /\ p.y = png.y
  BY Zenon DEF HeapInv, PngFields
<1>4. /\ DOMAIN q = PngFields /\ q.interlace = png.interlace /\ q.first = png.first
      /\ q.x = png.x /\ q.y = png.y
  BY Zenon DEF HeapInv, PngFields
<1>5. NextChunkOnly(p) \/ NextChunkOnly(q)
  BY <1>2
<1> HIDE DEF p, q
<1> QED BY <1>1, <1>3, <1>4, <1>5, ChunkKeeps, Zenon DEF HeapInv

\* A chunk of another type is skipped, or the file is refused.
LEMMA OthersKeep == HeapInv /\ (skip_chunk \/ bad_chunk) => HeapInv'
<1> SUFFICES ASSUME HeapInv, skip_chunk \/ bad_chunk, ~ png_fail PROVE HeapInv'
  BY ChunkFails, Zenon DEF skip_chunk, bad_chunk, Reading
<1>1. lpc = "chunk" /\ NextChunkOnly(png)
  BY Zenon DEF skip_chunk, bad_chunk, Reading
<1> QED BY <1>1, ChunkKeeps, Zenon DEF HeapInv

\* IDAT allocates its buffer at its first chunk and grows it in place later.
LEMMA IDATKeeps == HeapInv /\ IDAT => HeapInv'
<1> SUFFICES ASSUME HeapInv, IDAT, ~ png_fail, ~ png_nomem PROVE HeapInv'
  BY ChunkFails, Zenon DEF IDAT, Reading
<1>1. /\ lpc = "chunk"
      /\ \E bytes, limit, new : /\ heap' = Alloc(heap, new) /\ own' = own \cup new
                                /\ new = {} \/ new = {"idata"} \ own
                                /\ NextChunk([png EXCEPT !.idata = bytes, !.limit = limit])
  BY Zenon DEF IDAT, Reading
<1>2. PICK bytes, limit, new : /\ heap' = Alloc(heap, new) /\ own' = own \cup new
                               /\ new = {} \/ new = {"idata"} \ own
                               /\ NextChunk([png EXCEPT !.idata = bytes, !.limit = limit])
  BY <1>1, Zenon
<1> DEFINE p == [png EXCEPT !.idata = bytes, !.limit = limit]
<1>3. /\ DOMAIN p = PngFields /\ p.interlace = png.interlace /\ p.first = png.first
      /\ p.x = png.x /\ p.y = png.y
  BY Zenon DEF HeapInv, PngFields
<1>4. Holds(heap', own') /\ own' \subseteq {"idata"}
  BY <1>1, <1>2, HoldsMore DEF HeapInv
<1>5. png' = p /\ lpc' = "chunk" /\ UNCHANGED ras
  BY <1>1, <1>2 DEF NextChunk
<1> HIDE DEF p
<1> QED BY <1>1, <1>3, <1>4, <1>5 DEF HeapInv

\* The end of the chunks allocates what the inflater writes to.
LEMMA IENDKeeps == HeapInv /\ IEND => HeapInv'
<1> SUFFICES ASSUME HeapInv, IEND, ~ png_fail, ~ png_nomem PROVE HeapInv'
  BY ChunkFails, Zenon DEF IEND, Reading
<1>1. /\ lpc = "chunk" /\ ~ png.first /\ "idata" \in own /\ heap' = Alloc(heap, {"expanded"})
      /\ lpc' = "inflate" /\ UNCHANGED <<png, ras, own>>
  BY Zenon DEF IEND, Reading
<1>2. own = {"idata"} /\ Holds(heap, {"idata"})
  BY <1>1, Zenon DEF HeapInv
<1>3. {"idata"} \cup {"expanded"} = {"idata", "expanded"}
  BY Zenon
<1>4. Holds(heap', {"idata", "expanded"})
  BY <1>1, <1>2, <1>3, HoldsMore
<1> QED BY <1>1, <1>2, <1>4 DEF HeapInv

\* The zlib decoder's own buffer goes with idata when it fails; otherwise idata
\* goes and, for an interlaced image, the buffer of the whole image comes.
LEMMA InflateKeeps == HeapInv /\ (inflate \/ inflate_failed \/ inflated) => HeapInv'
<1> SUFFICES ASSUME HeapInv, lpc = "inflate", inflate \/ inflate_failed \/ inflated PROVE HeapInv'
  BY Zenon DEF inflate, inflate_failed, inflated
<1>1. ~ png.first /\ own = {"idata"} /\ Holds(heap, {"idata", "expanded"})
  BY Zenon DEF HeapInv
<1>2. CASE inflate
  BY <1>2, Zenon DEF HeapInv, inflate, lvars, pvars, Passes, Final, Unlaced
<1>3. CASE inflate_failed
  <2>1. own \cup {"expanded"} = {"idata", "expanded"} /\ zpc \in {"fail", "outofmem"}
    BY <1>1, <1>3 DEF inflate_failed
  <2>2. png_stop(zpc, {"idata", "expanded"})
    BY <1>3, <2>1 DEF inflate_failed
  <2> QED BY <1>1, <2>1, <2>2, StopKeeps
<1>4. CASE inflated /\ png_stop("outofmem", {"idata", "expanded"})
  BY <1>1, <1>4, StopKeeps
<1>5. CASE inflated /\ ~ png_stop("outofmem", {"idata", "expanded"})
  <2>1. /\ heap' = Alloc(Free(heap, {"idata"}), Final) /\ lpc' = "pass"
        /\ ras' = [NoRas EXCEPT !.raw = zout]
        /\ \E n : png' = [png EXCEPT !.out_n = n, !.idata = <<>>, !.limit = 0]
    BY <1>5, Zenon DEF inflated, Final
  <2>2. PICK n : png' = [png EXCEPT !.out_n = n, !.idata = <<>>, !.limit = 0]
    BY <2>1, Zenon
  <2>3. /\ DOMAIN png' = PngFields /\ png'.interlace = png.interlace /\ png'.first = png.first
        /\ png'.x = png.x /\ png'.y = png.y
    BY <2>2 DEF HeapInv, PngFields
  <2>4. DOMAIN ras' = RasFields /\ ras'.p = 0
    BY <2>1, Zenon DEF NoRas, RasFields
  <2>5. Final' = Final /\ Unlaced' = {} /\ Passes' \in {1, 7}
    BY <2>3, <2>4 DEF Final, Unlaced, Passes
  <2>6. Holds(Free(heap, {"idata"}), {"expanded"})
    <3>1. {"idata", "expanded"} \ {"idata"} = {"expanded"}
      BY Zenon
    <3> QED BY <1>1, <3>1, HoldsLess
  <2>7. Holds(heap', {"expanded"} \cup Final)
    BY <2>1, <2>6, HoldsMore DEF Final
  <2>8. Holds(heap', {"expanded"} \cup Final' \cup Unlaced')
    BY <2>5, <2>7
  <2> QED BY <1>1, <2>1, <2>3, <2>4, <2>5, <2>8 DEF HeapInv
<1> QED BY <1>2, <1>3, <1>4, <1>5

\* Before a pass, the pixels of the passes before it are in final.
LEMMA PassKeeps == HeapInv /\ start_pass => HeapInv'
<1> SUFFICES ASSUME HeapInv, start_pass PROVE HeapInv'
  BY Zenon
<1> DEFINE x == PassX(ras.p + 1)
           y == PassY(ras.p + 1)
<1>1. /\ lpc = "pass" /\ ras.p < Passes /\ ~ png.first /\ ras.p \in 0..Passes
      /\ png.interlace \in {0, 1} /\ png.x > 0 /\ png.y > 0
  BY Zenon DEF HeapInv, start_pass
<1>2. Unlaced = {}
  BY <1>1 DEF Unlaced, Passes
<1>3. Holds(heap, PassHeld)
  <2>1. {"expanded"} \cup Final \cup {} = PassHeld
    BY Zenon DEF PassHeld
  <2> QED BY <1>1, <1>2, <2>1 DEF HeapInv
<1>4. ras.p + 1 \in 1..Passes /\ Passes \in Nat
  BY <1>1 DEF Passes
<1>5. CASE \E reason \in {"fail", "outofmem"} : png_stop(reason, PassHeld)
  BY <1>3, <1>5, StopKeeps
<1>6. CASE /\ x = 0 \/ y = 0
           /\ ras' = [ras EXCEPT !.p = ras.p + 1] /\ UNCHANGED <<png, image, heap, own, lpc>>
  <2>1. png.interlace = 1
    BY <1>1, <1>6 DEF PassX, PassY
  <2>2. DOMAIN ras' = RasFields /\ ras'.p = ras.p + 1
    BY <1>6, Zenon DEF HeapInv, RasFields
  <2>3. Unlaced' = {} /\ Final' = Final /\ Passes' = Passes
    BY <1>6, <2>1 DEF Unlaced, Final, Passes
  <2>4. Holds(heap', {"expanded"} \cup Final' \cup Unlaced')
    BY <1>1, <1>2, <1>6, <2>3 DEF HeapInv
  <2> QED BY <1>1, <1>4, <1>6, <2>2, <2>3, <2>4 DEF HeapInv
<1>7. CASE /\ ras' = [ras EXCEPT !.p = ras.p + 1, !.x = x, !.y = y, !.j = 0, !.prior = <<>>, !.rows = <<>>]
           /\ heap' = Alloc(heap, {"raw", "filter_buf"}) /\ own' = {"expanded", "raw"}
           /\ lpc' = "row" /\ UNCHANGED png
  <2> HIDE DEF x, y
  <2>1. DOMAIN ras' = RasFields /\ ras'.p = ras.p + 1
    BY <1>7, Zenon DEF HeapInv, RasFields
  <2>2. Final' = Final /\ Passes' = Passes
    BY <1>7, Zenon DEF Final, Passes
  <2>3. PassHeld \cup {"raw", "filter_buf"} = {"expanded", "raw", "filter_buf"} \cup Final
    BY Zenon DEF PassHeld
  <2>4. PassHeld \cap {"raw", "filter_buf"} = {}
    BY Zenon DEF PassHeld, Final
  <2>5. Holds(heap', {"expanded", "raw", "filter_buf"} \cup Final')
    BY <1>3, <1>7, <2>2, <2>3, <2>4, HoldsMore
  <2> QED BY <1>1, <1>4, <1>7, <2>1, <2>2, <2>5 DEF HeapInv
<1> QED BY <1>5, <1>6, <1>7 DEF start_pass

\* One row of stbi__create_png_image_raw.
LEMMA RowKeeps == HeapInv /\ row => HeapInv'
<1> SUFFICES ASSUME HeapInv, row PROVE HeapInv'
  BY Zenon
<1>1. lpc = "row" /\ own = {"expanded", "raw"} /\ Holds(heap, {"expanded", "raw", "filter_buf"} \cup Final)
  BY Zenon DEF HeapInv, row
<1>2. CASE png_stop("fail", own \cup {"filter_buf"} \cup Final)
  <2>1. own \cup {"filter_buf"} \cup Final = {"expanded", "raw", "filter_buf"} \cup Final
    BY <1>1, Zenon
  <2> QED BY <1>1, <1>2, <2>1, StopKeeps
<1>3. CASE ~ png_stop("fail", own \cup {"filter_buf"} \cup Final)
  <2> DEFINE w == WidthBytes(ras.x)
             fb == IF png.depth < 8 THEN 1 ELSE png.n * (IF png.depth = 16 THEN 2 ELSE 1)
             cur == unfilter_line(SubSeq(ras.raw, 2, w + 1), ras.prior, ras.j, fb, ras.raw[1])
             raw == SubSeq(ras.raw, w + 2, Len(ras.raw))
             rows == Append(ras.rows, line_pixels(cur, ras.x, png.n, png.out_n, png.depth, png.color))
  <2>1. /\ UNCHANGED <<png, heap, own, lpc>>
        /\ ras' = [ras EXCEPT !.j = ras.j + 1, !.raw = raw, !.prior = cur, !.rows = rows]
    BY <1>3, Zenon DEF row
  <2> HIDE DEF raw, cur, rows
  <2>2. DOMAIN ras' = RasFields /\ ras'.p = ras.p
    BY <2>1, Zenon DEF HeapInv, RasFields
  <2> QED BY <1>1, <2>1, <2>2 DEF HeapInv, Passes, Final
<1> QED BY <1>2, <1>3

\* The end of a pass frees the filter buffer, and the image of the pass when the
\* file is interlaced.
LEMMA EndPassKeeps == HeapInv /\ end_pass => HeapInv'
<1> SUFFICES ASSUME HeapInv, end_pass PROVE HeapInv'
  BY Zenon
<1> DEFINE gone == {"filter_buf"} \cup (IF png.interlace = 1 THEN {"raw"} ELSE {})
           all == {"expanded", "raw", "filter_buf"} \cup Final
<1>1. /\ lpc = "row" /\ ~ png.first /\ ras.p \in 1..Passes /\ png.interlace \in {0, 1}
      /\ Holds(heap, all)
  BY Zenon DEF HeapInv, end_pass
<1>2. /\ heap' = Free(heap, gone) /\ lpc' = "pass" /\ UNCHANGED <<png, own>>
      /\ ras' = [ras EXCEPT !.rows = <<>>, !.prior = <<>>]
  BY Zenon DEF end_pass
<1>3. DOMAIN ras' = RasFields /\ ras'.p = ras.p
  BY <1>2, Zenon DEF HeapInv, RasFields
<1>4. Passes' = Passes /\ Final' = Final /\ (png.interlace = 0 => ras'.p = 1)
  BY <1>1, <1>2, <1>3 DEF Passes, Final
<1>5. all \ gone = {"expanded"} \cup Final' \cup Unlaced'
  BY <1>1, <1>2, <1>4 DEF Final, Unlaced
<1>6. gone \subseteq all
  BY Zenon
<1>7. Holds(heap', all \ gone)
  <2> HIDE DEF all, gone
  <2> QED BY <1>1, <1>2, <1>6, HoldsLess
<1>8. Holds(heap', {"expanded"} \cup Final' \cup Unlaced')
  BY <1>5, <1>7
<1>9. ras'.p \in 0..Passes'
  BY <1>1, <1>3, <1>4 DEF Passes
<1> QED BY <1>1, <1>2, <1>3, <1>8, <1>9 DEF HeapInv

\* After the last pass out and expanded are all there is; post leaves at most
\* the buffer that it returns, or the one stbi__convert_16_to_8 forgets.
LEMMA PostKeeps == HeapInv /\ post => HeapInv'
<1> SUFFICES ASSUME HeapInv, post PROVE HeapInv'
  BY Zenon
<1> DEFINE out == IF png.interlace = 1 THEN "final" ELSE "raw"
<1>1. lpc = "pass" /\ ras.p = Passes /\ png.interlace \in {0, 1}
  BY Zenon DEF HeapInv, post
<1>2. {"expanded"} \cup Final \cup Unlaced = {out, "expanded"}
  BY <1>1 DEF Final, Unlaced, Passes
<1>3. Holds(heap, {out, "expanded"})
  BY <1>1, <1>2 DEF HeapInv
<1>4. ASSUME NEW kept PROVE Holds(Alloc(Free(heap, {out, "expanded"}), kept), kept)
  <2>1. {out, "expanded"} \ {out, "expanded"} = {} /\ {} \cap kept = {} /\ {} \cup kept = kept
    BY Zenon
  <2> HIDE DEF out
  <2>2. Holds(Free(heap, {out, "expanded"}), {})
    BY <1>3, <2>1, HoldsLess
  <2> QED BY <2>1, <2>2, HoldsMore
<1>5. /\ DOMAIN ras' = RasFields /\ UNCHANGED png
      /\ \/ lpc' = "outofmem" /\ heap' = Alloc(Free(heap, {out, "expanded"}), {})
         \/ /\ lpc' = "outofmem" /\ png.depth = 16
            /\ \E b \in Buffers : heap' = Alloc(Free(heap, {out, "expanded"}), {b})
         \/ /\ lpc' = "ok"
            /\ \E b \in Buffers : heap' = Alloc(Free(heap, {out, "expanded"}), {b})
  <2> DEFINE coloured == IF png.pal_img_n > 0 THEN "temp_out" ELSE out
             wanted == IF Convert THEN "good" ELSE coloured
             result == IF png.depth = 16 THEN "reduced" ELSE wanted
  <2>1. wanted \in Buffers /\ result \in Buffers
    BY Zenon DEF Buffers
  <2>2. \/ png_end("outofmem", out, {}) /\ UNCHANGED ras
        \/ png.depth = 16 /\ png_end("outofmem", out, {wanted}) /\ UNCHANGED ras
        \/ png_end("ok", out, {result}) /\ ras' = NoRas
    BY Zenon DEF post
  <2>3. DOMAIN NoRas = RasFields
    BY Zenon DEF NoRas, RasFields
  <2> HIDE DEF wanted, result
  <2> QED BY <2>1, <2>2, <2>3, Zenon DEF png_end, HeapInv
<1> HIDE DEF out
<1> QED BY <1>4, <1>5, Zenon DEF HeapInv

\* The BMP loader holds its pixels only.
LEMMA BmpKeeps == HeapInv /\ (load_bmp \/ decode_bmp) => HeapInv'
<1> SUFFICES ASSUME HeapInv, load_bmp \/ decode_bmp PROVE HeapInv'
  BY Zenon
<1>1. UNCHANGED <<png, ras>>
  BY Zenon DEF load_bmp, decode_bmp, pvars
<1>2. CASE load_bmp
  <2>1. PICK f : bmp_load(f) /\ lpc = "idle"
    BY <1>2 DEF load_bmp
  <2>2. \/ lpc' \in {"fail", "outofmem"} /\ UNCHANGED heap
        \/ lpc' = "bmp_row" /\ heap' = Alloc(heap, {"raw"})
    BY <2>1, ZenonT(30) DEF bmp_load, bmp_stop
  <2>3. Holds(Alloc(heap, {"raw"}), {"raw"})
    <3>1. {} \cup {"raw"} = {"raw"} /\ {} \cap {"raw"} = {}
      BY Zenon
    <3> QED BY <2>1, <3>1, HoldsMore DEF HeapInv
  <2> QED BY <1>1, <2>1, <2>2, <2>3 DEF HeapInv
<1>3. CASE decode_bmp
  <2>1. lpc = "bmp_row" /\ Holds(heap, {"raw"})
    BY <1>3, Zenon DEF decode_bmp, bmp_row, bmp_done, HeapInv
  <2>2. \/ lpc' = "bmp_row" /\ UNCHANGED heap
        \/ lpc' = "outofmem" /\ heap' = Free(heap, {"raw"})
        \/ lpc' = "ok" /\ heap' \in {heap, Alloc(Free(heap, {"raw"}), {"good"})}
    BY <1>3, Zenon DEF decode_bmp, bmp_row, bmp_done
  <2>3. Holds(Free(heap, {"raw"}), {})
    <3>1. {"raw"} \ {"raw"} = {}
      BY Zenon
    <3> QED BY <2>1, <3>1, HoldsLess
  <2>4. Holds(Alloc(Free(heap, {"raw"}), {"good"}), {"good"})
    <3>1. {} \cup {"good"} = {"good"} /\ {} \cap {"good"} = {}
      BY Zenon
    <3> QED BY <2>3, <3>1, HoldsMore
  <2>5. {"raw", "good"} \subseteq Buffers
    BY Zenon DEF Buffers
  <2> QED BY <1>1, <2>1, <2>2, <2>3, <2>4, <2>5, Zenon DEF HeapInv
<1> QED BY <1>2, <1>3

\* Nothing is allocated before a loader runs.
LEMMA HeapInit == Init => HeapInv
<1> SUFFICES ASSUME Init PROVE HeapInv
  BY Zenon
<1>1. DOMAIN png = PngFields /\ png.interlace = 0 /\ png.first
  BY Zenon DEF Init, NoPng, PngFields
<1>2. DOMAIN ras = RasFields
  BY Zenon DEF Init, NoRas, RasFields
<1>3. lpc = "idle" /\ own = {} /\ Holds(heap, {})
  BY Zenon DEF Init, Holds
<1> QED BY <1>1, <1>2, <1>3 DEF HeapInv

\* Every step of the two loaders keeps it.
LEMMA HeapNext == HeapInv /\ [Next]_vars => HeapInv'
<1> SUFFICES ASSUME HeapInv, [Next]_vars PROVE HeapInv'
  BY Zenon
<1>1. CASE UNCHANGED <<png, ras, heap, own, lpc>>
  BY <1>1, Zenon DEF HeapInv, Passes, Final, Unlaced
<1>2. CASE load_png
  <2>1. lpc = "idle" /\ lpc' = "chunk" /\ UNCHANGED <<png, ras, heap, own>>
    BY <1>2, Zenon DEF load_png, png_load
  <2> QED BY <2>1, Zenon DEF HeapInv
<1>3. CASE unknown_image_type
  BY <1>3, Zenon DEF unknown_image_type, pvars, HeapInv
<1>4. CASE facet_image_free
  <2>1. lpc = "ok" /\ lpc' = "ok" /\ UNCHANGED <<png, ras>> /\ heap' = Free(heap, {b \in Buffers : heap[b] > 0})
    BY <1>4, Zenon DEF facet_image_free, pvars
  <2>2. Holds(heap', {})
    BY <2>1 DEF HeapInv, Holds, Free
  <2> QED BY <2>1, <2>2 DEF HeapInv
<1>5. CASE decode_png
  BY <1>5, CgBIKeeps, IHDRKeeps, PLTEKeeps, tRNSKeeps, IDATKeeps, OthersKeep, IENDKeeps,
     InflateKeeps, PassKeeps, RowKeeps, EndPassKeeps, PostKeeps, Zenon DEF decode_png, pNext
<1>6. CASE load_bmp \/ decode_bmp
  BY <1>6, BmpKeeps
<1>7. write_png_to_mem \/ write_symbol \/ done \/ UNCHANGED vars => UNCHANGED <<png, ras, heap, own, lpc>>
  BY Zenon DEF write_png_to_mem, write_symbol, done, vars, pvars, lvars
<1> QED BY <1>1, <1>2, <1>3, <1>4, <1>5, <1>6, <1>7 DEF Next

-----------------------------------------------------------------------------
(* Induction, and functions defined by recursion over an interval.           *)

LOCAL INSTANCE WellFoundedInduction

\* A set of natural numbers that is not empty has a least element.
LEMMA Least ==
  ASSUME NEW T, T \subseteq Nat, T # {}
  PROVE  \E x \in T : \A y \in T : x <= y
<1> DEFINE R == {ss \in Nat \X Nat : ss[1] < ss[2]}
<1>1. IsWellFoundedOn(R, Nat)
  BY NatLessThanWellFounded DEF OpToRel
<1> HIDE DEF R
<1>2. PICK x \in T : \A y \in T : ~ (<<y, x>> \in R)
  BY <1>1, WFMin, Zenon
<1>3. \A y \in T : ~ (y < x)
  BY <1>2 DEF R
<1> QED BY <1>3

\* Induction up to N: a set with 0 and the successors below N of its elements.
LEMMA Induction ==
  ASSUME NEW N \in Nat, NEW S, 0 \in S, \A n \in 0..N - 1 : n \in S => n + 1 \in S
  PROVE  0..N \subseteq S
<1> SUFFICES ASSUME (0..N) \ S # {} PROVE FALSE
  BY Zenon
<1>1. (0..N) \ S \subseteq Nat
  OBVIOUS
<1>2. PICK m \in (0..N) \ S : \A y \in (0..N) \ S : m <= y
  <2> DEFINE T == (0..N) \ S
  <2>1. T # {} /\ T \subseteq Nat
    BY <1>1, Zenon
  <2> HIDE DEF T
  <2>2. \E x \in T : \A y \in T : x <= y
    BY <2>1, Least, Zenon
  <2> QED BY <2>2, Zenon DEF T
<1>3. m # 0 /\ m - 1 \in 0..N - 1
  BY <1>2
<1>4. m - 1 \in S
  BY <1>2, <1>3
<1>5. (m - 1) + 1 = m
  BY <1>3
<1> QED BY <1>2, <1>3, <1>4, <1>5, Zenon

\* g goes N steps from a in A; step i is F[<<i, x>>].
Runs(g, A, a, N, F) == g \in [0..N -> A] /\ g[0] = a /\ \A i \in 1..N : g[i] = F[<<i, g[i - 1]>>]

\* N steps can be taken.
LEMMA Iterate ==
  ASSUME NEW A, NEW a \in A, NEW N \in Nat, NEW F \in [(1..N) \X A -> A]
  PROVE  \E g : Runs(g, A, a, N, F)
<1> DEFINE P(n) == \E g \in [0..n -> A] : g[0] = a /\ \A i \in 1..n : g[i] = F[<<i, g[i - 1]>>]
           S == {n \in 0..N : P(n)}
<1>1. 0 \in S
  <2> DEFINE g == [i \in 0..0 |-> a]
  <2>1. g \in [0..0 -> A] /\ g[0] = a /\ \A i \in 1..0 : g[i] = F[<<i, g[i - 1]>>]
    OBVIOUS
  <2> HIDE DEF g
  <2> QED BY <2>1
<1>2. ASSUME NEW n \in 0..N - 1, n \in S PROVE n + 1 \in S
  <2>1. PICK g \in [0..n -> A] : g[0] = a /\ \A i \in 1..n : g[i] = F[<<i, g[i - 1]>>]
    BY <1>2, Zenon
  <2> DEFINE e == F[<<n + 1, g[n]>>]
             h == [i \in 0..n + 1 |-> IF i = n + 1 THEN e ELSE g[i]]
  <2>2. e \in A
    <3>1. g[n] \in A /\ n + 1 \in 1..N
      OBVIOUS
    <3> QED BY <3>1
  <2>3. h \in [0..n + 1 -> A]
    BY <2>2
  <2>4. h[0] = a
    BY <2>1
  <2>5. ASSUME NEW i \in 1..n + 1 PROVE h[i] = F[<<i, h[i - 1]>>]
    <3>1. CASE i = n + 1
      <4>1. h[i] = e /\ h[i - 1] = g[n]
        BY <3>1
      <4> QED BY <3>1, <4>1
    <3>2. CASE i # n + 1
      <4>1. i \in 1..n /\ h[i] = g[i] /\ h[i - 1] = g[i - 1]
        BY <3>2
      <4> QED BY <2>1, <4>1
    <3> QED BY <3>1, <3>2, Zenon
  <2> HIDE DEF h
  <2>6. P(n + 1)
    BY <2>3, <2>4, <2>5
  <2> QED BY <2>6
<1> HIDE DEF P
<1>3. 0..N \subseteq S
  <2> HIDE DEF S
  <2> QED BY <1>1, <1>2, Induction
<1>4. P(N)
  BY <1>3
<1> QED BY <1>4 DEF P, Runs

-----------------------------------------------------------------------------
(* PNG lines (StbPngLine).                                                   *)

\* The reader's unfilter gives back every line of bytes that the writer's
\* encode_png_line filters, whichever filter it chose, on the first row and on
\* later ones, for every length and pixel size: no rounding of the average, no
\* tie of Paeth and no cast to unsigned char loses a bit.
THEOREM LineRestored ==
  ASSUME NEW line \in Seq(Byte), NEW above \in Seq(Byte), Len(above) = Len(line),
         NEW y \in Nat, NEW n \in Nat \ {0}, NEW t \in 0..4
  PROVE  unfilter_line(encode_png_line(line, above, y, n, t), above, y, n, t) = line
<1> DEFINE N == Len(line)
           ty == wmap(y, t)
           f == row_filter(y, t)
           L(k) == IF k > n THEN line[k - n] ELSE 0
           B(k) == IF y = 0 THEN 0 ELSE above[k]
           C(k) == IF k > n THEN B(k - n) ELSE 0
           p(k) == wpredict(ty, L(k), B(k), C(k))
           raw == encode_png_line(line, above, y, n, t)
           V(g, k) == (raw[k] + (IF k <= n THEN predict_first(f, B(k))
                                 ELSE predict(f, g[k - n], B(k), B(k - n)))) % 256
           E(g) == [k \in 1..Len(raw) |-> V(g, k)]
<1>1. N \in Nat /\ line = [k \in 1..N |-> line[k]] /\ \A k \in 1..N : line[k] \in Byte /\ above[k] \in Byte
  OBVIOUS
<1>2. ty \in 0..6 /\ f \in 0..5 /\ (y = 0 => ty \notin 2..4)
  <2>1. t = 0 \/ t = 1 \/ t = 2 \/ t = 3 \/ t = 4
    OBVIOUS
  <2> QED BY <2>1 DEF wmap, row_filter, F_avg_first
<1>3. ASSUME NEW k \in 1..N
      PROVE  L(k) \in Byte /\ B(k) \in Byte /\ C(k) \in Byte /\ (y = 0 => B(k) = 0 /\ C(k) = 0)
  <2>1. k > n => k - n \in 1..N
    BY <1>1
  <2> QED BY <1>1, <2>1 DEF Byte
<1>4. ASSUME NEW k \in 1..N
      PROVE  raw[k] = (line[k] - p(k)) % 256 /\ p(k) \in Byte
  <2> DEFINE up == IF ty \in 2..4 THEN above[k] ELSE 0
             upleft == IF ty = 4 THEN IF k > n THEN above[k - n] ELSE 0 ELSE 0
  <2>1. raw[k] = (line[k] - wpredict(ty, L(k), up, upleft)) % 256
    BY DEF encode_png_line
  <2>2. up = IF ty \in 2..4 THEN B(k) ELSE 0
    BY <1>2
  <2>3. upleft = IF ty = 4 THEN C(k) ELSE 0
    BY <1>2
  <2>4. L(k) \in Byte /\ B(k) \in Byte /\ C(k) \in Byte
    BY <1>3
  <2> HIDE DEF up, upleft, L, B, C, ty
  <2>5. wpredict(ty, L(k), up, upleft) = wpredict(ty, L(k), B(k), C(k))
    BY <1>2, <2>2, <2>3, <2>4, PredictionUses
  <2>6. p(k) \in Byte
    BY <1>2, <2>4, PredictionUses
  <2> QED BY <2>1, <2>5, <2>6
<1>5. raw = [k \in 1..N |-> raw[k]] /\ Len(raw) = N
  BY <1>1 DEF encode_png_line
<1>6. unfilter_line(raw, above, y, n, t) = CHOOSE g : g = E(g)
  BY Zenon DEF unfilter_line
<1>7. ASSUME NEW k \in 1..N, NEW g, k > n => g[k - n] = line[k - n]
      PROVE  V(g, k) = line[k]
  <2>1. predict(f, L(k), B(k), C(k)) = p(k)
    <3> HIDE DEF L, B, C
    <3> QED BY <1>3, PredictorsAgree
  <2>b. (raw[k] + p(k)) % 256 = line[k]
    <3> DEFINE q == p(k)
               v == line[k]
    <3>1. raw[k] = (v - q) % 256 /\ q \in 0..255 /\ v \in 0..255
      BY <1>1, <1>4 DEF Byte
    <3> HIDE DEF q, v
    <3>2. (((v - q) % 256) + q) % 256 = v
      BY <3>1
    <3> HIDE DEF raw
    <3>3. (raw[k] + q) % 256 = v
      BY <3>1, <3>2, Zenon
    <3> QED BY <3>3, Zenon DEF q, v
  <2>2. CASE k <= n
    <3>1. predict_first(f, B(k)) = predict(f, 0, B(k), 0)
      BY <1>2, <1>3, FirstPixel
    <3>2. L(k) = 0 /\ C(k) = 0
      BY <2>2
    <3>3. V(g, k) = (raw[k] + p(k)) % 256
      BY <2>1, <2>2, <3>1, <3>2
    <3> QED BY <2>b, <3>3
  <2>3. CASE k > n
    <3>1. L(k) = g[k - n] /\ C(k) = B(k - n) /\ ~ (k <= n)
      BY <1>7, <2>3
    <3>2. V(g, k) = (raw[k] + p(k)) % 256
      BY <2>1, <3>1, Zenon
    <3> QED BY <2>b, <3>2
  <2> QED BY <2>2, <2>3
<1> HIDE DEF raw, V
<1>8. line = E(line)
  <2>1. \A k \in 1..N : V(line, k) = line[k]
    BY <1>7
  <2> QED BY <1>1, <1>5, <2>1
<1>9. ASSUME NEW g, g = E(g) PROVE g = line
  <2>1. g = [k \in 1..N |-> V(g, k)]
    BY <1>5, <1>9, Zenon
  <2> DEFINE T == {k \in 1..N : g[k] # line[k]}
  <2>2. T = {}
    <3> SUFFICES ASSUME T # {} PROVE FALSE
      OBVIOUS
    <3>1. T \subseteq Nat
      BY <1>1
    <3>2. PICK k \in T : \A x \in T : k <= x
      <4> HIDE DEF T
      <4> QED BY <3>1, Least, Zenon
    <3>3. k \in 1..N /\ g[k] # line[k]
      BY <3>2
    <3>4. k > n => g[k - n] = line[k - n]
      BY <1>1, <3>2
    <3>5. V(g, k) = line[k]
      BY <1>7, <3>3, <3>4
    <3> QED BY <2>1, <3>3, <3>5
  <2>3. \A k \in 1..N : g[k] = line[k]
    BY <2>2
  <2>4. g = [k \in 1..N |-> g[k]]
    BY <2>1
  <2> QED BY <1>1, <2>3, <2>4
<1> HIDE DEF E
<1>10. (CHOOSE g : g = E(g)) = E(CHOOSE g : g = E(g))
  BY <1>8
<1> QED BY <1>6, <1>9, <1>10, Zenon DEF raw

-----------------------------------------------------------------------------
(* The inflater.                                                             *)

\* What the loader hands to the inflater are bytes.
Bytes == input \in Seq(Byte)

\* The bit reader between two reads: it stands in the input, and what it has
\* buffered are bits that it read or made up.
Readers == {r \in [at : 0..Len(input), nb : 0..32, ph : Nat, zeof : BOOLEAN] :
              r.nb <= 8 * r.at + r.ph}

\* The fields of a reader.
LEMMA ReaderFields ==
  ASSUME NEW r \in Readers
  PROVE  /\ r.at \in 0..Len(input) /\ r.nb \in 0..32 /\ r.ph \in Nat
         /\ r.nb <= 8 * r.at + r.ph
<1> DEFINE P == 0..Len(input)
           Q == 0..32
<1>1. r \in [at : P, nb : Q, ph : Nat, zeof : BOOLEAN] /\ r.nb <= 8 * r.at + r.ph
  BY Zenon DEF Readers
<1> HIDE DEF P, Q
<1>2. r.at \in P /\ r.nb \in Q /\ r.ph \in Nat
  BY <1>1
<1> QED BY <1>1, <1>2, Zenon DEF P, Q

\* The least element of a set of sizes.
LEMMA MinIsLeast ==
  ASSUME NEW T, T \subseteq Nat, T # {}
  PROVE  Min(T) \in T /\ \A y \in T : Min(T) <= y
<1>1. \E x \in T : \A y \in T : x <= y
  BY Least, Zenon
<1> QED BY <1>1, Zenon DEF Min

\* A small power of two.
LEMMA Powers ==
  ASSUME NEW n \in 0..12
  PROVE  2^n \in Nat
<1> DEFINE E(m) == 2^m
<1>1. E(0) = 1 /\ E(1) = 2 /\ E(2) = 4 /\ E(3) = 8 /\ E(4) = 16 /\ E(5) = 32 /\ E(6) = 64
  OBVIOUS
<1>2. E(7) = 128 /\ E(8) = 256 /\ E(9) = 512 /\ E(10) = 1024 /\ E(11) = 2048 /\ E(12) = 4096
  OBVIOUS
<1>3. n \in {0, 1, 2, 3, 4, 5, 6} \/ n \in {7, 8, 9, 10, 11, 12}
  OBVIOUS
<1> HIDE DEF E
<1>4. E(n) \in Nat
  BY <1>1, <1>2, <1>3
<1> QED BY <1>4 DEF E

\* stbi__fill_bits leaves more than 24 bits in the buffer, and no more than 32.
LEMMA FillFits ==
  ASSUME Bytes, NEW r \in Readers, r.nb <= 24
  PROVE  fill_bits(r) \in Readers /\ fill_bits(r).nb \in 25..32
<1> DEFINE at == r.at
           nb == r.nb
           ph == r.ph
           m == (24 - nb) \div 8 + 1
           T == {m, Len(input) - at}
           real == Min(T)
           e == [r EXCEPT !.at = at + real, !.ph = ph + 8 * (m - real), !.nb = nb + 8 * m]
<1>1. at \in 0..Len(input) /\ nb \in 0..32 /\ ph \in Nat /\ nb <= 8 * at + ph /\ nb <= 24
  BY ReaderFields, Zenon
<1>2. r \in [at : 0..Len(input), nb : 0..32, ph : Nat, zeof : BOOLEAN]
  BY Zenon DEF Readers
<1>3. fill_bits(r) = e
  BY Zenon DEF fill_bits
<1> HIDE DEF at, nb, ph
<1>4. Len(input) \in Nat
  BY DEF Bytes
<1>5. m \in 1..4 /\ nb + 8 * m \in 25..32
  BY <1>1
<1> HIDE DEF m
<1>6. T \subseteq Nat /\ T # {}
  BY <1>1, <1>4, <1>5
<1> HIDE DEF T
<1>7. Min(T) \in T /\ \A y \in T : Min(T) <= y
  BY <1>6, MinIsLeast, Zenon
<1>8. real \in 0..m /\ real <= Len(input) - at
  BY <1>1, <1>4, <1>5, <1>6, <1>7 DEF T
<1> HIDE DEF real
<1>9. /\ at + real \in 0..Len(input) /\ ph + 8 * (m - real) \in Nat /\ nb + 8 * m \in 0..32
      /\ nb + 8 * m <= 8 * (at + real) + (ph + 8 * (m - real))
  BY <1>1, <1>4, <1>5, <1>8
<1>10. e.at = at + real /\ e.ph = ph + 8 * (m - real) /\ e.nb = nb + 8 * m
  BY <1>2
<1>11. e \in [at : 0..Len(input), nb : 0..32, ph : Nat, zeof : BOOLEAN]
  BY <1>2, <1>9
<1> HIDE DEF e
<1> QED BY <1>3, <1>5, <1>9, <1>10, <1>11, Zenon DEF Readers

\* Bits taken from the buffer leave the reader in order.
LEMMA TakeFits ==
  ASSUME NEW r \in Readers, NEW n \in Nat, n <= r.nb
  PROVE  [r EXCEPT !.nb = @ - n] \in Readers
<1> DEFINE at == r.at
           nb == r.nb
           ph == r.ph
           e == [r EXCEPT !.nb = nb - n]
<1>1. at \in 0..Len(input) /\ nb \in 0..32 /\ ph \in Nat /\ nb <= 8 * at + ph /\ n <= nb
  BY ReaderFields, Zenon
<1>2. r \in [at : 0..Len(input), nb : 0..32, ph : Nat, zeof : BOOLEAN]
  BY Zenon DEF Readers
<1>3. e.at = at /\ e.ph = ph /\ e.nb = nb - n
  BY <1>2
<1>4. at \in Int
  <2> HIDE DEF at, nb, ph
  <2> QED BY <1>1
<1>5. nb - n \in 0..32 /\ nb - n <= 8 * at + ph
  <2> HIDE DEF at, nb, ph
  <2> QED BY <1>1, <1>4
<1>6. e \in [at : 0..Len(input), nb : 0..32, ph : Nat, zeof : BOOLEAN]
  <2> HIDE DEF nb
  <2> QED BY <1>2, <1>5
<1>7. e \in Readers
  <2> HIDE DEF e
  <2> QED BY <1>3, <1>5, <1>6, Zenon DEF Readers
<1> QED BY <1>7, Zenon

\* stbi__zreceive of at most 13 bits: a natural number, from a reader in order.
LEMMA ReceiveFits ==
  ASSUME Bytes, NEW r \in Readers, NEW n \in 0..13
  PROVE  zreceive(r, n).r \in Readers /\ zreceive(r, n).v \in Nat
<1> DEFINE f == IF r.nb < n THEN fill_bits(r) ELSE r
           G(x, k) == x + CodeBit(f, k - 1) * 2^(k - 1)
           E(g) == [k \in 0..n |-> IF k = 0 THEN 0 ELSE G(g[k - 1], k)]
           value == CHOOSE g : g = E(g)
           F == [u \in (1..n) \X Nat |-> G(u[2], u[1])]
<1>1. f \in Readers /\ n <= f.nb
  <2>1. r.nb \in 0..32
    BY ReaderFields
  <2>2. CASE r.nb < n
    <3>1. fill_bits(r) \in Readers /\ fill_bits(r).nb \in 25..32
      BY <2>1, <2>2, FillFits
    <3> QED BY <2>2, <3>1
  <2>3. CASE ~ (r.nb < n)
    BY <2>1, <2>3
  <2> QED BY <2>2, <2>3, Zenon
<1>2. zreceive(r, n) = [r |-> [f EXCEPT !.nb = @ - n], v |-> value[n]]
  BY Zenon DEF zreceive
<1>3. [f EXCEPT !.nb = @ - n] \in Readers
  <2>1. f.nb \in 0..32
    BY <1>1, ReaderFields
  <2>2. n \in Nat
    OBVIOUS
  <2> HIDE DEF f
  <2> QED BY <1>1, <2>2, TakeFits
<1>4. ASSUME NEW k \in 1..n, NEW x \in Nat PROVE G(x, k) \in Nat
  <2>1. k - 1 \in 0..12
    OBVIOUS
  <2>2. 2^(k - 1) \in Nat
    BY <2>1, Powers
  <2>3. CodeBit(f, k - 1) = 0 \/ CodeBit(f, k - 1) = 1
    BY Zenon DEF CodeBit
  <2> HIDE DEF f
  <2> DEFINE c == CodeBit(f, k - 1)
             w == 2^(k - 1)
  <2>4. (c = 0 \/ c = 1) /\ w \in Nat
    BY <2>2, <2>3
  <2> HIDE DEF c, w
  <2>5. x + c * w \in Nat
    BY <2>4
  <2> QED BY <2>5 DEF c, w
<1> HIDE DEF f
<1>5. F \in [(1..n) \X Nat -> Nat]
  <2>1. \A u \in (1..n) \X Nat : u[1] \in 1..n /\ u[2] \in Nat
    BY Zenon
  <2> HIDE DEF G
  <2> QED BY <1>4, <2>1, Zenon
<1>6. PICK g : Runs(g, Nat, 0, n, F)
  <2> HIDE DEF F
  <2>1. 0 \in Nat /\ n \in Nat
    OBVIOUS
  <2> QED BY <1>5, <2>1, Iterate, Zenon
<1>7. g = E(g)
  <2>1. g \in [0..n -> Nat] /\ g[0] = 0 /\ \A i \in 1..n : g[i] = F[<<i, g[i - 1]>>]
    BY <1>6, Zenon DEF Runs
  <2>2. ASSUME NEW i \in 0..n PROVE g[i] = IF i = 0 THEN 0 ELSE G(g[i - 1], i)
    <3>1. CASE i = 0
      BY <2>1, <3>1, Zenon
    <3>2. CASE i # 0
      <4>1. i \in 1..n /\ i - 1 \in 0..n
        BY <3>2
      <4>2. <<i, g[i - 1]>> \in (1..n) \X Nat
        BY <2>1, <4>1, Zenon
      <4>3. F[<<i, g[i - 1]>>] = G(g[i - 1], i)
        <5> HIDE DEF G
        <5> QED BY <4>2
      <4> HIDE DEF F, G
      <4> QED BY <2>1, <3>2, <4>1, <4>3, Zenon
    <3> QED BY <3>1, <3>2, Zenon
  <2> HIDE DEF F, G
  <2> QED BY <2>1, <2>2
<1>8. value = E(value)
  BY <1>7, Zenon
<1> HIDE DEF value
<1>9. \A k \in 0..n : value[k] = IF k = 0 THEN 0 ELSE G(value[k - 1], k)
  <2> DEFINE e == E(value)
  <2>1. \A k \in 0..n : e[k] = IF k = 0 THEN 0 ELSE G(value[k - 1], k)
    BY Zenon
  <2>2. value = e
    BY <1>8, Zenon
  <2> HIDE DEF e
  <2> QED BY <2>1, <2>2, Zenon
<1> HIDE DEF G, E
<1> DEFINE S == {k \in 0..n : value[k] \in Nat}
<1>10. 0 \in S
  BY <1>9
<1>11. ASSUME NEW k \in 0..n - 1, k \in S PROVE k + 1 \in S
  <2>1. value[k] \in Nat /\ k + 1 \in 1..n /\ k + 1 \in 0..n /\ (k + 1) - 1 = k /\ k + 1 # 0
    BY <1>11
  <2>2. value[k + 1] = G(value[k], k + 1)
    BY <1>9, <2>1, Zenon
  <2> QED BY <1>4, <2>1, <2>2, Zenon
<1>12. value[n] \in Nat
  <2>1. n \in Nat /\ n \in 0..n
    OBVIOUS
  <2>2. 0..n \subseteq S
    <3> HIDE DEF S
    <3> QED BY <1>10, <1>11, <2>1, Induction, Zenon
  <2> QED BY <2>1, <2>2, Zenon
<1> QED BY <1>2, <1>3, <1>12

\* stbi__zhuffman_decode of any table leaves the reader in order: it makes up
\* 16 bits at most once past the end of the input.
LEMMA DecodeFits ==
  ASSUME Bytes, NEW r \in Readers, NEW table
  PROVE  zhuffman_decode(r, table).r \in Readers
<1> DEFINE ended == r.nb < 16 /\ zeof(r)
           made == [r EXCEPT !.zeof = TRUE, !.nb = @ + 16, !.ph = @ + 16]
           f == IF ~ ended THEN IF r.nb < 16 THEN fill_bits(r) ELSE r ELSE made
           prefix == CHOOSE g : g = [s \in 0..15 |-> IF s = 0 THEN 0 ELSE 2 * g[s - 1] + CodeBit(f, s - 1)]
           found == {s \in 1..15 : prefix[s] - table[s].first \in 0..Len(table[s].symbols) - 1}
           s == Min(found)
           stop == (ended /\ r.zeof) \/ found = {}
           d == zhuffman_decode(r, table)
<1>1. r.nb \in 0..32
  BY ReaderFields, Zenon
<1>2. f \in Readers /\ f.nb >= 16
  <2>1. CASE ended
    <3> DEFINE at == r.at
               nb == r.nb
               ph == r.ph
               e == [r EXCEPT !.zeof = TRUE, !.nb = nb + 16, !.ph = ph + 16]
    <3>1. at \in 0..Len(input) /\ nb \in 0..32 /\ ph \in Nat /\ nb <= 8 * at + ph /\ nb < 16
      BY <2>1, ReaderFields, Zenon
    <3>2. r \in [at : 0..Len(input), nb : 0..32, ph : Nat, zeof : BOOLEAN]
      BY Zenon DEF Readers
    <3>3. e.at = at /\ e.ph = ph + 16 /\ e.nb = nb + 16
      BY <3>2
    <3>4. /\ nb + 16 \in 0..32 /\ ph + 16 \in Nat /\ nb + 16 >= 16
          /\ nb + 16 <= 8 * at + (ph + 16)
      <4>1. Len(input) \in Nat
        BY DEF Bytes
      <4> HIDE DEF at, nb, ph
      <4> QED BY <3>1, <4>1
    <3>5. e \in [at : 0..Len(input), nb : 0..32, ph : Nat, zeof : BOOLEAN]
      <4> HIDE DEF nb, ph
      <4> QED BY <3>2, <3>4
    <3>6. f = e
      BY <2>1, Zenon
    <3> HIDE DEF e, f, at, nb, ph
    <3> QED BY <3>3, <3>4, <3>5, <3>6, Zenon DEF Readers
  <2>2. CASE ~ ended /\ r.nb < 16
    <3>1. f = fill_bits(r)
      BY <2>2, Zenon
    <3>2. r.nb <= 24
      <4> DEFINE nb == r.nb
      <4>1. nb \in 0..32 /\ nb < 16
        BY <1>1, <2>2, Zenon
      <4> HIDE DEF nb
      <4>2. nb <= 24
        BY <4>1
      <4> QED BY <4>2, Zenon DEF nb
    <3>3. fill_bits(r) \in Readers /\ fill_bits(r).nb \in 25..32
      BY <3>2, FillFits, Zenon
    <3> HIDE DEF f
    <3>4. f \in Readers /\ f.nb \in 25..32
      BY <3>1, <3>3, Zenon
    <3> QED BY <3>4
  <2>3. CASE ~ ended /\ ~ (r.nb < 16)
    <3>1. f = r
      BY <2>3, Zenon
    <3>2. r.nb >= 16
      <4> DEFINE nb == r.nb
      <4>1. nb \in 0..32 /\ ~ (nb < 16)
        BY <1>1, <2>3, Zenon
      <4> HIDE DEF nb
      <4>2. nb >= 16
        BY <4>1
      <4> QED BY <4>2, Zenon DEF nb
    <3> QED BY <3>1, <3>2, Zenon
  <2> QED BY <2>1, <2>2, <2>3, Zenon
<1>3. d = IF stop THEN [r |-> r, sym |-> -1]
          ELSE [r |-> [f EXCEPT !.nb = @ - s], sym |-> table[s].symbols[prefix[s] - table[s].first + 1]]
  BY Zenon DEF zhuffman_decode
<1>4. CASE stop
  <2>1. d = [r |-> r, sym |-> -1]
    BY <1>3, <1>4, Zenon
  <2> HIDE DEF d
  <2>2. d.r = r
    BY <2>1
  <2> QED BY <2>2, Zenon DEF d
<1>5. CASE ~ stop
  <2>1. d.r = [f EXCEPT !.nb = @ - s]
    <3> DEFINE y == table[s].symbols[prefix[s] - table[s].first + 1]
               x == [f EXCEPT !.nb = @ - s]
    <3>1. d = [r |-> x, sym |-> y]
      BY <1>3, <1>5, Zenon
    <3> HIDE DEF d, x, y
    <3>2. d.r = x
      BY <3>1
    <3> QED BY <3>2, Zenon DEF x
  <2>2. s \in 1..15
    <3>1. found \subseteq Nat /\ found \subseteq 1..15
      <4>1. found \subseteq 1..15
        BY Zenon
      <4> HIDE DEF found
      <4> QED BY <4>1
    <3>2. found # {}
      BY <1>5, Zenon
    <3> HIDE DEF found
    <3>3. Min(found) \in found
      BY <3>1, <3>2, MinIsLeast, Zenon
    <3> QED BY <3>1, <3>3, Zenon
  <2> HIDE DEF s, f, d
  <2>3. s \in Nat /\ s <= f.nb
    <3> DEFINE nb == f.nb
    <3>1. nb \in 0..32 /\ nb >= 16
      BY <1>2, ReaderFields, Zenon
    <3> HIDE DEF nb
    <3>2. s \in Nat /\ s <= nb
      BY <2>2, <3>1
    <3> QED BY <3>2, Zenon DEF nb
  <2>4. [f EXCEPT !.nb = @ - s] \in Readers
    BY <1>2, <2>3, TakeFits, Zenon
  <2> QED BY <2>1, <2>4, Zenon DEF d
<1> QED BY <1>4, <1>5, Zenon

\* The sizes of the code-length code, whatever their number, leave the reader
\* in order.
LEMMA CodeLengthsFit ==
  ASSUME Bytes, NEW r \in Readers, NEW n \in Nat
  PROVE  CodeLengthSizes(r, n).r \in Readers
<1> DEFINE a == [r |-> r, size |-> [k \in 1..19 |-> 0]]
           A == [r : Readers, size : [1..19 -> Nat]]
           G(s, i) == [r |-> zreceive(s.r, 3).r,
                       size |-> [s.size EXCEPT ![length_dezigzag[i] + 1] = zreceive(s.r, 3).v]]
           E(g) == [i \in 0..n |-> IF i = 0 THEN a ELSE G(g[i - 1], i)]
           read == CHOOSE g : g = E(g)
           F == [u \in (1..n) \X A |-> G(u[2], u[1])]
<1>1. CodeLengthSizes(r, n) = read[n]
  BY Zenon DEF CodeLengthSizes
<1>2. a \in A
  OBVIOUS
<1>3. ASSUME NEW i \in 1..n, NEW x \in A PROVE G(x, i) \in A
  <2>1. x.r \in Readers /\ x.size \in [1..19 -> Nat]
    BY <1>3
  <2>2. 3 \in 0..13
    OBVIOUS
  <2>3. zreceive(x.r, 3).r \in Readers /\ zreceive(x.r, 3).v \in Nat
    BY <2>1, <2>2, ReceiveFits, Zenon
  <2> DEFINE v == zreceive(x.r, 3).v
             y == zreceive(x.r, 3).r
             k == length_dezigzag[i] + 1
             t == [x.size EXCEPT ![k] = v]
  <2>4. t \in [1..19 -> Nat]
    <3>1. v \in Nat
      BY <2>3, Zenon
    <3> HIDE DEF v, k
    <3> QED BY <2>1, <3>1
  <2>5. y \in Readers
    BY <2>3, Zenon
  <2>6. G(x, i) = [r |-> y, size |-> t]
    BY Zenon
  <2> HIDE DEF t, y, G
  <2>7. [r |-> y, size |-> t] \in A
    BY <2>4, <2>5
  <2> HIDE DEF A
  <2> QED BY <2>6, <2>7, Zenon
<1> HIDE DEF A
<1>5. F \in [(1..n) \X A -> A]
  <2>1. \A u \in (1..n) \X A : u[1] \in 1..n /\ u[2] \in A
    BY Zenon
  <2> HIDE DEF G
  <2> QED BY <1>3, <2>1, Zenon
<1>6. PICK g : Runs(g, A, a, n, F)
  <2> HIDE DEF F, a
  <2> QED BY <1>2, <1>5, Iterate, Zenon
<1> HIDE DEF a
<1>7. g = E(g)
  <2>1. g \in [0..n -> A] /\ g[0] = a /\ \A i \in 1..n : g[i] = F[<<i, g[i - 1]>>]
    BY <1>6, Zenon DEF Runs
  <2>2. ASSUME NEW i \in 0..n PROVE g[i] = IF i = 0 THEN a ELSE G(g[i - 1], i)
    <3>1. CASE i = 0
      BY <2>1, <3>1, Zenon
    <3>2. CASE i # 0
      <4>1. i \in 1..n /\ i - 1 \in 0..n
        BY <3>2
      <4>2. <<i, g[i - 1]>> \in (1..n) \X A
        BY <2>1, <4>1, Zenon
      <4>3. F[<<i, g[i - 1]>>] = G(g[i - 1], i)
        <5> HIDE DEF G
        <5> QED BY <4>2
      <4> HIDE DEF F, G
      <4> QED BY <2>1, <3>2, <4>1, <4>3, Zenon
    <3> QED BY <3>1, <3>2, Zenon
  <2> HIDE DEF F, G
  <2> QED BY <2>1, <2>2
<1>8. read = E(read)
  BY <1>7, Zenon
<1> HIDE DEF read
<1>9. \A i \in 0..n : read[i] = IF i = 0 THEN a ELSE G(read[i - 1], i)
  <2> DEFINE e == E(read)
  <2>1. \A i \in 0..n : e[i] = IF i = 0 THEN a ELSE G(read[i - 1], i)
    BY Zenon
  <2>2. read = e
    BY <1>8, Zenon
  <2> HIDE DEF e
  <2> QED BY <2>1, <2>2, Zenon
<1> HIDE DEF G, E
<1> DEFINE S == {i \in 0..n : read[i] \in A}
<1>10. 0 \in S
  BY <1>2, <1>9
<1>11. ASSUME NEW i \in 0..n - 1, i \in S PROVE i + 1 \in S
  <2>1. read[i] \in A /\ i + 1 \in 1..n /\ i + 1 \in 0..n /\ (i + 1) - 1 = i /\ i + 1 # 0
    BY <1>11
  <2>2. read[i + 1] = G(read[i], i + 1)
    BY <1>9, <2>1, Zenon
  <2> QED BY <1>3, <2>1, <2>2, Zenon
<1>12. read[n] \in A
  <2>1. n \in 0..n
    OBVIOUS
  <2>2. 0..n \subseteq S
    <3> HIDE DEF S
    <3> QED BY <1>10, <1>11, Induction, Zenon
  <2> QED BY <2>1, <2>2, Zenon
<1>13. read[n].r \in Readers
  BY <1>12 DEF A
<1> QED BY <1>1, <1>13, Zenon

\* Where the inflater is once it is past the header, and what it keeps: the
\* reader is in order, and the output are bytes, no more than its buffer holds.
ZPcs == {"idle", "block", "lengths", "symbol", "ok", "fail", "outofmem"}
ZTyped ==
  /\ zpc \in ZPcs \/ (zpc = "header" /\ z.nb = 0)
  /\ z \in Readers
  /\ zout \in Seq(Byte) /\ Len(zout) <= zcap

\* A step that leaves the output as it is.
LEMMA ReadKeeps ==
  ASSUME ZTyped, input' = input, zout' = zout, zcap' = zcap, zpc' \in ZPcs, z' \in Readers
  PROVE  ZTyped'
BY Zenon DEF ZTyped, Readers

\* Giving up.
LEMMA ZStopKeeps ==
  ASSUME ZTyped, NEW reason \in ZPcs, zstop(reason)
  PROVE  ZTyped'
BY Zenon DEF ZTyped, Readers, zstop

\* Bytes are appended once there is room for all of them.
LEMMA PutKeeps ==
  ASSUME ZTyped, NEW bytes \in Seq(Byte), NEW r \in Readers, NEW pc \in ZPcs, Put(bytes, r, pc)
  PROVE  ZTyped'
<1> DEFINE need == Len(zout) + Len(bytes)
           limit == Doubled(zcap, need)
<1>1. CASE limit >= need /\ zout' = zout \o bytes /\ zcap' = limit /\ z' = r /\ zpc' = pc /\ UNCHANGED <<input, blk>>
  <2>1. zout \in Seq(Byte)
    BY Zenon DEF ZTyped
  <2>2. zout \o bytes \in Seq(Byte) /\ Len(zout \o bytes) = need
    BY <2>1
  <2> HIDE DEF limit, need
  <2>3. need <= limit
    BY <1>1
  <2>4. zout' \in Seq(Byte) /\ Len(zout') <= zcap'
    BY <1>1, <2>2, <2>3, Zenon
  <2> QED BY <1>1, <2>4, Zenon DEF ZTyped, Readers
<1>2. CASE zstop("outofmem")
  <2>1. "outofmem" \in ZPcs
    BY Zenon DEF ZPcs
  <2> QED BY <1>2, <2>1, ZStopKeeps, Zenon
<1> QED BY <1>1, <1>2, Zenon DEF Put

\* A part of a sequence of bytes.
LEMMA PartOf ==
  ASSUME NEW s \in Seq(Byte), NEW i \in Nat, NEW n \in Nat, i + n <= Len(s)
  PROVE  SubSeq(s, i + 1, i + n) \in Seq(Byte)
<1>1. \A j \in 1..Len(s) : s[j] \in Byte
  OBVIOUS
<1> QED BY <1>1

\* stbi__parse_uncompressed_block: the length that it reads is a length, even
\* where the header runs past the end of the input, and what it copies is input.
LEMMA StoredKeeps ==
  ASSUME Bytes, ZTyped, NEW r \in Readers, NEW final, parse_uncompressed_block(r, final)
  PROVE  ZTyped'
<1> DEFINE at == r.at
           nb == r.nb
           ph == r.ph
           L == Len(input)
           b == nb \div 8
           P(i) == at + (ph \div 8) - b + i
           h == [i \in 1..4 |-> IF P(i) <= L THEN input[P(i)] ELSE 0]
           M == {4 - b, 0}
           T == {at + Max(M), L}
           after == Min(T)
           len == h[2] * 256 + h[1]
           e == [r EXCEPT !.at = after + len, !.nb = 0, !.ph = 0]
           part == SubSeq(input, after + 1, after + len)
<1>1. at \in 0..L /\ nb \in 0..32 /\ ph \in Nat /\ nb <= 8 * at + ph
  BY ReaderFields, Zenon
<1>2. r \in [at : 0..L, nb : 0..32, ph : Nat, zeof : BOOLEAN]
  BY Zenon DEF Readers
<1>3. zfail \/ (~ (after + len > L) /\ Put(part, e, AfterBlock(final)))
  BY Zenon DEF parse_uncompressed_block
<1>4. L \in Nat /\ \A p \in 1..L : input[p] \in Byte
  BY DEF Bytes
<1> HIDE DEF at, nb, ph, L
<1>5. b \in 0..4 /\ 8 * b <= nb
  BY <1>1
<1> HIDE DEF b
<1>6. at + (ph \div 8) - b \in Nat
  BY <1>1, <1>4, <1>5
<1>7. h[1] \in Byte /\ h[2] \in Byte
  <2>1. ASSUME NEW i \in 1..4 PROVE h[i] \in Byte
    <3>1. P(i) \in Nat /\ P(i) >= 1
      BY <1>6
    <3>2. h[i] = IF P(i) <= L THEN input[P(i)] ELSE 0
      BY Zenon
    <3> HIDE DEF P, h
    <3>3. 0 \in Byte
      BY DEF Byte
    <3>4. P(i) <= L => P(i) \in 1..L
      BY <1>4, <3>1
    <3> QED BY <1>4, <3>2, <3>3, <3>4, Zenon
  <2>2. 1 \in 1..4 /\ 2 \in 1..4
    OBVIOUS
  <2> HIDE DEF h
  <2> QED BY <2>1, <2>2, Zenon
<1>8. len \in Nat
  <2>1. \A x, y \in Byte : y * 256 + x \in Nat
    BY DEF Byte
  <2> HIDE DEF h
  <2> QED BY <1>7, <2>1, Zenon
<1> HIDE DEF len
<1>9. Max(M) \in M
  <2>1. \E x \in M : \A y \in M : x >= y
    BY <1>5
  <2> HIDE DEF M
  <2> QED BY <2>1, Zenon DEF Max
<1>10. \E x \in M : \A y \in M : x >= y
  BY <1>5
<1>11. Max(M) \in Nat
  <2>1. \A y \in M : Max(M) >= y
    <3> HIDE DEF M
    <3> QED BY <1>10, Zenon DEF Max
  <2> QED BY <1>5, <1>9, <2>1
<1> HIDE DEF M
<1>12. T \subseteq Nat /\ T # {} /\ L \in T
  BY <1>1, <1>4, <1>11
<1> HIDE DEF T
<1>13. after \in T /\ after <= L
  BY <1>12, MinIsLeast, Zenon
<1>14. after \in 0..L
  <2>1. after \in Nat
    BY <1>12, <1>13, Zenon
  <2> HIDE DEF after
  <2> QED BY <1>4, <1>13, <2>1
<1> HIDE DEF after
<1>15. CASE zfail
  <2>1. "fail" \in ZPcs
    BY Zenon DEF ZPcs
  <2> QED BY <1>15, <2>1, ZStopKeeps, Zenon DEF zfail
<1>16. CASE ~ (after + len > L) /\ Put(part, e, AfterBlock(final))
  <2>1. after + len \in 0..L /\ after \in Nat /\ 0 <= 8 * (after + len) + 0
    BY <1>4, <1>8, <1>14, <1>16
  <2>2. e \in [at : 0..L, nb : 0..32, ph : Nat, zeof : BOOLEAN]
    <3> DEFINE x == after + len
               A == 0..L
               B == 0..32
    <3>1. x \in A /\ e = [r EXCEPT !.at = x, !.nb = 0, !.ph = 0] /\ 0 \in Nat
      BY <2>1
    <3>2. 0 \in B
      OBVIOUS
    <3>3. r \in [at : A, nb : B, ph : Nat, zeof : BOOLEAN]
      BY <1>2, Zenon
    <3> HIDE DEF x, A, B
    <3>4. e \in [at : A, nb : B, ph : Nat, zeof : BOOLEAN]
      BY <3>1, <3>2, <3>3
    <3> QED BY <3>4, Zenon DEF A, B
  <2>3. e.at = after + len /\ e.nb = 0 /\ e.ph = 0
    BY <1>2
  <2>4. e \in Readers
    <3> HIDE DEF e
    <3> QED BY <2>1, <2>2, <2>3, Zenon DEF Readers, L
  <2>5. part \in Seq(Byte)
    <3>1. after + len <= L
      BY <1>4, <2>1
    <3> QED BY <1>8, <2>1, <3>1, PartOf, Zenon DEF Bytes, L
  <2>6. AfterBlock(final) \in ZPcs
    BY Zenon DEF AfterBlock, ZPcs
  <2> HIDE DEF e, part
  <2> QED BY <1>16, <2>4, <2>5, <2>6, PutKeeps, Zenon
<1> QED BY <1>3, <1>15, <1>16, Zenon

\* The zlib header is two bytes of an input that has more.
LEMMA HeaderKeeps == Bytes /\ ZTyped /\ parse_zlib_header => ZTyped'
<1> SUFFICES ASSUME Bytes, ZTyped, parse_zlib_header PROVE ZTyped'
  BY Zenon
<1>1. "fail" \in ZPcs /\ "block" \in ZPcs
  BY Zenon DEF ZPcs
<1>2. CASE zfail
  BY <1>1, <1>2, ZStopKeeps, Zenon DEF zfail
<1>3. CASE ~ (Len(input) <= 2) /\ z' = [z EXCEPT !.at = 2] /\ zpc' = "block" /\ UNCHANGED <<input, zout, zcap, blk>>
  <2> DEFINE A == 0..Len(input)
             B == 0..32
             nb == z.nb
             ph == z.ph
             e == [z EXCEPT !.at = 2]
  <2>1. z \in Readers
    BY Zenon DEF ZTyped
  <2>2. z \in [at : A, nb : B, ph : Nat, zeof : BOOLEAN]
    BY <2>1, Zenon DEF Readers
  <2>3. Len(input) \in Nat
    BY DEF Bytes
  <2>4. 2 \in A
    BY <1>3, <2>3
  <2> HIDE DEF A, B
  <2>5. e \in [at : A, nb : B, ph : Nat, zeof : BOOLEAN] /\ e.at = 2 /\ e.nb = nb /\ e.ph = ph
    BY <2>2, <2>4
  <2>6. nb = 0
    <3>1. "header" \notin ZPcs
      BY Zenon DEF ZPcs
    <3> QED BY <3>1, Zenon DEF ZTyped, parse_zlib_header
  <2>7. nb <= 8 * 2 + ph
    <3>1. ph \in Nat
      BY <2>1, ReaderFields, Zenon
    <3> HIDE DEF nb, ph
    <3> QED BY <2>6, <3>1
  <2> HIDE DEF e, nb, ph
  <2>8. e \in Readers
    BY <2>5, <2>7, Zenon DEF Readers, A, B
  <2>9. z' \in Readers
    BY <1>3, <2>8, Zenon DEF e
  <2> QED BY <1>1, <1>3, <2>9, ReadKeeps, Zenon
<1> QED BY <1>2, <1>3, Zenon DEF parse_zlib_header

\* What a read leaves in the reader can be read on.
LEMMA ReceiveSmall ==
  ASSUME Bytes, NEW r \in Readers
  PROVE  \A n \in {1, 2, 3, 4, 5, 7} : zreceive(r, n).r \in Readers /\ zreceive(r, n).v \in Nat
<1>1. {1, 2, 3, 4, 5, 7} \subseteq 0..13
  OBVIOUS
<1> QED BY <1>1, ReceiveFits, Zenon

\* stbi__parse_zlib up to the type of a block, and what it does for each type.
LEMMA BlockKeeps == Bytes /\ ZTyped /\ parse_zlib => ZTyped'
<1> SUFFICES ASSUME Bytes, ZTyped, parse_zlib PROVE ZTyped'
  BY Zenon
<1> DEFINE final == zreceive(z, 1)
           type == zreceive(final.r, 2)
<1>1. "fail" \in ZPcs /\ "symbol" \in ZPcs /\ "lengths" \in ZPcs
  BY Zenon DEF ZPcs
<1>2. type.r \in Readers
  <2>1. z \in Readers
    BY Zenon DEF ZTyped
  <2>2. final.r \in Readers
    BY <2>1, ReceiveSmall, Zenon
  <2> HIDE DEF final
  <2> QED BY <2>2, ReceiveSmall, Zenon
<1>3. \/ parse_uncompressed_block([type.r EXCEPT !.nb = @ - (@ % 8)], final.v)
      \/ z' = type.r /\ zpc' = "symbol" /\ UNCHANGED <<input, zout, zcap>>
      \/ compute_huffman_codes(type.r, final.v)
      \/ zfail
  BY Zenon DEF parse_zlib
<1> DEFINE r == type.r
           f == final.v
<1>4. r \in Readers
  BY <1>2, Zenon
<1>5. \/ parse_uncompressed_block([r EXCEPT !.nb = @ - (@ % 8)], f)
      \/ z' = r /\ zpc' = "symbol" /\ UNCHANGED <<input, zout, zcap>>
      \/ compute_huffman_codes(r, f)
      \/ zfail
  BY <1>3, Zenon
<1> HIDE DEF r, f
<1>6. CASE parse_uncompressed_block([r EXCEPT !.nb = @ - (@ % 8)], f)
  <2> DEFINE nb == r.nb
             k == nb % 8
  <2>1. nb \in 0..32
    BY <1>4, ReaderFields, Zenon
  <2>2. k \in Nat /\ k <= nb
    <3> HIDE DEF nb
    <3> QED BY <2>1
  <2>3. [r EXCEPT !.nb = @ - k] \in Readers
    <3> HIDE DEF k
    <3> QED BY <1>4, <2>2, TakeFits, Zenon
  <2>4. [r EXCEPT !.nb = @ - (@ % 8)] = [r EXCEPT !.nb = @ - k]
    BY Zenon
  <2> QED BY <1>6, <2>3, <2>4, StoredKeeps, Zenon
<1>7. CASE z' = r /\ zpc' = "symbol" /\ UNCHANGED <<input, zout, zcap>>
  BY <1>1, <1>4, <1>7, ReadKeeps, Zenon
<1>8. CASE compute_huffman_codes(r, f)
  <2> DEFINE hlit == zreceive(r, 5)
             hdist == zreceive(hlit.r, 5)
             hclen == zreceive(hdist.r, 4)
             sizes == CodeLengthSizes(hclen.r, hclen.v + 4)
  <2>1. zfail \/ (z' = sizes.r /\ zpc' = "lengths" /\ UNCHANGED <<input, zout, zcap>>)
    BY <1>8, Zenon DEF compute_huffman_codes
  <2>2. hlit.r \in Readers
    BY <1>4, ReceiveSmall, Zenon
  <2> HIDE DEF hlit
  <2>3. hdist.r \in Readers
    BY <2>2, ReceiveSmall, Zenon
  <2> HIDE DEF hdist
  <2>4. hclen.r \in Readers /\ hclen.v \in Nat
    BY <2>3, ReceiveSmall, Zenon
  <2> HIDE DEF hclen
  <2>5. hclen.v + 4 \in Nat
    <3> DEFINE v == hclen.v
    <3>1. v \in Nat
      BY <2>4, Zenon
    <3> HIDE DEF v
    <3>2. v + 4 \in Nat
      BY <3>1
    <3> QED BY <3>2, Zenon DEF v
  <2>6. sizes.r \in Readers
    BY <2>4, <2>5, CodeLengthsFit, Zenon
  <2> HIDE DEF sizes
  <2>7. CASE zfail
    BY <1>1, <2>7, ZStopKeeps, Zenon DEF zfail
  <2>8. CASE z' = sizes.r /\ zpc' = "lengths" /\ UNCHANGED <<input, zout, zcap>>
    BY <1>1, <2>6, <2>8, ReadKeeps, Zenon
  <2> QED BY <2>1, <2>7, <2>8, Zenon
<1>9. CASE zfail
  BY <1>1, <1>9, ZStopKeeps, Zenon DEF zfail
<1> QED BY <1>5, <1>6, <1>7, <1>8, <1>9, Zenon

\* One symbol of the code-length code with its repeat count, or the tables.
LEMMA LengthsKeep == Bytes /\ ZTyped /\ code_length => ZTyped'
<1> SUFFICES ASSUME Bytes, ZTyped, code_length PROVE ZTyped'
  BY Zenon
<1> DEFINE c == zhuffman_decode(z, blk.codelength)
           more == CASE c.sym = 16 -> zreceive(c.r, 2)
                     [] c.sym = 17 -> zreceive(c.r, 3)
                     [] c.sym = 18 -> zreceive(c.r, 7)
                     [] OTHER -> [r |-> c.r, v |-> 0]
<1>1. "fail" \in ZPcs /\ "symbol" \in ZPcs /\ "lengths" \in ZPcs
  BY Zenon DEF ZPcs
<1>2. z \in Readers
  BY Zenon DEF ZTyped
<1>3. \/ zfail
      \/ z' = more.r /\ UNCHANGED <<input, zout, zcap, zpc>>
      \/ z' = z /\ zpc' = "symbol" /\ UNCHANGED <<input, zout, zcap>>
  BY Zenon DEF code_length
<1>4. c.r \in Readers
  BY <1>2, DecodeFits, Zenon
<1> HIDE DEF c
<1>5. more.r \in Readers
  <2>1. \A n \in {1, 2, 3, 4, 5, 7} : zreceive(c.r, n).r \in Readers
    BY <1>4, ReceiveSmall, Zenon
  <2>2. more = zreceive(c.r, 2) \/ more = zreceive(c.r, 3) \/ more = zreceive(c.r, 7) \/ more = [r |-> c.r, v |-> 0]
    <3> DEFINE a1 == zreceive(c.r, 2)
               a2 == zreceive(c.r, 3)
               a3 == zreceive(c.r, 7)
               a4 == [r |-> c.r, v |-> 0]
    <3> HIDE DEF a1, a2, a3, a4
    <3>1. more = CASE c.sym = 16 -> a1 [] c.sym = 17 -> a2 [] c.sym = 18 -> a3 [] OTHER -> a4
      BY DEF a1, a2, a3, a4
    <3> HIDE DEF more
    <3>2. more = a1 \/ more = a2 \/ more = a3 \/ more = a4
      BY <3>1
    <3> QED BY <3>2, Zenon DEF a1, a2, a3, a4
  <2> DEFINE s == c.r
  <2>3. [r |-> s, v |-> 0].r = s
    <3> HIDE DEF s
    <3> QED OBVIOUS
  <2> HIDE DEF more
  <2> QED BY <1>4, <2>1, <2>2, <2>3, Zenon
<1> HIDE DEF more
<1>6. zpc = "lengths"
  BY Zenon DEF code_length
<1>7. CASE zfail
  BY <1>1, <1>7, ZStopKeeps, Zenon DEF zfail
<1>8. CASE z' = more.r /\ UNCHANGED <<input, zout, zcap, zpc>>
  BY <1>1, <1>5, <1>6, <1>8, ReadKeeps, Zenon
<1>9. CASE z' = z /\ zpc' = "symbol" /\ UNCHANGED <<input, zout, zcap>>
  BY <1>1, <1>2, <1>9, ReadKeeps, Zenon
<1> QED BY <1>3, <1>7, <1>8, <1>9, Zenon

\* The tables of stb_image.h for lengths and distances: at most 13 extra bits,
\* and no distance of 0.
LEMMA ExtraBits ==
  /\ \A l \in 1..29 : zlength_extra[l] \in 0..13 /\ zlength_base[l] \in Nat
  /\ \A d \in 1..30 : zdist_extra[d] \in 0..13 /\ zdist_base[d] \in Nat \ {0}
<1>1. ASSUME NEW l \in 1..29 PROVE zlength_extra[l] \in 0..13
  BY DEF zlength_extra
<1>2. ASSUME NEW l \in 1..29 PROVE zlength_base[l] \in Nat
  BY DEF zlength_base
<1>3. ASSUME NEW d \in 1..30 PROVE zdist_extra[d] \in 0..13
  BY DEF zdist_extra
<1>4. ASSUME NEW d \in 1..30 PROVE zdist_base[d] \in Nat \ {0}
  BY DEF zdist_base
<1> QED BY <1>1, <1>2, <1>3, <1>4, Zenon

\* A match lies in the output that there is, also where it runs into the bytes
\* that it writes.
LEMMA CopyFits ==
  ASSUME zout \in Seq(Byte), NEW dist \in Nat \ {0}, dist <= Len(zout), NEW len \in Nat
  PROVE  Copied(dist, len) \in Seq(Byte)
<1> DEFINE from == Len(zout) - dist
           K(i) == from + ((i - 1) % dist) + 1
<1>1. Len(zout) \in Nat /\ \A j \in 1..Len(zout) : zout[j] \in Byte
  OBVIOUS
<1>2. ASSUME NEW i \in 1..len PROVE zout[K(i)] \in Byte
  <2>1. (i - 1) % dist \in 0..dist - 1
    OBVIOUS
  <2>2. K(i) \in 1..Len(zout)
    <3> DEFINE k == (i - 1) % dist
    <3>1. k \in 0..dist - 1
      BY <2>1
    <3> HIDE DEF k
    <3>2. from + k + 1 \in 1..Len(zout)
      BY <1>1, <3>1
    <3> QED BY <3>2, Zenon DEF k
  <2> HIDE DEF K
  <2> QED BY <1>1, <2>2, Zenon
<1>3. Copied(dist, len) = [i \in 1..len |-> zout[K(i)]]
  BY Zenon DEF Copied
<1> HIDE DEF K
<1>4. [i \in 1..len |-> zout[K(i)]] \in Seq(Byte)
  BY <1>2
<1> QED BY <1>3, <1>4, Zenon

\* One symbol of a compressed block: a byte, the end of the block, or a match
\* that is no longer than the room that is made for it.
LEMMA SymbolKeeps == Bytes /\ ZTyped /\ parse_huffman_block => ZTyped'
<1> SUFFICES ASSUME Bytes, ZTyped, parse_huffman_block PROVE ZTyped'
  BY Zenon
<1> DEFINE s == zhuffman_decode(z, blk.length)
           sym == s.sym
           l == sym - 256
           len == zreceive(s.r, zlength_extra[l])
           d == zhuffman_decode(len.r, blk.distance)
           dsym == d.sym
           dist == zreceive(d.r, zdist_extra[dsym + 1])
           back == zdist_base[dsym + 1] + dist.v
           length == zlength_base[l] + len.v
           match == /\ sym \in 257..285
                    /\ dsym \in 0..29
                    /\ ~ (Len(zout) < back)
                    /\ Put(Copied(back, length), dist.r, "symbol")
<1>1. "fail" \in ZPcs /\ "symbol" \in ZPcs /\ AfterBlock(blk.final) \in ZPcs
  BY Zenon DEF ZPcs, AfterBlock
<1>2. z \in Readers /\ zout \in Seq(Byte)
  BY Zenon DEF ZTyped
<1>3. \/ zfail
      \/ sym \in 0..255 /\ Put(<<sym>>, s.r, "symbol")
      \/ z' = s.r /\ zpc' = AfterBlock(blk.final) /\ UNCHANGED <<input, zout, zcap, blk>>
      \/ match
  <2> DEFINE put == Put(<<sym>>, s.r, "symbol")
             copy == Put(Copied(back, length), dist.r, "symbol")
             end == z' = s.r /\ zpc' = AfterBlock(blk.final) /\ UNCHANGED <<input, zout, zcap, blk>>
             far == Len(zout) < back
  <2>1. \/ sym < 0 /\ zfail
        \/ sym \in 0..255 /\ put
        \/ sym = 256 /\ IF s.r.zeof /\ s.r.nb < 16 THEN zfail ELSE end
        \/ sym >= 286 /\ zfail
        \/ sym \in 257..285 /\ IF dsym \notin 0..29 THEN zfail ELSE IF far THEN zfail ELSE copy
    BY Zenon DEF parse_huffman_block
  <2>2. match <=> sym \in 257..285 /\ dsym \in 0..29 /\ ~ far /\ copy
    BY Zenon
  <2>3. ASSUME sym \in 0..255, put PROVE sym \in 0..255 /\ Put(<<sym>>, s.r, "symbol")
    BY <2>3, Zenon
  <2> HIDE DEF match, put, copy, far, s, sym, dsym
  <2>4. zfail \/ (sym \in 0..255 /\ put) \/ end \/ match
    BY <2>1, <2>2, Zenon
  <2> QED BY <2>3, <2>4, Zenon
<1>4. s.r \in Readers
  BY <1>2, DecodeFits, Zenon
<1>5. CASE zfail
  BY <1>1, <1>5, ZStopKeeps, Zenon DEF zfail
<1>6. CASE sym \in 0..255 /\ Put(<<sym>>, s.r, "symbol")
  <2>1. <<sym>> \in Seq(Byte)
    <3>1. sym \in Byte
      BY <1>6, Zenon DEF Byte
    <3> HIDE DEF sym
    <3> QED BY <3>1
  <2> HIDE DEF s, sym
  <2> QED BY <1>1, <1>4, <1>6, <2>1, PutKeeps, Zenon
<1>7. CASE z' = s.r /\ zpc' = AfterBlock(blk.final) /\ UNCHANGED <<input, zout, zcap, blk>>
  <2> HIDE DEF s
  <2> QED BY <1>1, <1>4, <1>7, ReadKeeps, Zenon
<1>8. CASE match
  <2>1. l \in 1..29 /\ dsym + 1 \in 1..30
    <3>1. sym \in 257..285 /\ dsym \in 0..29
      BY <1>8, Zenon
    <3> HIDE DEF sym, dsym
    <3> QED BY <3>1
  <2>2. ~ (Len(zout) < back) /\ Put(Copied(back, length), dist.r, "symbol")
    BY <1>8, Zenon
  <2> HIDE DEF s, sym, l, match
  <2>3. len.r \in Readers /\ len.v \in Nat /\ zlength_base[l] \in Nat
    BY <1>4, <2>1, ExtraBits, ReceiveFits, Zenon
  <2> HIDE DEF len
  <2>4. d.r \in Readers
    BY <2>3, DecodeFits, Zenon
  <2> HIDE DEF d, dsym
  <2>5. dist.r \in Readers /\ dist.v \in Nat /\ zdist_base[dsym + 1] \in Nat \ {0}
    BY <2>1, <2>4, ExtraBits, ReceiveFits, Zenon
  <2> HIDE DEF dist
  <2>6. back \in Nat \ {0} /\ length \in Nat
    <3>1. \A x \in Nat \ {0}, y \in Nat : x + y \in Nat \ {0}
      OBVIOUS
    <3>2. \A x, y \in Nat : x + y \in Nat
      OBVIOUS
    <3> QED BY <2>3, <2>5, <3>1, <3>2, Zenon
  <2> HIDE DEF back, length
  <2>7. back <= Len(zout)
    <3>1. Len(zout) \in Nat
      BY <1>2
    <3> QED BY <2>2, <2>6, <3>1
  <2>8. Copied(back, length) \in Seq(Byte)
    BY <1>2, <2>6, <2>7, CopyFits, Zenon
  <2> QED BY <1>1, <2>2, <2>5, <2>8, PutKeeps, Zenon
<1> QED BY <1>3, <1>5, <1>6, <1>7, <1>8, Zenon

\* The inflater leaves its input alone.
LEMMA InputStays == zNext => input' = input
<1> SUFFICES ASSUME zNext PROVE input' = input
  BY Zenon
<1>1. \A reason : zstop(reason) => input' = input
  BY Zenon DEF zstop
<1>2. \A bytes, r, pc : Put(bytes, r, pc) => input' = input
  BY <1>1, Zenon DEF Put
<1>3. zfail => input' = input
  BY <1>1, Zenon DEF zfail
<1>4. CASE parse_zlib_header
  BY <1>3, <1>4, Zenon DEF parse_zlib_header
<1>5. CASE parse_zlib
  <2>1. ASSUME NEW r, NEW f, parse_uncompressed_block(r, f) PROVE input' = input
    <3> DEFINE b == r.nb \div 8
               h == [i \in 1..4 |-> LET p == r.at + (r.ph \div 8) - b + i
                                    IN IF p <= Len(input) THEN input[p] ELSE 0]
               after == Min({r.at + Max({4 - b, 0}), Len(input)})
               len == h[2] * 256 + h[1]
               e == [r EXCEPT !.at = after + len, !.nb = 0, !.ph = 0]
               part == SubSeq(input, after + 1, after + len)
    <3>1. zfail \/ Put(part, e, AfterBlock(f))
      BY <2>1, Zenon DEF parse_uncompressed_block
    <3> HIDE DEF part, e
    <3> QED BY <1>2, <1>3, <3>1, Zenon
  <2>2. \A r, f : compute_huffman_codes(r, f) => input' = input
    BY <1>3, Zenon DEF compute_huffman_codes
  <2> QED BY <1>3, <1>5, <2>1, <2>2, Zenon DEF parse_zlib
<1>6. CASE code_length
  BY <1>3, <1>6, Zenon DEF code_length
<1>7. CASE parse_huffman_block
  BY <1>2, <1>3, <1>7, Zenon DEF parse_huffman_block
<1> QED BY <1>4, <1>5, <1>6, <1>7, Zenon DEF zNext

\* A header that was accepted gives sizes that are natural numbers.
Sized == ~ png.first => png.x \in Nat /\ png.y \in Nat /\ png.n \in Nat /\ png.depth \in Nat

\* The size guessed for the output is one.
LEMMA GuessIsSize ==
  ASSUME Sized, ~ png.first
  PROVE  RawGuess \in Nat
<1> DEFINE x == png.x
           y == png.y
           n == png.n
           depth == png.depth
<1>1. x \in Nat /\ y \in Nat /\ n \in Nat /\ depth \in Nat
  BY Zenon DEF Sized
<1>2. RawGuess = ((x * depth + 7) \div 8) * y * n + y
  BY Zenon DEF RawGuess
<1> HIDE DEF x, y, n, depth
<1>3. \A a, b \in Nat : a * b \in Nat /\ a + b \in Nat /\ (a + 7) \div 8 \in Nat
  OBVIOUS
<1>4. ((x * depth + 7) \div 8) * y * n + y \in Nat
  BY <1>1, <1>3, Zenon
<1> QED BY <1>2, <1>4, Zenon

\* do_zlib begins with a reader in order and an empty buffer.
LEMMA DoZlibStarts ==
  ASSUME NEW bytes, NEW n \in Nat, NEW header, do_zlib(bytes, n, header)
  PROVE  Bytes' => ZTyped'
<1> SUFFICES ASSUME Bytes' PROVE ZTyped'
  BY Zenon
<1> DEFINE e == [at |-> 0, nb |-> 0, ph |-> 0, zeof |-> FALSE]
           A == 0..Len(input')
           B == 0..32
<1>1. z' = e /\ zout' = <<>> /\ zcap' = n /\ (zpc' = "header" \/ zpc' = "block")
  BY Zenon DEF do_zlib
<1>2. e.nb = 0 /\ e.at = 0 /\ e.ph = 0
  BY Zenon
<1>3. Len(input') \in Nat
  BY DEF Bytes
<1>4. 0 \in A /\ 0 \in B
  BY <1>3
<1>5. e \in [at : A, nb : B, ph : Nat, zeof : BOOLEAN]
  <2> HIDE DEF A, B
  <2> QED BY <1>4
<1>6. 0 <= 8 * 0 + 0
  OBVIOUS
<1> HIDE DEF e
<1>7. e \in Readers'
  BY <1>2, <1>5, <1>6, Zenon DEF Readers
<1>8. zout' \in Seq(Byte) /\ Len(zout') <= zcap'
  BY <1>1
<1>9. zpc' = "block" => zpc' \in ZPcs
  BY Zenon DEF ZPcs
<1> QED BY <1>1, <1>2, <1>7, <1>8, <1>9, Zenon DEF ZTyped

\* Every step of the program keeps what the inflater needs.
LEMMA InflaterKeeps ==
  HeapInv /\ Sized /\ (Bytes => ZTyped) /\ [Next]_vars => (Bytes' => ZTyped')
<1> SUFFICES ASSUME HeapInv, Sized, Bytes => ZTyped, [Next]_vars PROVE Bytes' => ZTyped'
  BY Zenon
<1>1. CASE UNCHANGED zvars
  BY <1>1, Zenon DEF zvars, Bytes, ZTyped, Readers
<1>2. CASE IEND
  <2>1. CASE UNCHANGED zvars
    BY <1>1, <2>1, Zenon
  <2>2. CASE ~ png.first /\ do_zlib(png.idata, RawGuess, ~ png.is_iphone)
    BY <2>2, GuessIsSize, DoZlibStarts, Zenon
  <2> QED BY <1>2, <2>1, <2>2, Zenon DEF IEND
<1>3. CASE inflate
  <2>1. zNext
    BY <1>3, Zenon DEF inflate
  <2>2. Bytes' => Bytes
    BY <2>1, InputStays, Zenon DEF Bytes
  <2> QED BY <2>1, <2>2, HeaderKeeps, BlockKeeps, LengthsKeep, SymbolKeeps, Zenon DEF zNext
<1>4. CASE inflated
  <2> DEFINE e == [at |-> 0, nb |-> 0, ph |-> 0, zeof |-> FALSE]
  <2>1. input' = <<>> /\ zout' = <<>> /\ zcap' = 0 /\ zpc' = "idle" /\ z' = e
    BY <1>4, Zenon DEF inflated
  <2>2. e.nb = 0 /\ e.at = 0 /\ e.ph = 0 /\ 0 <= 8 * 0 + 0
    OBVIOUS
  <2>3. e \in [at : 0..Len(input'), nb : 0..32, ph : Nat, zeof : BOOLEAN]
    BY <2>1
  <2> HIDE DEF e
  <2>4. e \in Readers'
    BY <2>2, <2>3, Zenon DEF Readers
  <2>5. zout' \in Seq(Byte) /\ Len(zout') <= zcap'
    BY <2>1
  <2> QED BY <2>1, <2>4, <2>5, Zenon DEF ZTyped, ZPcs
<1>5. decode_png => UNCHANGED zvars \/ IEND \/ inflate \/ inflated
  BY Zenon DEF decode_png, pNext, inflate_failed
<1>6. load_png \/ load_bmp \/ unknown_image_type \/ decode_bmp \/ facet_image_free => UNCHANGED zvars
  BY Zenon DEF load_png, load_bmp, unknown_image_type, decode_bmp, facet_image_free
<1>7. write_png_to_mem \/ write_symbol \/ done \/ UNCHANGED vars => UNCHANGED zvars
  BY Zenon DEF write_png_to_mem, write_symbol, done, vars
<1> QED BY <1>1, <1>2, <1>3, <1>4, <1>5, <1>6, <1>7, Zenon DEF Next

\* The buffers that the cleanup frees are buffers of the loaders.
LEMMA OwnKeeps == own \subseteq Buffers /\ [Next]_vars => own' \subseteq Buffers
<1> SUFFICES ASSUME own \subseteq Buffers, [Next]_vars PROVE own' \subseteq Buffers
  BY Zenon
<1>1. CASE UNCHANGED own \/ own' = {}
  BY <1>1, Zenon
<1>2. \A reason, held : png_stop(reason, held) => own' = {}
  BY Zenon DEF png_stop
<1>3. png_fail \/ png_nomem => own' = {}
  BY <1>2, Zenon DEF png_fail, png_nomem
<1>4. \A p : NextChunkOnly(p) => UNCHANGED own
  BY Zenon DEF NextChunkOnly
<1>5. CgBI \/ IHDR \/ PLTE \/ tRNS \/ skip_chunk \/ bad_chunk => UNCHANGED own \/ own' = {}
  <2>1. CgBI \/ IHDR => UNCHANGED own \/ own' = {}
    BY <1>3, <1>4, Zenon DEF CgBI, IHDR
  <2>2. PLTE => UNCHANGED own \/ own' = {}
    BY <1>3, <1>4, Zenon DEF PLTE
  <2>3. tRNS => UNCHANGED own \/ own' = {}
    BY <1>3, <1>4, Zenon DEF tRNS
  <2>4. skip_chunk \/ bad_chunk => UNCHANGED own \/ own' = {}
    BY <1>3, <1>4, Zenon DEF skip_chunk, bad_chunk
  <2> QED BY <2>1, <2>2, <2>3, <2>4, Zenon
<1>6. CASE IDAT
  <2>1. own' = {} \/ own' = own \/ own' = own \cup ({"idata"} \ own)
    BY <1>3, <1>6, Zenon DEF IDAT
  <2> QED BY <2>1, Zenon DEF Buffers
<1>7. IEND \/ inflate \/ inflate_failed => UNCHANGED own \/ own' = {}
  BY <1>2, <1>3, Zenon DEF IEND, inflate, inflate_failed, lvars
<1>8. CASE inflated
  <2>1. own' = {} \/ own' = {"expanded"}
    BY <1>2, <1>8, Zenon DEF inflated
  <2> QED BY <2>1, Zenon DEF Buffers
<1>9. CASE start_pass
  <2>1. own' = own \/ own' = {} \/ own' = {"expanded", "raw"}
    BY <1>2, <1>9, Zenon DEF start_pass
  <2> QED BY <2>1, Zenon DEF Buffers
<1>10. row \/ end_pass \/ post => UNCHANGED own \/ own' = {}
  BY <1>2, Zenon DEF row, end_pass, post, png_end
<1>11. CASE decode_png
  BY <1>1, <1>5, <1>6, <1>7, <1>8, <1>9, <1>10, <1>11, Zenon DEF decode_png, pNext
<1>12. load_bmp \/ decode_bmp => UNCHANGED own
  BY Zenon DEF load_bmp, bmp_load, bmp_stop, decode_bmp, bmp_row, bmp_done
<1>13. load_png \/ unknown_image_type \/ facet_image_free => UNCHANGED own
  BY Zenon DEF load_png, png_load, unknown_image_type, facet_image_free
<1>14. write_png_to_mem \/ write_symbol \/ done \/ UNCHANGED vars => UNCHANGED own
  BY Zenon DEF write_png_to_mem, write_symbol, done, vars, lvars
<1> QED BY <1>1, <1>11, <1>12, <1>13, <1>14, Zenon DEF Next

\* No step after IHDR changes the sizes that it gave.
LEMMA SizedKeeps == HeapInv /\ Sized /\ [Next]_vars => Sized'
<1> SUFFICES ASSUME HeapInv, Sized, [Next]_vars PROVE Sized'
  BY Zenon
<1> DEFINE Same(p) == p.first = png.first /\ p.x = png.x /\ p.y = png.y /\ p.n = png.n /\ p.depth = png.depth
<1>1. CASE UNCHANGED png
  BY <1>1, Zenon DEF Sized
<1>2. CASE \E p : png' = p /\ Same(p)
  BY <1>2, Zenon DEF Sized
<1>3. DOMAIN png = PngFields
  BY Zenon DEF HeapInv
<1>4. \A reason, held : png_stop(reason, held) => UNCHANGED png
  BY Zenon DEF png_stop
<1>5. png_fail \/ png_nomem => UNCHANGED png
  BY <1>4, Zenon DEF png_fail, png_nomem
<1>6. \A p : NextChunk(p) \/ NextChunkOnly(p) => png' = p
  BY Zenon DEF NextChunk, NextChunkOnly
<1>7. CASE CgBI
  <2>1. Same([png EXCEPT !.is_iphone = TRUE])
    BY <1>3, Zenon DEF PngFields
  <2> HIDE DEF Same
  <2> QED BY <1>2, <1>6, <1>7, <2>1, Zenon DEF CgBI
<1>8. CASE IHDR
  <2> DEFINE h == Chunk.body
             p == [png EXCEPT !.first = FALSE, !.x = h.x, !.y = h.y,
                     !.n = Components(h.color), !.depth = h.depth, !.color = h.color,
                     !.interlace = h.interlace, !.pal_img_n = IF h.color = 3 THEN 3 ELSE 0]
  <2>1. UNCHANGED png \/ (HeaderOk(h) /\ png' = p)
    BY <1>5, <1>6, <1>8, Zenon DEF IHDR
  <2>2. CASE HeaderOk(h) /\ png' = p
    <3>1. p.x = h.x /\ p.y = h.y /\ p.n = Components(h.color) /\ p.depth = h.depth
      BY <1>3, Zenon DEF PngFields
    <3>2. h.x \in 1..MAX_DIMENSIONS /\ h.y \in 1..MAX_DIMENSIONS /\ h.depth \in {1, 2, 4, 8, 16}
      BY <2>2, Zenon DEF HeaderOk
    <3>3. 1..MAX_DIMENSIONS \subseteq Nat /\ {1, 2, 4, 8, 16} \subseteq Nat
      BY DimensionsAssumption
    <3>4. Components(h.color) \in Nat
      <4> DEFINE c == h.color
      <4> HIDE DEF c
      <4>1. Components(c) \in Nat
        BY DEF Components
      <4> QED BY <4>1, Zenon DEF c
    <3> HIDE DEF p, h
    <3> QED BY <2>2, <3>1, <3>2, <3>3, <3>4, Zenon DEF Sized
  <2> QED BY <1>1, <2>1, <2>2, Zenon
<1>9. CASE PLTE
  <2> DEFINE n == Chunk.length \div 3
             p == [png EXCEPT !.pal_len = n,
                     !.palette = [i \in 1..n |-> <<At(3 * i - 2), At(3 * i - 1), At(3 * i), 255>>]
                                   \o SubSeq(@, n + 1, Len(@))]
  <2>1. UNCHANGED png \/ png' = p
    BY <1>5, <1>6, <1>9, Zenon DEF PLTE
  <2>2. Same(p)
    BY <1>3, Zenon DEF PngFields
  <2> HIDE DEF Same, p
  <2> QED BY <1>1, <1>2, <2>1, <2>2, Zenon
<1>10. CASE tRNS
  <2> DEFINE n == Chunk.length
             Value(k) == At(2 * k - 1) * 256 + At(2 * k)
             alpha == [png EXCEPT !.pal_img_n = 4,
                         !.palette = [i \in DOMAIN @ |->
                                        IF i <= n THEN [@[i] EXCEPT ![4] = At(i)] ELSE @[i]]]
             trans == [png EXCEPT !.has_trans = TRUE,
                         !.tc = [k \in 1..png.n |->
                                   IF png.depth = 16 THEN Value(k)
                                   ELSE ((Value(k) % 256) * depth_scale(png.depth)) % 256]]
  <2>1. UNCHANGED png \/ png' = alpha \/ png' = trans
    BY <1>5, <1>6, <1>10, Zenon DEF tRNS
  <2>2. Same(alpha)
    BY <1>3, Zenon DEF PngFields
  <2>3. Same(trans)
    BY <1>3, Zenon DEF PngFields
  <2> HIDE DEF Same, alpha, trans
  <2> QED BY <1>1, <1>2, <2>1, <2>2, <2>3, Zenon
<1>11. CASE IDAT
  <2> DEFINE need == Len(png.idata) + Chunk.length
             limit == Doubled(IF png.limit > 0 THEN png.limit ELSE Max({Chunk.length, FirstIdata}), need)
             p == [png EXCEPT !.idata = @ \o SubSeq(Chunk.body, 1, Chunk.length),
                              !.limit = IF need > png.limit THEN limit ELSE @]
  <2>1. UNCHANGED png \/ png' = p
    BY <1>5, <1>6, <1>11, Zenon DEF IDAT
  <2>2. Same(p)
    BY <1>3, Zenon DEF PngFields
  <2> HIDE DEF Same, p
  <2> QED BY <1>1, <1>2, <2>1, <2>2, Zenon
<1>12. skip_chunk \/ bad_chunk => UNCHANGED png
  BY <1>5, <1>6, Zenon DEF skip_chunk, bad_chunk
<1>13. CASE inflated
  <2> DEFINE out_n == IF (req_comp = png.n + 1 /\ req_comp # 3 /\ png.pal_img_n = 0) \/ png.has_trans
                      THEN png.n + 1 ELSE png.n
             p == [png EXCEPT !.out_n = out_n, !.idata = <<>>, !.limit = 0]
  <2>1. UNCHANGED png \/ png' = p
    BY <1>4, <1>13, Zenon DEF inflated
  <2>2. Same(p)
    <3> HIDE DEF out_n
    <3> QED BY <1>3, Zenon DEF PngFields
  <2> HIDE DEF Same, p
  <2> QED BY <1>1, <1>2, <2>1, <2>2, Zenon
<1>14. IEND \/ inflate \/ inflate_failed => UNCHANGED png
  BY <1>4, <1>5, Zenon DEF IEND, inflate, inflate_failed, pvars
<1>15. start_pass \/ row \/ end_pass \/ post => UNCHANGED png
  BY <1>4, Zenon DEF start_pass, row, end_pass, post, png_end
<1>16. CASE decode_png
  BY <1>1, <1>7, <1>8, <1>9, <1>10, <1>11, <1>12, <1>13, <1>14, <1>15, <1>16, Zenon DEF decode_png, pNext
<1>17. load_bmp \/ decode_bmp \/ load_png \/ unknown_image_type \/ facet_image_free => UNCHANGED png
  BY Zenon DEF load_bmp, decode_bmp, load_png, png_load, unknown_image_type, facet_image_free, pvars
<1>18. write_png_to_mem \/ write_symbol \/ done \/ UNCHANGED vars => UNCHANGED png
  BY Zenon DEF write_png_to_mem, write_symbol, done, vars, pvars
<1> QED BY <1>1, <1>16, <1>17, <1>18, Zenon DEF Next

-----------------------------------------------------------------------------
(* What always holds.                                                        *)

\* A set that holds nothing, or one buffer, is as large as that.
LEMMA HeldCount ==
  ASSUME NEW h, NEW S, Holds(h, S), S \subseteq Buffers
  PROVE  {b \in Buffers : h[b] > 0} = S
BY DEF Holds

INSTANCE FiniteSetTheorems

\* Whatever bytes a PNG or BMP file holds, whichever allocation fails and
\* wherever the decoder gives up, stbi__do_png and stbi__bmp_load free what
\* they allocated, once: no path frees a buffer twice, allocates over one that
\* is held, or leaves one behind but the result and what stbi__convert_16_to_8
\* keeps.
THEOREM HeapAlwaysSound == Spec => []HeapSound
<1>1. HeapInv => HeapSound
  <2> SUFFICES ASSUME HeapInv PROVE HeapSound
    BY Zenon
  <2> DEFINE held == {b \in Buffers : heap[b] > 0}
  <2>1. \A b \in Buffers : heap[b] \in {0, 1}
    <3>1. \E S : Holds(heap, S)
      BY Zenon DEF HeapInv
    <3> QED BY <3>1 DEF Holds
  <2>2. Cardinality({}) = 0 /\ \A b \in Buffers : Cardinality({b}) = 1
    BY FS_EmptySet, FS_Singleton, Zenon
  <2>c. \A S : S \subseteq Buffers /\ Holds(heap, S) => held = S
    BY HeldCount, Zenon
  <2>3. Holds(heap, {}) => held = {} /\ Cardinality(held) = 0
    <3>1. {} \subseteq Buffers
      BY Zenon
    <3> HIDE DEF held
    <3> QED BY <2>2, <2>c, <3>1, Zenon
  <2>4. \A b \in Buffers : Holds(heap, {b}) => Cardinality(held) = 1
    <3>1. \A b \in Buffers : {b} \subseteq Buffers
      BY Zenon
    <3> HIDE DEF held
    <3> QED BY <2>2, <2>c, <3>1, Zenon
  <2> HIDE DEF held
  <2>5. lpc = "ok" => Cardinality(held) <= 1
    <3>1. lpc = "ok" => Cardinality(held) = 0 \/ Cardinality(held) = 1
      BY <2>3, <2>4, Zenon DEF HeapInv
    <3> QED BY <3>1
  <2>6. lpc = "fail" => held = {}
    BY <2>3 DEF HeapInv
  <2>7. lpc = "outofmem" => held = {} \/ (png.depth = 16 /\ Cardinality(held) = 1)
    BY <2>3, <2>4, Zenon DEF HeapInv
  <2> QED BY <2>1, <2>5, <2>6, <2>7 DEF HeapSound, held
<1> QED BY <1>1, HeapInit, HeapNext, PTL DEF Spec


\* What the proof of TypeOK carries along.
TypeInv == HeapInv /\ own \subseteq Buffers /\ Sized /\ (Bytes => ZTyped)

\* It holds before a loader runs.
LEMMA TypeInit == Init => TypeInv
<1> SUFFICES ASSUME Init PROVE TypeInv
  BY Zenon
<1> DEFINE e == [at |-> 0, nb |-> 0, ph |-> 0, zeof |-> FALSE]
<1>1. own = {} /\ png.first
  BY Zenon DEF Init, NoPng
<1>2. input = <<>> /\ z = e /\ zout = <<>> /\ zcap = 0 /\ zpc = "idle"
  BY Zenon DEF Init, zIdle
<1>3. e.nb = 0 /\ e.at = 0 /\ e.ph = 0 /\ 0 <= 8 * 0 + 0
  OBVIOUS
<1>4. e \in [at : 0..Len(input), nb : 0..32, ph : Nat, zeof : BOOLEAN]
  BY <1>2
<1> HIDE DEF e
<1>5. e \in Readers
  BY <1>3, <1>4, Zenon DEF Readers
<1>6. zout \in Seq(Byte) /\ Len(zout) <= zcap
  BY <1>2
<1>7. ZTyped
  BY <1>2, <1>5, <1>6, Zenon DEF ZTyped, ZPcs
<1> QED BY <1>1, <1>7, HeapInit, Zenon DEF TypeInv, Sized

\* The inflater never outruns its output buffer, which stbi__zexpand enlarges
\* before a byte, a match or a stored block is written, nor its bit buffer of 32
\* bits, also past the end of the input; and the loaders stay among their
\* states and buffers.  This is so for whatever bytes the IDAT chunks hold.
THEOREM AlwaysTyped == Spec => [](Bytes => TypeOK)
<1>1. TypeInv /\ [Next]_vars => TypeInv'
  BY HeapNext, OwnKeeps, SizedKeeps, InflaterKeeps, Zenon DEF TypeInv
<1>2. TypeInv => (Bytes => TypeOK)
  <2> SUFFICES ASSUME TypeInv, Bytes PROVE TypeOK
    BY Zenon
  <2>1. HeapInv /\ own \subseteq Buffers /\ ZTyped
    BY Zenon DEF TypeInv
  <2>2. heap \in [Buffers -> Int]
    <3>1. \E S : Holds(heap, S)
      BY <2>1, Zenon DEF HeapInv
    <3> QED BY <3>1 DEF Holds
  <2>3. z.nb \in 0..32
    BY <2>1, ReaderFields, Zenon DEF ZTyped
  <2> QED BY <2>1, <2>2, <2>3, Zenon DEF TypeOK, HeapInv, ZTyped, ZPcs
<1> QED BY <1>1, <1>2, TypeInit, PTL DEF Spec

\* What the inflater has written are bytes: a match that refers back takes none
\* from before the output or past what has been written.
THEOREM InflatesBytes == Spec => [](Bytes => zout \in Seq(Byte))
<1>1. TypeInv /\ [Next]_vars => TypeInv'
  BY HeapNext, OwnKeeps, SizedKeeps, InflaterKeeps, Zenon DEF TypeInv
<1>2. TypeInv => (Bytes => zout \in Seq(Byte))
  BY Zenon DEF TypeInv, ZTyped
<1> QED BY <1>1, <1>2, TypeInit, PTL DEF Spec
=============================================================================
