------------------------------ MODULE StbBmp ------------------------------
(* The BMP loader of stb_image.h and the BMP writer of stb_image_write.h.    *)
(* A file is the record of its header fields and body, the bytes after the   *)
(* header.  A mask, which may use all 32 bits, is the set of its bits.       *)
EXTENDS StbImage, StbSeqs

VARIABLE bmp   \* the file, pos (how much of body was read), and the locals of stbi__bmp_load

NoBmp == [body |-> <<>>, pos |-> 0]

\* The bytes stbi__bmp_parse_header reads; extra_read is all of them but hsz.
ExtraRead(f) == IF f.hsz \in {40, 56} /\ f.bpp \in {16, 32} /\ f.compress = 3 THEN 26 ELSE 14
HeaderBytes(f) == ExtraRead(f) + f.hsz

bmp_header_ok(f) ==
  /\ f.offset >= 0
  /\ f.hsz \in {12, 40, 56, 108, 124}
  /\ f.planes = 1
  /\ f.hsz # 12 => /\ f.compress \notin {1, 2} /\ f.compress < 4
                   /\ f.compress = 3 => f.bpp \in {16, 32}
                   /\ f.hsz \in {40, 56} /\ f.bpp \in {16, 32} => f.compress \in {0, 3}
  /\ ExtraRead(f) = 26 => ~ (f.mask[1] = f.mask[2] /\ f.mask[2] = f.mask[3])

mask_defaults(f) ==
  CASE f.bpp = 16 -> <<10..14, 5..9, 0..4, f.mask[4]>>
    [] f.bpp = 32 -> <<16..23, 8..15, 0..7, 24..31>>
    [] OTHER -> <<{}, {}, {}, {}>>

\* The masks of red, green, blue and alpha that the header leaves in info.
Masks(f) ==
  CASE f.hsz = 12 \/ (f.hsz \in {40, 56} /\ f.bpp \notin {16, 32}) -> <<{}, {}, {}, {}>>
    [] f.hsz \in {40, 56} /\ f.bpp \in {16, 32} ->
         [(IF f.compress = 3 THEN f.mask ELSE mask_defaults(f)) EXCEPT ![4] =
            IF f.compress = 0 /\ f.bpp = 32 THEN @ ELSE {}]
    [] OTHER -> IF f.compress = 0 THEN mask_defaults(f) ELSE f.mask

\* Division as in C, towards zero.
Div(a, b) == IF a >= 0 THEN a \div b ELSE -((-a) \div b)

\* How many palette entries the header has room for.
PaletteSize(f) ==
  CASE f.hsz = 12 /\ f.bpp < 24 -> Div(f.offset - ExtraRead(f) - 24, 3)
    [] f.hsz # 12 /\ f.bpp < 16 -> (f.offset - ExtraRead(f) - f.hsz) \div 4
    [] OTHER -> 0

\* stbi__get8 and stbi__skip: zeros after the end, and a negative skip goes there.
Body(f, i) == IF i < Len(f.body) THEN f.body[i + 1] ELSE 0
Skip(f, pos, n) == IF n < 0 \/ pos + n > Len(f.body) THEN Len(f.body) ELSE pos + n

\* A mask is read as where its highest bit is and how many bits it has.
high_bit(mask) == IF mask = {} THEN -1 ELSE CHOOSE b \in mask : \A c \in mask : c <= b
bitcount(mask) == Cardinality(mask)

\* An N-bit value as eight bits: v * mul_table[N] >> shift_table[N].
expand_bits(v, n) ==
  (v * <<0, 255, 85, 73, 17, 33, 65, 129, 1>>[n + 1]) \div 2^(<<0, 0, 0, 1, 0, 2, 4, 6, 0>>[n + 1])

\* stbi__shiftsigned of the bits of a value that are in a mask: the highest
\* bit of the mask goes to bit 7, and bits - 8 of the others are dropped.
shiftsigned(bits, mask) ==
  LET shift == high_bit(mask) - 7
      v == SumSet({2^(b - shift) : b \in {c \in bits \cap mask : c >= shift}})
  IN expand_bits(v \div 2^(8 - bitcount(mask)), bitcount(mask))

-----------------------------------------------------------------------------
(* The loader. *)

\* 1 when a row is plain BGR, 2 when it is plain BGRA, else 0.
Easy(f, mask) ==
  CASE f.bpp = 24 -> 1
    [] f.bpp = 32 /\ mask = <<16..23, 8..15, 0..7, 24..31>> -> 2
    [] OTHER -> 0

RowBytes(f) ==
  CASE f.bpp = 1 -> (f.x + 7) \div 8
    [] f.bpp = 4 -> (f.x + 1) \div 2
    [] f.bpp = 8 -> f.x
    [] f.bpp = 16 -> 2 * f.x
    [] f.bpp = 24 -> 3 * f.x
    [] OTHER -> 4 * f.x

Pad(f) == IF f.bpp = 32 THEN 0 ELSE (-RowBytes(f)) % 4

bmp_stop(reason) == lpc' = reason /\ UNCHANGED <<req_comp, image, heap, own, bmp>>

\* The offset the header gives must lie after it, and not too far.
OffsetOk(f) == f.offset >= HeaderBytes(f) /\ f.offset - HeaderBytes(f) <= 1024

\* What is read before the rows is of a kind the loader knows.
FormatOk(f, mask, psize) ==
  IF f.bpp < 16 THEN psize # 0 /\ psize <= 256 /\ f.bpp \in {1, 4, 8}
  ELSE Easy(f, mask) > 0 \/ /\ \A k \in 1..3 : mask[k] # {}
                            /\ \A k \in 1..4 : bitcount(mask[k]) <= 8

\* From the header to where the rows begin.
bmp_load(f) ==
  LET mask == Masks(f)
      psize == PaletteSize(f)
      h == IF f.y < 0 THEN -f.y ELSE f.y
      target == IF req_comp >= 3 THEN req_comp
                ELSE IF mask[4] = {} \/ (f.bpp = 24 /\ mask[4] = 24..31) THEN 3 ELSE 4
      entry == IF f.hsz = 12 THEN 3 ELSE 4
      extra == f.offset - HeaderBytes(f)
      \* the gap is skipped when there is no palette ...
      gap == IF psize = 0 THEN Skip(f, 0, extra) ELSE 0
      pal == [k \in 1..(IF psize > 0 THEN psize ELSE 0) |->
                LET i == gap + entry * (k - 1) IN <<Body(f, i + 2), Body(f, i + 1), Body(f, i)>>]
      \* ... and what lies before the pixels once more
      start == IF f.bpp < 16 THEN Skip(f, Skip(f, gap, entry * Len(pal)), extra - psize * entry)
               ELSE Skip(f, gap, extra)
  IN IF ~ bmp_header_ok(f) \/ h > MAX_DIMENSIONS \/ f.x > MAX_DIMENSIONS
        \/ (psize = 0 /\ ~ OffsetOk(f)) \/ ~ mad3sizes_valid(target, f.x, h, 0)
     THEN bmp_stop("fail")
     ELSE \/ bmp_stop("outofmem")
          \/ ~ FormatOk(f, mask, psize) /\ bmp_stop("fail")   \* out comes and goes
          \/ /\ FormatOk(f, mask, psize)
             /\ bmp' = [body |-> f.body, pos |-> start, x |-> f.x, y |-> h, bpp |-> f.bpp,
                        flip |-> f.y > 0, mask |-> mask, pal |-> pal, target |-> target,
                        all_a |-> ~ (f.compress = 0 /\ f.bpp = 32 /\ f.hsz # 12)]
             /\ image' = <<>>
             /\ heap' = Alloc(heap, {"raw"})
             /\ lpc' = "bmp_row"
             /\ UNCHANGED <<req_comp, own>>

\* The bits of the n bytes at position i, the first byte the lowest.
BodyBits(i, n) ==
  {b \in 0..8 * n - 1 : (Body(bmp, i + b \div 8) \div 2^(b % 8)) % 2 = 1}

\* Pixel i of the row at hand, as red, green, blue and alpha.
bmp_pixel(i, junk) ==
  LET at(k) == Body(bmp, bmp.pos + k)
      index == CASE bmp.bpp = 8 -> at(i)
                 [] bmp.bpp = 4 -> (at(i \div 2) \div (IF i % 2 = 0 THEN 16 ELSE 1)) % 16
                 [] OTHER -> (at(i \div 8) \div 2^(7 - (i % 8))) % 2
      n == IF bmp.bpp = 16 THEN 2 ELSE 4
      bits == BodyBits(bmp.pos + n * i, n)
      channel(k) == shiftsigned(bits, bmp.mask[k])
  IN CASE bmp.bpp < 16 -> (IF index < Len(bmp.pal) THEN bmp.pal[index + 1]
                           ELSE <<junk, junk, junk>>) \o <<255>>
       [] Easy(bmp, bmp.mask) = 1 -> <<at(3 * i + 2), at(3 * i + 1), at(3 * i), 255>>
       [] Easy(bmp, bmp.mask) = 2 -> <<at(4 * i + 2), at(4 * i + 1), at(4 * i), at(4 * i + 3)>>
       [] OTHER -> <<channel(1), channel(2), channel(3),
                     IF bmp.mask[4] = {} THEN 255 ELSE channel(4)>>

bmp_row ==
  /\ lpc = "bmp_row" /\ Len(image) < bmp.y
  /\ \E junk \in Junk :
       LET line == [i \in 1..bmp.x |-> bmp_pixel(i - 1, junk)]
       IN /\ image' = Append(image, [i \in 1..bmp.x |-> SubSeq(line[i], 1, bmp.target)])
          /\ bmp' = [bmp EXCEPT !.all_a = @ \/ \E i \in 1..bmp.x : line[i][4] # 0,
                       !.pos = Skip(bmp, Min({@ + RowBytes(bmp), Len(bmp.body)}), Pad(bmp))]
  /\ UNCHANGED <<req_comp, heap, own, lpc>>

\* An alpha channel of zeros is made opaque, the rows are turned round, and the
\* pixels converted to what the caller wants.
bmp_done ==
  /\ lpc = "bmp_row" /\ Len(image) = bmp.y
  /\ LET convert == req_comp \notin {0, bmp.target}
         opaque == IF bmp.target = 4 /\ ~ bmp.all_a
                   THEN MapImage(image, LAMBDA px : [px EXCEPT ![4] = 255]) ELSE image
         turned == IF bmp.flip THEN [j \in DOMAIN opaque |-> opaque[Len(opaque) + 1 - j]] ELSE opaque
     IN \/ /\ convert                       \* stbi__convert_format frees its input
           /\ lpc' = "outofmem"
           /\ heap' = Free(heap, {"raw"})
           /\ UNCHANGED <<image, bmp>>
        \/ /\ image' = IF convert THEN convert_format(turned, req_comp, 255) ELSE turned
           /\ heap' = IF convert THEN Alloc(Free(heap, {"raw"}), {"good"}) ELSE heap
           /\ lpc' = "ok"
           /\ bmp' = NoBmp
  /\ UNCHANGED <<req_comp, own>>

-----------------------------------------------------------------------------
(* The writer. *)

\* stbiw__write_pixel for a BMP: blue first, grey three times, alpha last.
write_pixel(px, alpha) ==
  (IF Len(px) <= 2 THEN <<px[1], px[1], px[1]>> ELSE <<px[3], px[2], px[1]>>)
    \o IF alpha THEN <<px[Len(px)]>> ELSE <<>>

\* stbiw__write_pixels from the last row to the first, each followed by pad zeros.
write_pixels(rows, alpha, pad) ==
  Concat([j \in 1..Len(rows) |->
    Concat([i \in 1..Len(rows[1]) |-> write_pixel(rows[Len(rows) + 1 - j][i], alpha)])
      \o [k \in 1..pad |-> 0]])

write_bmp_core(rows) ==
  LET x == Len(rows[1])
      rgba == Len(rows[1][1]) = 4
  IN [hsz |-> IF rgba THEN 108 ELSE 40, offset |-> 14 + (IF rgba THEN 108 ELSE 40),
      x |-> x, y |-> Len(rows), planes |-> 1,
      bpp |-> IF rgba THEN 32 ELSE 24, compress |-> IF rgba THEN 3 ELSE 0,
      mask |-> IF rgba THEN <<16..23, 8..15, 0..7, 24..31>> ELSE <<{}, {}, {}, {}>>,
      body |-> write_pixels(rows, rgba, IF rgba THEN 0 ELSE (-x * 3) % 4)]
=============================================================================
