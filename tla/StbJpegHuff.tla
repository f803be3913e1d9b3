--------------------------- MODULE StbJpegHuff ---------------------------
(* The entropy decoder of the JPEG loader of stb_image.h: the bit buffer,    *)
(* which stops at a marker and makes up zeros after it, and the Huffman      *)
(* codes with their two shortcuts, the table of codes of at most FAST_BITS   *)
(* bits and the table that decodes a small coefficient in one go.            *)
(*                                                                           *)
(* A reader r has the place pos in the file, the bits of code_buffer that    *)
(* code_bits counts, the marker seen while filling it, and nomore.           *)
EXTENDS Integers, Sequences

VARIABLE file   \* the bytes of the file

FAST_BITS == 9
MARKER_none == 255

\* stbi__get8: the byte at p, and zero past the end of the file.
Byte(p) == IF p < Len(file) THEN file[p + 1] ELSE 0
Word(p) == Byte(p) * 256 + Byte(p + 1)
at_eof(p) == p >= Len(file)

\* The first place from p on that holds no fill byte.
SkipFill(p) ==
  CHOOSE q \in p..(IF at_eof(p) THEN p ELSE Len(file)) : Byte(q) # 255 /\ \A i \in p..q - 1 : Byte(i) = 255

\* A pending marker, or the next one in the file.
get_marker(r) ==
  LET p == SkipFill(r.pos)
  IN IF r.marker # MARKER_none THEN [m |-> r.marker, r |-> [r EXCEPT !.marker = MARKER_none]]
     ELSE IF p = r.pos THEN [m |-> MARKER_none, r |-> [r EXCEPT !.pos = @ + 1]]
     ELSE [m |-> Byte(p), r |-> [r EXCEPT !.pos = p + 1]]

\* What looks like a marker in the bytes after a scan: after 255 neither 0 nor
\* 255.
skip_jpeg_junk_at_end(r) ==
  LET ends == {q \in r.pos + 1..Len(file) - 1 : Byte(q - 1) = 255 /\ Byte(q) \notin {0, 255}}
      q == CHOOSE q \in ends : \A e \in ends : q <= e
  IN IF ends = {} THEN [r EXCEPT !.pos = Len(file)] ELSE [r EXCEPT !.pos = q + 1, !.marker = Byte(q)]

Bits8(b) == [k \in 1..8 |-> (b \div 2^(8 - k)) % 2]

\* One byte more, unless a marker has come up or there are bits enough.  A byte
\* 255 is followed by a stuffed 0 or belongs to a marker.
grow_byte(s) ==
  LET r == s.r
      b == IF r.nomore THEN 0 ELSE Byte(r.pos)
      c == SkipFill(r.pos)
      more == [r EXCEPT !.pos = CASE r.nomore -> @ [] ~ r.nomore /\ b = 255 -> c + 1 [] OTHER -> @ + 1,
                        !.bits = @ \o Bits8(b)]
  IN IF s.full THEN s
     ELSE IF b = 255 /\ Byte(c) # 0
     THEN [full |-> TRUE, r |-> [r EXCEPT !.pos = c + 1, !.marker = Byte(c), !.nomore = TRUE]]
     ELSE [full |-> Len(more.bits) > 24, r |-> more]

\* At most four bytes fit.
grow_buffer(r) ==
  LET s[i \in 0..4] == IF i = 0 THEN [full |-> FALSE, r |-> r] ELSE grow_byte(s[i - 1])
  IN s[4].r

Grown(r, n) == IF Len(r.bits) < n THEN grow_buffer(r) ELSE r

\* The first n bits of code_buffer; those past code_bits are zero.
Top(bits, n) ==
  LET v[i \in 0..n] == IF i = 0 THEN 0
                       ELSE 2 * v[i - 1] + (IF i <= Len(bits) THEN bits[i] ELSE 0)
  IN v[n]

Drop(r, n) == [r EXCEPT !.bits = SubSeq(@, n + 1, Len(@))]

-----------------------------------------------------------------------------
(* Huffman codes: codes of a size follow each other, and double from one     *)
(* size to the next.                                                         *)

build_huffman(count) ==
  LET Add(n, size) == [k |-> n.k + count[size], code |-> 2 * n.code + count[size]]
      at[j \in 0..16] == IF j = 0 THEN [k |-> 0, code |-> 0] ELSE Add(at[j - 1], j)
  IN [ok |-> \A j \in 1..16 : count[j] = 0 \/ at[j].code - 1 < 2^j,
      total |-> at[16].k, values |-> <<>>,
      maxcode |-> [j \in 1..16 |-> at[j].code * 2^(16 - j)],
      delta |-> [j \in 1..16 |-> at[j - 1].k - 2 * at[j - 1].code]]

\* The size in from..to whose codes hold the bits, 16 of them, or to + 1.
SizeOf(h, bits, from, to) ==
  LET fits == {s \in from..to : bits < h.maxcode[s]}
  IN IF fits = {} THEN to + 1 ELSE CHOOSE s \in fits : \A t \in fits : s <= t

\* A table that no DHT has filled is all zeros: every lookup finds code 0, of
\* no bits and for the symbol 0.
NoTable == [ok |-> FALSE, values |-> [i \in 1..256 |-> 0]]

\* fast[c]: size and index (stbi_uc) of the code that FAST_BITS bits begin with;
\* the entry 255 says that the code is longer.
fast(h, c) ==
  LET s == SizeOf(h, c * 2^(16 - FAST_BITS), 1, FAST_BITS)
  IN CASE ~ h.ok -> [size |-> 0, index |-> 0]
       [] h.ok /\ s <= FAST_BITS ->
            [size |-> s, index |-> ((c \div 2^(FAST_BITS - s)) + h.delta[s]) % 256]
       [] OTHER -> [size |-> 0, index |-> 255]

\* The first n bits of a value: with a leading 0 it is negative.
extend(k, n) == IF k < 2^(n - 1) THEN k - (2^n - 1) ELSE k

\* fast_ac[c]: run, value and total length when FAST_BITS bits hold a code and
\* its value, and the value is small; length 0 otherwise.
fast_ac_entry(h, c, f) ==
  LET rs == h.values[f.index + 1]
      magbits == rs % 16
      k == ((c * 2^f.size) % 2^FAST_BITS) \div 2^(FAST_BITS - magbits)
      none == [run |-> 0, value |-> 0, length |-> 0]
  IN IF f.index = 255 THEN none
     ELSE IF magbits = 0 \/ f.size + magbits > FAST_BITS THEN none
     ELSE IF extend(k, magbits) \notin -128..127 THEN none
     ELSE [run |-> rs \div 16, value |-> extend(k, magbits), length |-> f.size + magbits]
fast_ac(h, c) == fast_ac_entry(h, c, fast(h, c))

\* A symbol, or v = -1 when no code fits or the bits do not suffice; f is the
\* entry of fast for the next bits.
Decode(r, h, f) ==
  LET k == IF f.index < 255 THEN f.size ELSE SizeOf(h, Top(r.bits, 16), FAST_BITS + 1, 16)
      c == IF f.index < 255 THEN f.index ELSE Top(r.bits, k) + h.delta[k]
  IN IF k = 17 THEN [v |-> -1, r |-> r]
     ELSE IF k > Len(r.bits) \/ c \notin 0..255 THEN [v |-> -1, r |-> r]
     ELSE [v |-> h.values[c + 1], r |-> Drop(r, k)]
DecodeNext(r, h) == Decode(r, h, fast(h, Top(r.bits, FAST_BITS)))
huff_decode(r0, h) == DecodeNext(Grown(r0, 16), h)

\* Past the end of the data the value is 0.
Take(r, n) == IF Len(r.bits) < n THEN [v |-> 0, r |-> r] ELSE [v |-> Top(r.bits, n), r |-> Drop(r, n)]
jpeg_get_bits(r0, n) == Take(Grown(r0, n), n)

TakeSigned(r, n) == IF Len(r.bits) < n THEN [v |-> 0, r |-> r]
                    ELSE [v |-> extend(Top(r.bits, n), n), r |-> Drop(r, n)]
extend_receive(r0, n) == TakeSigned(Grown(r0, n), n)
=============================================================================
