---------------------------- MODULE StbDeflate ----------------------------
(* The zlib compressor of stb_image_write.h, stbi_zlib_compress: one block   *)
(* of fixed Huffman codes with hash-chain matching and one step of lazy      *)
(* matching, or stored blocks when that came out larger.  Bytes are 0..255,  *)
(* offsets into the data are counted from 0 as in the code.                  *)
EXTENDS Integers, StbSeqs

CONSTANTS
  ZHash(_, _, _),   \* the chain that three bytes hash to
  MaxStored,        \* the most bytes a stored block carries (32767)
  Window,           \* how far back a match may start (32768)
  quality           \* stbi_write_png_compression_level

VARIABLES
  data,     \* the bytes to compress
  ci,       \* the offset reached (i)
  hashed,   \* the offsets put in the hash chains, oldest first
  bits,     \* every bit put so far, the first one first
  zlib,     \* the result
  cpc       \* "idle", "symbols" or "done"

cvars == <<data, ci, hashed, bits, zlib, cpc>>

ASSUME StbDeflateAssumption == MaxStored \in Nat \ {0} /\ Window \in Nat \ {0} /\ quality \in Nat

\* The n low bits of v, lowest first: what stbiw__zlib_add puts.
BitsOf(v, n) == [i \in 1..n |-> (v \div 2^(i - 1)) % 2]

\* A code of n bits goes out highest bit first.
zlib_huffa(v, n) == [i \in 1..n |-> (v \div 2^(n - i)) % 2]

\* The code of literal/length symbol n in the default table.
zlib_huff(n) ==
  CASE n <= 143 -> zlib_huffa(48 + n, 8)
    [] n \in 144..255 -> zlib_huffa(400 + n - 144, 9)
    [] n \in 256..279 -> zlib_huffa(n - 256, 7)
    [] OTHER -> zlib_huffa(192 + n - 280, 8)

lengthc == <<3, 4, 5, 6, 7, 8, 9, 10, 11, 13, 15, 17, 19, 23, 27, 31, 35, 43, 51, 59,
             67, 83, 99, 115, 131, 163, 195, 227, 258, 259>>
lengtheb == <<0, 0, 0, 0, 0, 0, 0, 0, 1, 1, 1, 1, 2, 2, 2, 2, 3, 3, 3, 3,
              4, 4, 4, 4, 5, 5, 5, 5, 0>>
distc == <<1, 2, 3, 4, 5, 7, 9, 13, 17, 25, 33, 49, 65, 97, 129, 193, 257, 385, 513, 769,
           1025, 1537, 2049, 3073, 4097, 6145, 8193, 12289, 16385, 24577, 32768>>
disteb == <<0, 0, 0, 0, 1, 1, 2, 2, 3, 3, 4, 4, 5, 5, 6, 6, 7, 7, 8, 8,
            9, 9, 10, 10, 11, 11, 12, 12, 13, 13>>

\* The first entry of a table of bases whose successor is above v.
Slot(base, v) == Min({j \in 1..Len(base) - 1 : v <= base[j + 1] - 1})

\* How many of the bytes at offsets a and b agree, up to limit and 258.
zlib_countm(a, b, limit) ==
  LET most == Min({limit, 258})
      differ == {t \in 0..most - 1 : data[a + t + 1] # data[b + t + 1]}
  IN IF differ = {} THEN most ELSE Min(differ)

zhash(i) == ZHash(data[i + 1], data[i + 2], data[i + 3])

\* The chain of the three bytes at i when the offsets of pushed were hashed: a
\* chain of 2 * q entries loses its older half before the next one is pushed.
Chain(pushed, i) ==
  LET q == Max({quality, 5})
      c == SelectSeq(pushed, LAMBDA p : zhash(p) = zhash(i))
      n == Len(c)
      kept == IF n <= 2 * q THEN n ELSE q + 1 + ((n - 2 * q - 1) % q)
  IN SubSeq(c, n - kept + 1, n)

\* The entries of that chain that lie within the window.
InWindow(pushed, i, reach) == SelectSeq(Chain(pushed, i), LAMBDA p : p > i - reach)

\* The match to use at i: of the longest candidates the last, at least three
\* bytes long, unless the next byte starts a longer one.
BestMatch(i) ==
  LET n == Len(data)
      cand == InWindow(hashed, i, Window)
      len(p) == zlib_countm(p, i, n - i)
      good == {j \in DOMAIN cand : len(cand[j]) >= 3}
      best == Max({len(cand[j]) : j \in good})
      next == InWindow(Append(hashed, i), i + 1, Window - 1)
  IN IF good = {} \/ \E j \in DOMAIN next : zlib_countm(next[j], i + 1, n - i - 1) > best
     THEN [len |-> 0, dist |-> 0]
     ELSE [len |-> best, dist |-> i - cand[Max({j \in good : len(cand[j]) = best})]]

MatchBits(m) ==
  LET l == Slot(lengthc, m.len)
      d == Slot(distc, m.dist)
  IN zlib_huff(l - 1 + 257) \o BitsOf(m.len - lengthc[l], lengtheb[l])
       \o zlib_huffa(d - 1, 5) \o BitsOf(m.dist - distc[d], disteb[d])

\* Eight bits to a byte, the last one padded with zeros.
Pack(bs) ==
  [b \in 1..((Len(bs) + 7) \div 8) |->
     MapThenSumSet(LAMBDA k : IF 8 * (b - 1) + k + 1 <= Len(bs) THEN bs[8 * (b - 1) + k + 1] * 2^k ELSE 0,
                   0..7)]

StoredBlocks ==
  LET count == (Len(data) + MaxStored - 1) \div MaxStored
      block(k) == SubSeq(data, (k - 1) * MaxStored + 1, Min({k * MaxStored, Len(data)}))
      n(k) == Len(block(k))
  IN Concat([k \in 1..count |->
       <<IF k = count THEN 1 ELSE 0, n(k) % 256, n(k) \div 256,
         255 - (n(k) % 256), 255 - (n(k) \div 256)>> \o block(k)])

\* The size of the stored form: the fixed codes are given up beyond it.
StoredLimit == Len(data) + 2 + ((Len(data) + MaxStored - 1) \div MaxStored) * 5

\* s1 is one more than the sum of the bytes, s2 the sum of what s1 was after
\* each of them.
adler32 ==
  LET n == Len(data)
      s1 == (1 + MapThenSumSet(LAMBDA i : data[i], 1..n)) % 65521
      s2 == (n + MapThenSumSet(LAMBDA i : (n - i + 1) * data[i], 1..n)) % 65521
  IN <<s2 \div 256, s2 % 256, s1 \div 256, s1 % 256>>

cIdle ==
  /\ data = <<>>
  /\ ci = 0
  /\ hashed = <<>>
  /\ bits = <<>>
  /\ zlib = <<>>
  /\ cpc = "idle"

\* stbi_zlib_compress is called on some bytes: BFINAL 1 and BTYPE 1 go out.
zlib_compress(bytes) ==
  /\ cpc = "idle"
  /\ data' = bytes
  /\ bits' = <<1, 1, 0>>
  /\ cpc' = "symbols"
  /\ UNCHANGED <<ci, hashed, zlib>>

\* One iteration of the main loop: a match, or the byte as a literal.
put_symbol ==
  /\ cpc = "symbols" /\ ci < Len(data) - 3
  /\ LET m == BestMatch(ci)
     IN \/ /\ m.len > 0
           /\ bits' = bits \o MatchBits(m)
           /\ ci' = ci + m.len
        \/ /\ m.len = 0
           /\ bits' = bits \o zlib_huff(data[ci + 1])
           /\ ci' = ci + 1
  /\ hashed' = Append(hashed, ci)
  /\ UNCHANGED <<data, zlib, cpc>>

\* The last bytes, the end of the block, the padding and the checksum; the data
\* is stored instead if that is smaller.
finish_stream ==
  /\ cpc = "symbols" /\ ci >= Len(data) - 3
  /\ LET last == Concat([j \in 1..Len(data) - ci |-> zlib_huff(data[ci + j])])
         fixed == <<120, 94>> \o Pack(bits \o last \o zlib_huff(256))
     IN zlib' = (IF Len(fixed) > StoredLimit THEN <<120, 94>> \o StoredBlocks ELSE fixed)
                  \o adler32
  /\ cpc' = "done"
  /\ ci' = 0 /\ hashed' = <<>> /\ bits' = <<>>
  /\ UNCHANGED data

cNext == put_symbol \/ finish_stream
=============================================================================
