---------------------------- MODULE StbInflate ----------------------------
(* The zlib decoder of stb_image.h, from stbi__do_zlib down, one action per  *)
(* header, block, code length or symbol.                                     *)
(*                                                                           *)
(* The bit buffer is kept as a position: at is the next byte of the input    *)
(* (zbuffer), nb the bits that are buffered (num_bits), and ph how many bits *)
(* were made up after the input ended.  code_buffer is then the nb bits that *)
(* end at bit 8 * at + ph of the input continued with zeros.                 *)
EXTENDS Integers, Sequences, FiniteSets, FiniteSetsExt

VARIABLES
  input,   \* the bytes to decode
  z,       \* the bit reader: at, nb, ph and zeof (hit_zeof_once)
  zout,    \* the bytes decoded so far
  zcap,    \* how many bytes the output buffer holds (zout_end - zout_start)
  blk,     \* the block being decoded
  zpc      \* "idle", "header", "block", "lengths", "symbol", "ok", "fail" or "outofmem"

zvars == <<input, z, zout, zcap, blk, zpc>>

NoBlock == [final |-> 0, type |-> 0, hlit |-> 0, ntot |-> 0, lens |-> <<>>,
            codelength |-> <<>>, length |-> <<>>, distance |-> <<>>]

zIdle ==
  /\ input = <<>>
  /\ z = [at |-> 0, nb |-> 0, ph |-> 0, zeof |-> FALSE]
  /\ zout = <<>>
  /\ zcap = 0
  /\ blk = NoBlock
  /\ zpc = "idle"

\* stbi__do_zlib on a buffer of n bytes, with or without a zlib header.
do_zlib(bytes, n, header) ==
  /\ input' = bytes
  /\ z' = [at |-> 0, nb |-> 0, ph |-> 0, zeof |-> FALSE]
  /\ zout' = <<>>
  /\ zcap' = n
  /\ blk' = NoBlock
  /\ zpc' = IF header THEN "header" ELSE "block"

-----------------------------------------------------------------------------
(* The bit reader. *)

zeof(r) == r.at >= Len(input)

\* Bit k of the buffer, counted from the one that is read next.
CodeBit(r, k) ==
  LET p == 8 * r.at + r.ph - r.nb + k
  IN IF p \div 8 < Len(input) /\ (input[p \div 8 + 1] \div 2^(p % 8)) % 2 = 1 THEN 1 ELSE 0

\* Whole bytes are appended until more than 24 bits are buffered; past the end
\* of the input stbi__zget8 gives zeros.
fill_bits(r) ==
  LET m == (24 - r.nb) \div 8 + 1
      real == Min({m, Len(input) - r.at})
  IN [r EXCEPT !.at = @ + real, !.ph = @ + 8 * (m - real), !.nb = @ + 8 * m]

zreceive(r, n) ==
  LET f == IF r.nb < n THEN fill_bits(r) ELSE r
      value[k \in 0..n] == IF k = 0 THEN 0 ELSE value[k - 1] + CodeBit(f, k - 1) * 2^(k - 1)
  IN [r |-> [f EXCEPT !.nb = @ - n], v |-> value[n]]

\* stbi__zbuild_huffman: the canonical code of a list of code sizes.  For each
\* size there are the first code and the symbols in order, numbered from 0.
zbuild_huffman(sizelist) ==
  LET symbols(s) == SelectSeq([i \in DOMAIN sizelist |-> i - 1], LAMBDA i : sizelist[i + 1] = s)
      sizes == [s \in 1..15 |-> Cardinality({i \in DOMAIN sizelist : sizelist[i] = s})]
      firstcode[s \in 1..15] == IF s = 1 THEN 0 ELSE (firstcode[s - 1] + sizes[s - 1]) * 2
  IN [ok |-> \A s \in 1..15 : /\ sizes[s] <= 2^s
                              /\ sizes[s] > 0 => firstcode[s] + sizes[s] - 1 < 2^s,
      code |-> [s \in 1..15 |-> [first |-> firstcode[s], symbols |-> symbols(s)]]]

\* The next symbol, or -1.  The fast table resolves the sizes up to 9 and the
\* slow path the others, shortest first; both find the code that the coming
\* bits begin with.
zhuffman_decode(r, table) ==
  LET ended == r.nb < 16 /\ zeof(r)
      f == IF ~ ended THEN IF r.nb < 16 THEN fill_bits(r) ELSE r
           ELSE [r EXCEPT !.zeof = TRUE, !.nb = @ + 16, !.ph = @ + 16]
      prefix[s \in 0..15] == IF s = 0 THEN 0 ELSE 2 * prefix[s - 1] + CodeBit(f, s - 1)
      found == {s \in 1..15 : prefix[s] - table[s].first \in 0..Len(table[s].symbols) - 1}
      s == Min(found)
  IN IF (ended /\ r.zeof) \/ found = {}
     THEN [r |-> r, sym |-> -1]
     ELSE [r |-> [f EXCEPT !.nb = @ - s],
           sym |-> table[s].symbols[prefix[s] - table[s].first + 1]]

-----------------------------------------------------------------------------
(* The default tables. *)

zdefault_length ==
  [i \in 1..288 |-> IF i <= 144 THEN 8 ELSE IF i <= 256 THEN 9 ELSE IF i <= 280 THEN 7 ELSE 8]
zdefault_distance == [i \in 1..32 |-> 5]

zlength_base == <<3, 4, 5, 6, 7, 8, 9, 10, 11, 13, 15, 17, 19, 23, 27, 31, 35, 43, 51, 59,
                  67, 83, 99, 115, 131, 163, 195, 227, 258, 0, 0>>
zlength_extra == <<0, 0, 0, 0, 0, 0, 0, 0, 1, 1, 1, 1, 2, 2, 2, 2, 3, 3, 3, 3,
                   4, 4, 4, 4, 5, 5, 5, 5, 0, 0, 0>>
zdist_base == <<1, 2, 3, 4, 5, 7, 9, 13, 17, 25, 33, 49, 65, 97, 129, 193, 257, 385, 513, 769,
                1025, 1537, 2049, 3073, 4097, 6145, 8193, 12289, 16385, 24577, 0, 0>>
zdist_extra == <<0, 0, 0, 0, 1, 1, 2, 2, 3, 3, 4, 4, 5, 5, 6, 6, 7, 7, 8, 8,
                 9, 9, 10, 10, 11, 11, 12, 12, 13, 13, 0, 0>>
length_dezigzag == <<16, 17, 18, 0, 8, 7, 9, 6, 10, 5, 11, 4, 12, 3, 13, 2, 14, 1, 15>>

-----------------------------------------------------------------------------
(* The steps. *)

zstop(reason) == zpc' = reason /\ UNCHANGED <<input, z, zout, zcap, blk>>
zfail == zstop("fail")

\* The capacity doubles until it is what is needed; 32 times is more than an
\* unsigned int can.
Grown(cap, need) == IF need > cap THEN 2 * cap ELSE cap
Doubled(cap, need) ==
  LET limit[i \in 0..32] == IF i = 0 THEN cap ELSE Grown(limit[i - 1], need)
  IN limit[32]

\* (mutant) The byte that just fills the buffer is written without the check.
Put_OffByOne(bytes, r, pc) ==
  LET need == Len(zout) + Len(bytes)
  IN \/ /\ Doubled(zcap, need - 1) >= need - 1
        /\ zout' = zout \o bytes
        /\ zcap' = Doubled(zcap, need - 1)
        /\ z' = r
        /\ zpc' = pc
        /\ UNCHANGED <<input, blk>>
     \/ need - 1 > zcap /\ zstop("outofmem")

\* stbi__zexpand, and the bytes are appended: room is made first, and neither
\* the doubling nor the reallocation need succeed.
Put(bytes, r, pc) ==
  LET need == Len(zout) + Len(bytes)
  IN \/ /\ Doubled(zcap, need) >= need
        /\ zout' = zout \o bytes
        /\ zcap' = Doubled(zcap, need)
        /\ z' = r
        /\ zpc' = pc
        /\ UNCHANGED <<input, blk>>
     \/ need > zcap /\ zstop("outofmem")

parse_zlib_header ==
  /\ zpc = "header"
  /\ IF Len(input) <= 2 \/ (input[1] * 256 + input[2]) % 31 # 0
          \/ (input[2] \div 32) % 2 = 1 \/ input[1] % 16 # 8
     THEN zfail
     ELSE /\ z' = [z EXCEPT !.at = 2]
          /\ zpc' = "block"
          /\ UNCHANGED <<input, zout, zcap, blk>>

\* After a block: another one, or the end of the stream.
AfterBlock(final) == IF final = 1 THEN "ok" ELSE "block"

\* What is still buffered after the discarded bits is the start of the header.
parse_uncompressed_block(r, final) ==
  LET b == r.nb \div 8
      h == [i \in 1..4 |-> LET p == r.at + (r.ph \div 8) - b + i
                           IN IF p <= Len(input) THEN input[p] ELSE 0]
      after == Min({r.at + Max({4 - b, 0}), Len(input)})
      len == h[2] * 256 + h[1]
  IN IF \/ h[3] # 255 - h[1] \/ h[4] # 255 - h[2]
        \/ after + len > Len(input)
     THEN zfail
     ELSE Put(SubSeq(input, after + 1, after + len),
              [r EXCEPT !.at = after + len, !.nb = 0, !.ph = 0], AfterBlock(final))

\* The first n sizes of the code-length code, three bits each.
CodeLengthSizes(r, n) ==
  LET read[i \in 0..n] ==
        IF i = 0 THEN [r |-> r, size |-> [k \in 1..19 |-> 0]]
        ELSE LET s == read[i - 1]
                 v == zreceive(s.r, 3)
             IN [size |-> [s.size EXCEPT ![length_dezigzag[i] + 1] = v.v], r |-> v.r]
  IN read[n]

compute_huffman_codes(r, final) ==
  LET hlit == zreceive(r, 5)
      hdist == zreceive(hlit.r, 5)
      hclen == zreceive(hdist.r, 4)
      sizes == CodeLengthSizes(hclen.r, hclen.v + 4)
      table == zbuild_huffman(sizes.size)
  IN IF ~ table.ok THEN zfail
     ELSE /\ z' = sizes.r
          /\ blk' = [NoBlock EXCEPT !.final = final, !.type = 2, !.hlit = hlit.v + 257,
                                    !.ntot = hlit.v + 257 + hdist.v + 1, !.codelength = table.code]
          /\ zpc' = "lengths"
          /\ UNCHANGED <<input, zout, zcap>>

parse_zlib ==
  /\ zpc = "block"
  /\ LET final == zreceive(z, 1)
         type == zreceive(final.r, 2)
     IN \/ type.v = 0 /\ parse_uncompressed_block([type.r EXCEPT !.nb = @ - (@ % 8)], final.v)
        \/ /\ type.v = 1
           /\ z' = type.r
           /\ blk' = [NoBlock EXCEPT !.final = final.v, !.type = 1,
                                     !.length = zbuild_huffman(zdefault_length).code,
                                     !.distance = zbuild_huffman(zdefault_distance).code]
           /\ zpc' = "symbol"
           /\ UNCHANGED <<input, zout, zcap>>
        \/ type.v = 2 /\ compute_huffman_codes(type.r, final.v)
        \/ type.v = 3 /\ zfail

\* One symbol of the code-length code, or the tables once all lengths are in.
code_length ==
  /\ zpc = "lengths"
  /\ LET n == Len(blk.lens)
         c == zhuffman_decode(z, blk.codelength)
         more == CASE c.sym = 16 -> zreceive(c.r, 2)
                   [] c.sym = 17 -> zreceive(c.r, 3)
                   [] c.sym = 18 -> zreceive(c.r, 7)
                   [] OTHER -> [r |-> c.r, v |-> 0]
         count == CASE c.sym \in {16, 17} -> more.v + 3
                    [] c.sym = 18 -> more.v + 11
                    [] OTHER -> 1
         fill == CASE c.sym = 16 -> blk.lens[n] [] c.sym \in {17, 18} -> 0 [] OTHER -> c.sym
         length == zbuild_huffman(SubSeq(blk.lens, 1, blk.hlit))
         distance == zbuild_huffman(SubSeq(blk.lens, blk.hlit + 1, blk.ntot))
     IN \/ /\ n < blk.ntot
           /\ IF c.sym < 0 \/ (c.sym = 16 /\ n = 0) \/ blk.ntot - n < count
              THEN zfail
              ELSE /\ z' = more.r
                   /\ blk' = [blk EXCEPT !.lens = @ \o [i \in 1..count |-> fill]]
                   /\ UNCHANGED <<input, zout, zcap, zpc>>
        \/ /\ n = blk.ntot
           /\ IF ~ length.ok \/ ~ distance.ok THEN zfail
              ELSE /\ blk' = [blk EXCEPT !.length = length.code, !.distance = distance.code,
                                         !.lens = <<>>, !.codelength = <<>>]
                   /\ zpc' = "symbol"
                   /\ UNCHANGED <<input, z, zout, zcap>>

\* len bytes from dist back, which may run into the bytes being written.
Copied(dist, len) ==
  LET from == Len(zout) - dist IN [i \in 1..len |-> zout[from + ((i - 1) % dist) + 1]]

\* One iteration of the loop of stbi__parse_huffman_block.
parse_huffman_block ==
  /\ zpc = "symbol"
  /\ LET s == zhuffman_decode(z, blk.length)
         l == s.sym - 256
         len == zreceive(s.r, zlength_extra[l])
         d == zhuffman_decode(len.r, blk.distance)
         dist == zreceive(d.r, zdist_extra[d.sym + 1])
     IN \/ s.sym < 0 /\ zfail
        \/ s.sym \in 0..255 /\ Put(<<s.sym>>, s.r, "symbol")
        \/ /\ s.sym = 256
           /\ IF s.r.zeof /\ s.r.nb < 16 THEN zfail
              ELSE /\ z' = s.r
                   /\ zpc' = AfterBlock(blk.final)
                   /\ UNCHANGED <<input, zout, zcap, blk>>
        \/ s.sym >= 286 /\ zfail
        \/ /\ s.sym \in 257..285
           /\ IF d.sym \notin 0..29 THEN zfail
              ELSE IF Len(zout) < zdist_base[d.sym + 1] + dist.v THEN zfail
              ELSE Put(Copied(zdist_base[d.sym + 1] + dist.v, zlength_base[l] + len.v),
                       dist.r, "symbol")

zNext == parse_zlib_header \/ parse_zlib \/ code_length \/ parse_huffman_block
=============================================================================
