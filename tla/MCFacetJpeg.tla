---------------------------- MODULE MCFacetJpeg ----------------------------
(* FacetJpeg on small files put together by the definition of the format:    *)
(* baseline and progressive images with every kind of scan, all the mixes of *)
(* sampling factors that the resamplers tell apart, restarts, images sent    *)
(* through the writer, and damaged files.                                    *)
EXTENDS FacetJpegImage, SequencesExt

Noise(x, y, c, m) == (x * 37 + y * 101 + c * 53 + x * y * 29 + 7) % m
Abs(v) == IF v < 0 THEN -v ELSE v
Two(v) == <<v \div 256, v % 256>>
Segment(m, bytes) == <<255, m>> \o Two(Len(bytes) + 2) \o bytes

-----------------------------------------------------------------------------
(* Huffman codes by definition: those of a size are consecutive numbers.     *)
(* sizes[i] is the size of the code of values[i].                            *)

DcTable == [values |-> <<0, 1, 2, 3, 4, 5, 6, 7, 8, 9>>, sizes |-> <<2, 2, 2, 4, 4, 5, 9, 10, 12, 16>>]
AcTable == [values |-> <<1, 0, 17, 2, 240, 33, 16, 49, 3, 18, 65, 81, 97, 113, 32, 4, 34, 5, 129, 145, 6,
                         161, 177, 193, 209, 225, 241, 48, 7, 8>>,
            sizes |-> <<2, 2, 3, 3, 4, 4, 5, 5, 6, 6, 8, 8, 8, 8, 9, 10, 10, 12, 12, 12, 13,
                        16, 16, 16, 16, 16, 16, 16, 16, 16>>]

CodeNumbers(t) ==
  LET code[i \in DOMAIN t.values] ==
        IF i = 1 THEN 0 ELSE (code[i - 1] + 1) * 2^(t.sizes[i] - t.sizes[i - 1])
  IN code
DcCodes == CodeNumbers(DcTable)
AcCodes == CodeNumbers(AcTable)
Sym(t, codes, v) == LET i == CHOOSE i \in DOMAIN t.values : t.values[i] = v IN MSB(codes[i], t.sizes[i])
DcSym(v) == Sym(DcTable, DcCodes, v)
AcSym(v) == Sym(AcTable, AcCodes, v)

DHTBytes(id, t) ==
  <<id>> \o [s \in 1..16 |-> Cardinality({i \in DOMAIN t.sizes : t.sizes[i] = s})] \o t.values

\* The size of a value, and its bits after the code.
SizeIn(v) == CHOOSE n \in 0..15 : Abs(v) < 2^n /\ (n = 0 \/ Abs(v) >= 2^(n - 1))
ValueBits(v) == MSB(IF v < 0 THEN v + 2^SizeIn(v) - 1 ELSE v, SizeIn(v))

-----------------------------------------------------------------------------
(* Blocks in scans.  A scan has the components cs, the band ss..se and the   *)
(* bits from al on; ah > 0 when it refines.                                  *)

\* |v| / 2^al with the sign, and the bit that a refinement adds.
Part(v, al) == IF v < 0 THEN -(Abs(v) \div 2^al) ELSE v \div 2^al
Bit(v, al) == (Abs(v) \div 2^al) % 2

DcBits(diff) == DcSym(SizeIn(diff)) \o ValueBits(diff)

\* The places in ss..se that hold something.
Held(zz, ss, se, al) == SelectSeq([k \in 1..se - ss + 1 |-> ss + k - 1], LAMBDA k : Part(zz[k + 1], al) # 0)

\* Zeros and a value; ZRL for sixteen zeros.
RunBits(zeros, v) ==
  FlattenSeq([i \in 1..zeros \div 16 |-> AcSym(240)]) \o AcSym((zeros % 16) * 16 + SizeIn(v)) \o ValueBits(v)

\* What a first scan of a band writes for a block before its end.
FirstBits(zz, ss, se, al) ==
  LET ks == Held(zz, ss, se, al)
  IN FlattenSeq([i \in DOMAIN ks |-> RunBits(ks[i] - (IF i = 1 THEN ss ELSE ks[i - 1] + 1), Part(zz[ks[i] + 1], al))])

\* What a refinement writes: new values after run zeros, and corrections to the
\* old ones in between.
New(zz, ss, se, al) == SelectSeq(Held(zz, ss, se, al), LAMBDA k : Part(zz[k + 1], al + 1) = 0)
RECURSIVE RefineFrom(_, _, _, _, _, _)
RefineFrom(zz, k, last, al, run, pending) ==
  LET v == zz[k + 1]
  IN IF k > last THEN <<>>
     ELSE IF Part(v, al + 1) # 0 THEN RefineFrom(zz, k + 1, last, al, run, Append(pending, Bit(v, al)))
     ELSE IF Part(v, al) # 0
     THEN AcSym(16 * run + 1) \o <<IF v > 0 THEN 1 ELSE 0>> \o pending \o RefineFrom(zz, k + 1, last, al, 0, <<>>)
     ELSE IF run = 15 THEN AcSym(240) \o pending \o RefineFrom(zz, k + 1, last, al, 0, <<>>)
     ELSE RefineFrom(zz, k + 1, last, al, run + 1, pending)
RefineBits(zz, ss, se, al) ==
  LET new == New(zz, ss, se, al) IN IF new = <<>> THEN <<>> ELSE RefineFrom(zz, ss, Last(new), al, 0, <<>>)
\* The corrections from place k on.
Corrections(zz, k, se, al) ==
  LET old == SelectSeq(Held(zz, k, se, al + 1), LAMBDA i : TRUE) IN [i \in DOMAIN old |-> Bit(zz[old[i] + 1], al)]

\* An end for run blocks.
EobBits(run) == LET n == SizeIn(run) - 1 IN AcSym(16 * n) \o MSB(run - 2^n, n)

\* The blocks zs of an AC scan: those that end without a value of their own are
\* counted into the end of the block before them.
RECURSIVE BandBits(_, _)
BandBits(zs, s) ==
  LET own_(zz) == IF s.ah = 0 THEN FirstBits(zz, s.ss, s.se, s.al) ELSE RefineBits(zz, s.ss, s.se, s.al)
      values(zz) == IF s.ah = 0 THEN Held(zz, s.ss, s.se, s.al) ELSE New(zz, s.ss, s.se, s.al)
      from(zz) == IF values(zz) = <<>> THEN s.ss ELSE Last(values(zz)) + 1
      rest(zz) == IF s.ah = 0 THEN <<>> ELSE Corrections(zz, from(zz), s.se, s.al)
      run == CHOOSE n \in 1..Len(zs) : /\ \A i \in 2..n : values(zs[i]) = <<>>
                                       /\ n = Len(zs) \/ values(zs[n + 1]) # <<>>
  IN IF zs = <<>> THEN <<>>
     ELSE IF from(zs[1]) > s.se THEN own_(zs[1]) \o BandBits(Tail(zs), s)
     ELSE own_(zs[1]) \o EobBits(run) \o FlattenSeq([i \in 1..run |-> rest(zs[i])])
            \o BandBits(SubSeq(zs, run + 1, Len(zs)), s)

\* A block of a baseline scan, and of a DC scan; before is the DC of the block
\* of the same component before it.
BaseBits(zz, before) ==
  DcBits(zz[1] - before) \o FirstBits(zz, 1, 63, 0) \o (IF zz[64] # 0 THEN <<>> ELSE AcSym(0))
Shifted(v, al) == v \div 2^al
DcScanBits(zz, before, s) ==
  IF s.ah = 0 THEN DcBits(Shifted(zz[1], s.al) - Shifted(before, s.al)) ELSE <<(zz[1] \div 2^s.al) % 2>>

-----------------------------------------------------------------------------
(* Files.  An image has the size x, y, the factors fs of its components and  *)
(* the coefficients coefs[n][at].                                            *)

HMax(im) == Max({im.fs[n][1] : n \in DOMAIN im.fs})
VMax(im) == Max({im.fs[n][2] : n \in DOMAIN im.fs})
Ceil(a, b) == (a + b - 1) \div b

\* The blocks of a scan, <<component, place>>, MCU by MCU.
McuBlocks(im, cs, i, j) ==
  FlattenSeq([k \in DOMAIN cs |->
    LET f == im.fs[cs[k]]
    IN [e \in 1..f[1] * f[2] |-> <<cs[k], <<i * f[1] + ((e - 1) % f[1]), j * f[2] + ((e - 1) \div f[1])>>>>]])
McusOf(im, cs) ==
  LET f == im.fs[cs[1]]
      w == IF Len(cs) > 1 THEN Ceil(im.x, 8 * HMax(im)) ELSE Ceil(Ceil(im.x * f[1], HMax(im)), 8)
      h == IF Len(cs) > 1 THEN Ceil(im.y, 8 * VMax(im)) ELSE Ceil(Ceil(im.y * f[2], VMax(im)), 8)
  IN [m \in 1..w * h |-> LET i == (m - 1) % w
                             j == (m - 1) \div w
                         IN IF Len(cs) > 1 THEN McuBlocks(im, cs, i, j) ELSE <<<<cs[1], <<i, j>>>>>>]

ZZ(im, b) == im.coefs[b[1]][b[2]]

\* The bits of some MCUs in a row, from a reset on.
McuBits(im, s, mcus) ==
  LET bs == FlattenSeq(mcus)
      same(i) == {l \in 1..i - 1 : bs[l][1] = bs[i][1]}
      before(i) == IF same(i) = {} THEN 0 ELSE ZZ(im, bs[Max(same(i))])[1]
  IN IF im.prog /\ s.ss > 0 THEN BandBits([i \in DOMAIN bs |-> ZZ(im, bs[i])], s)
     ELSE FlattenSeq([i \in DOMAIN bs |-> IF im.prog THEN DcScanBits(ZZ(im, bs[i]), before(i), s)
                                          ELSE BaseBits(ZZ(im, bs[i]), before(i))])

\* Bytes of bits: ones fill the last one, and 0 follows 255.
Entropy(bits) ==
  LET all == bits \o [i \in 1..((-Len(bits)) % 8) |-> 1]
      value(b) == FoldLeft(LAMBDA a, k : 2 * a + all[8 * (b - 1) + k], 0, <<1, 2, 3, 4, 5, 6, 7, 8>>)
  IN FlattenSeq([b \in 1..Len(all) \div 8 |-> IF value(b) = 255 THEN <<255, 0>> ELSE <<value(b)>>])

\* A scan with a restart marker after every im.restart MCUs.
ScanBytes(im, s) ==
  LET mcus == McusOf(im, s.cs)
      per == IF im.restart = 0 THEN Len(mcus) ELSE im.restart
      part(r) == SubSeq(mcus, (r - 1) * per + 1, IF r * per > Len(mcus) THEN Len(mcus) ELSE r * per)
  IN Segment(218, <<Len(s.cs)>> \o FlattenSeq([k \in DOMAIN s.cs |-> <<im.ids[s.cs[k]], 0>>])
                    \o <<s.ss, s.se, s.ah * 16 + s.al>>)
       \o FlattenSeq([r \in 1..Ceil(Len(mcus), per) |->
            (IF r = 1 THEN <<>> ELSE <<255, 208 + ((r - 2) % 8)>>) \o Entropy(McuBits(im, s, part(r)))])

\* Two quantisation tables, the second one of 16 bits.
Quant(t) == [k \in 1..64 |-> IF t = 0 THEN 3 + (k % 7) ELSE 2 + (k % 5)]
DQTBytes == Segment(219, <<0>> \o Quant(0) \o <<17>> \o FlattenSeq([k \in 1..64 |-> Two(Quant(1)[k])]))
TableOf(n) == IF n = 1 THEN 0 ELSE 1

HeadBytes(im) ==
  <<255, 216>> \o im.app \o DQTBytes \o Segment(196, DHTBytes(0, DcTable) \o DHTBytes(16, AcTable))
  \o (IF im.restart = 0 THEN <<>> ELSE Segment(221, Two(im.restart)))
  \o Segment(IF im.prog THEN 194 ELSE 192,
             <<8>> \o Two(im.y) \o Two(im.x) \o <<Len(im.fs)>>
             \o FlattenSeq([n \in DOMAIN im.fs |-> <<im.ids[n], im.fs[n][1] * 16 + im.fs[n][2], TableOf(n)>>]))

FileOf(im) == HeadBytes(im) \o FlattenSeq([i \in DOMAIN im.scans |-> ScanBytes(im, im.scans[i])]) \o im.tail

-----------------------------------------------------------------------------
(* Images. *)

\* Coefficients <<place, value>>: none, low ones, long runs up to the last place,
\* large ones, and values that take two scans to say.
Patterns == <<<<>>, <<<<2, 5>>, <<3, -2>>, <<5, 3>>>>, <<<<2, -1>>, <<21, 1>>, <<64, -1>>>>,
              <<<<2, 100>>, <<3, -60>>, <<4, 20>>>>,
              <<<<2, 5>>, <<4, -3>>, <<5, 1>>, <<6, -1>>, <<23, 1>>, <<24, 2>>, <<41, -1>>>>>>

Block(n, at, use) ==
  LET ps == Patterns[use[(Noise(at[1], at[2], n, 97) % Len(use)) + 1]]
  IN [k \in 1..64 |-> IF k = 1 THEN Noise(at[1], at[2], n, 81) - 40
                      ELSE LET i == {i \in DOMAIN ps : ps[i][1] = k}
                           IN IF i = {} THEN 0 ELSE ps[CHOOSE l \in i : TRUE][2]]

Coefs(x, y, fs, use) ==
  LET hm == Max({fs[n][1] : n \in DOMAIN fs})
      vm == Max({fs[n][2] : n \in DOMAIN fs})
  IN [n \in DOMAIN fs |-> [at \in (0..Ceil(x, 8 * hm) * fs[n][1] - 1) \X (0..Ceil(y, 8 * vm) * fs[n][2] - 1) |->
                             Block(n, at, use)]]

EOI == <<255, 217>>
Scan(cs, ss, se, ah, al) == [cs |-> cs, ss |-> ss, se |-> se, ah |-> ah, al |-> al]
AllOf(fs) == [n \in DOMAIN fs |-> n]
OneScan(fs) == <<Scan(AllOf(fs), 0, 63, 0, 0)>>
ManyScans(fs) == [n \in DOMAIN fs |-> Scan(<<n>>, 0, 63, 0, 0)]

Image(x, y, fs, use, prog, scans) ==
  [x |-> x, y |-> y, fs |-> fs, coefs |-> Coefs(x, y, fs, use), prog |-> prog, scans |-> scans,
   ids |-> <<1, 2, 3, 4>>, restart |-> 0, app |-> <<>>, tail |-> EOI]
Base(x, y, fs, use) == Image(x, y, fs, use, FALSE, OneScan(fs))

JobOf(im, req, colour) ==
  [via |-> "file", good |-> TRUE, req |-> req, colour |-> colour, file |-> FileOf(im),
   coefs |-> im.coefs, quant |-> [n \in DOMAIN im.fs |-> Quant(TableOf(n))]]
ColourOf(im) == IF Len(im.fs) = 1 THEN "grey" ELSE "YCbCr"
Good(im) == JobOf(im, 4, ColourOf(im))

Each(seq, op(_)) == [i \in DOMAIN seq |-> op(seq[i])]

F1 == <<1, 1>>
Grey == <<F1>>
YCC(f) == <<f, F1, F1>>
All == <<1, 2, 3, 4, 5>>

\* One for each resampler, with sizes that end within a block and within an MCU.
SamplingJobs ==
  Each(<<Base(11, 9, Grey, All), Base(8, 8, YCC(F1), All), Base(19, 17, YCC(<<2, 2>>), <<1, 2>>),
         Base(17, 5, YCC(<<2, 1>>), <<1, 4>>), Base(2, 3, YCC(<<2, 1>>), <<2>>), Base(1, 1, YCC(<<2, 2>>), <<2>>),
         Base(5, 17, YCC(<<1, 2>>), <<1, 2>>), Base(3, 16, YCC(<<1, 2>>), <<1>>), Base(33, 3, YCC(<<4, 1>>), <<1, 2>>),
         Base(33, 3, <<<<4, 1>>, <<2, 1>>, F1>>, <<1, 2>>), Base(3, 20, YCC(<<1, 4>>), <<1, 2>>),
         Base(10, 19, YCC(<<2, 4>>), <<1>>), Base(25, 4, YCC(<<3, 1>>), <<1>>),
         Base(10, 10, <<<<2, 2>>>>, <<1, 3>>), Base(10, 9, <<F1, <<2, 2>>, <<2, 1>>>>, <<1, 2>>),
         Image(10, 9, YCC(<<2, 2>>), <<2, 3>>, FALSE, ManyScans(YCC(<<2, 2>>)))>>, Good)

App(tag, bytes) == Segment(tag, bytes)
JFIF == App(224, <<74, 70, 73, 70, 0, 1, 1>>)
Adobe(t) == App(238, <<65, 100, 111, 98, 101, 0, 100, 0, 0, 0, 0, t>>)
CMYK == <<F1, F1, F1, F1>>

Tiny == Base(3, 2, YCC(F1), <<4, 2>>)
Tiny4 == Base(3, 2, CMYK, <<4, 2>>)
ColourJobs ==
  [r \in 1..4 |-> JobOf(Tiny, r - 1, "YCbCr")]
  \o [r \in 1..4 |-> JobOf([Tiny EXCEPT !.ids = <<82, 71, 66, 0>>], r, "RGB")]
  \o [r \in 1..2 |-> JobOf(Base(3, 2, Grey, <<4>>), r + 1, "grey")]
  \o <<JobOf([Tiny EXCEPT !.app = Adobe(0)], 4, "RGB"), JobOf([Tiny EXCEPT !.app = JFIF \o Adobe(0)], 4, "YCbCr"),
       JobOf([Tiny4 EXCEPT !.app = Adobe(0)], 4, "CMYK"), JobOf([Tiny4 EXCEPT !.app = Adobe(0)], 1, "CMYK"),
       JobOf([Tiny4 EXCEPT !.app = Adobe(2)], 4, "YCCK"), JobOf(Tiny4, 3, "YCbCr")>>

Long == Base(75, 2, Grey, <<1, 2>>)
StructureJobs ==
  Each(<<[Long EXCEPT !.restart = 1], [Long EXCEPT !.restart = 4],
         [Base(20, 10, YCC(<<2, 1>>), <<1, 2>>) EXCEPT !.restart = 1],
         [Tiny EXCEPT !.tail = <<0, 7, 255, 0, 255, 255>> \o <<217>>],
         [Tiny EXCEPT !.tail = <<255, 208>> \o Segment(220, Two(2)) \o Segment(254, <<1>>) \o EOI],
         [Tiny EXCEPT !.app = JFIF \o <<1, 2>> \o Segment(254, <<9>>)]>>, Good)

\* Progressive images: the bands, the bits, and ends that stretch over blocks.
Prog(x, y, fs, use, scans) == Image(x, y, fs, use, TRUE, scans)
ProgJobs ==
  Each(<<Prog(75, 5, Grey, <<1, 1, 1, 2>>, <<Scan(<<1>>, 0, 0, 0, 0), Scan(<<1>>, 1, 63, 0, 0)>>),
         Prog(75, 5, Grey, <<1, 5, 1>>, <<Scan(<<1>>, 0, 0, 0, 1), Scan(<<1>>, 1, 63, 0, 1), Scan(<<1>>, 0, 0, 1, 0),
                                          Scan(<<1>>, 1, 40, 1, 0)>>),
         Prog(20, 10, YCC(<<2, 2>>), <<1, 5>>,
              <<Scan(<<1, 2, 3>>, 0, 0, 0, 2), Scan(<<1>>, 1, 5, 0, 0), Scan(<<2>>, 1, 63, 0, 1), Scan(<<3>>, 1, 63, 0, 0),
                Scan(<<1, 2, 3>>, 0, 0, 2, 1), Scan(<<1>>, 6, 63, 0, 0), Scan(<<2>>, 1, 40, 1, 0),
                Scan(<<1, 2, 3>>, 0, 0, 1, 0)>>),
         [Prog(75, 5, Grey, <<1, 5>>, <<Scan(<<1>>, 0, 0, 0, 0), Scan(<<1>>, 1, 40, 0, 2), Scan(<<1>>, 1, 40, 2, 1),
                                        Scan(<<1>>, 1, 40, 1, 0)>>) EXCEPT !.restart = 4]>>, Good)

-----------------------------------------------------------------------------
(* Images sent through the writer. *)

WriteJob(x, y, q, use) ==
  LET fs == IF q <= 90 THEN YCC(<<2, 2>>) ELSE YCC(F1)
      im == Image(x, y, fs, use, FALSE, OneScan(fs))
      bs == FlattenSeq(McusOf(im, <<1, 2, 3>>))
  IN [via |-> "jpg", good |-> TRUE, req |-> 4, colour |-> "YCbCr", width |-> x, height |-> y, quality |-> q,
      units |-> [i \in DOMAIN bs |-> ZZ(im, bs[i])], coefs |-> im.coefs,
      quant |-> <<QTable(YQT, q), QTable(UVQT, q), QTable(UVQT, q)>>]

WriteJobs == <<WriteJob(10, 17, 90, <<1, 2, 3>>), WriteJob(9, 9, 97, <<2, 3, 5>>)>>

-----------------------------------------------------------------------------
(* Damaged files. *)

Bad_(bytes) == [via |-> "file", good |-> FALSE, req |-> 4, colour |-> "grey", file |-> bytes,
                coefs |-> <<>>, quant |-> <<>>]

\* A small file, and the same with its byte p replaced.
Dot == Base(3, 2, Grey, <<3>>)
DotFile == FileOf(Dot)
Where(bytes, m) == CHOOSE p \in DOMAIN bytes : bytes[p] = 255 /\ bytes[p + 1] = m
At_(m, k) == Where(DotFile, m) + 1 + k
With(p, v) == [DotFile EXCEPT ![p] = v]

\* The file cut short: in the headers and after every byte of the scan.
CutJobs == [n \in 1..4 |-> Bad_(SubSeq(DotFile, 1, (Len(DotFile) \div 5) * n))]
           \o [n \in 1..13 |-> Bad_(SubSeq(DotFile, 1, Len(DotFile) - n))]

\* Lengths, precision, sizes, components, factors and tables of the frame.
FrameJobs == Each(<<<<192, 3, 9>>, <<192, 5, 0>>, <<192, 7, 0>>, <<192, 8, 2>>, <<192, 2, 14>>, <<192, 10, 1>>,
                    <<192, 10, 80>>, <<192, 11, 4>>, <<192, 1, 1>>,
\* The tables: type, size of the codes, length of the segment.
                    <<219, 3, 32>>, <<219, 3, 4>>, <<219, 2, 70>>, <<196, 3, 32>>, <<196, 4, 3>>, <<196, 2, 20>>,
                    <<219, 0, 221>>, <<219, 0, 200>>,
\* The scan: components, their names and tables, the band.
                    <<218, 3, 2>>, <<218, 2, 9>>, <<218, 4, 7>>, <<218, 5, 64>>, <<218, 5, 4>>, <<218, 5, 16>>,
                    <<218, 6, 1>>, <<218, 8, 16>>>>,
                  LAMBDA e : Bad_(With(At_(e[1], e[2]), e[3])))

\* Files after the headers of im: no code, codes without a table, and markers
\* that end the scan or follow it.
After(im, bytes) == Bad_(SubSeq(HeadBytes(im), 1, Len(HeadBytes(im))) \o bytes)
Sos(cs, ss, se, a) ==
  Segment(218, <<Len(cs)>> \o FlattenSeq([k \in DOMAIN cs |-> <<cs[k], 0>>]) \o <<ss, se, a>>)
DotProg == Prog(3, 2, Grey, <<3>>, <<>>)
Wide == Base(3, 2, <<<<4, 1>>, <<3, 1>>, F1>>, <<1>>)

ScanJobs ==
  <<After(Dot, Sos(<<1>>, 0, 63, 0) \o <<255, 0, 255, 0, 255, 0>> \o EOI),
    After(Dot, Sos(<<1>>, 0, 63, 0) \o <<0, 255, 0, 255, 0>> \o EOI),
    After(Dot, Segment(220, Two(3)) \o EOI), After(Dot, Segment(221, <<0>>) \o EOI), After(Dot, EOI),
    After(Dot, Segment(224, <<74>>) \o Segment(238, <<65>>) \o <<255, 1>>),
    After(DotProg, EOI), After(DotProg, Sos(<<1>>, 0, 5, 0) \o EOI), After(DotProg, Sos(<<1>>, 6, 5, 0) \o EOI),
    After(DotProg, Sos(<<1>>, 0, 0, 14) \o EOI), After(DotProg, Sos(<<1>>, 0, 0, 16) \o <<128>> \o EOI),
    After(DotProg, Sos(<<1>>, 1, 5, 16) \o <<128>> \o EOI),
    After(DotProg, Sos(<<1>>, 1, 5, 16) \o Entropy(AcSym(2)) \o EOI),
    After(DotProg, Sos(<<1>>, 1, 5, 0) \o <<255, 0, 255, 0, 255, 0>> \o EOI),
    After(DotProg, Sos(<<1>>, 0, 0, 0) \o Entropy(DcBits(3))),
    After(DotProg, Sos(<<1>>, 0, 0, 0) \o <<255, 0, 255, 0>> \o EOI),
    Bad_(<<255, 217>>), Bad_(<<255, 216, 0, 0>>), Bad_(<<255, 216, 255, 216>>),
    Bad_(<<255, 216>> \o Segment(221, <<0>>)), Bad_(FileOf(Wide)),
    [Good([Dot EXCEPT !.tail = <<>>]) EXCEPT !.good = FALSE],
    Bad_(<<255, 216>> \o Segment(192, <<8, 0, 2, 0, 3, 1, 1, 17, 0>>) \o Sos(<<1>>, 0, 63, 0) \o EOI),
    Bad_(FileOf([Long EXCEPT !.restart = 3, !.scans = <<>>, !.tail = Sos(<<1>>, 0, 63, 0) \o <<0, 0, 0, 0>> \o EOI]))>>

AllJobs == Range(SamplingJobs \o ColourJobs \o StructureJobs \o ProgJobs \o WriteJobs
                   \o CutJobs \o FrameJobs \o ScanJobs)
=============================================================================
