------------------------- MODULE FacetRasterProofs -------------------------
(* What holds of the rasterizer for every canvas, path, colour and capacity, *)
(* and whichever allocations fail: its buffers are given back and, but for a *)
(* path that cannot grow, never written past; blending keeps alpha           *)
(* premultiplied.                                                            *)
EXTENDS FacetRaster, TLAPS

Sequence(s) == \E S : s \in Seq(S)

\* The path and the edge table have room, but for the command that is written
\* after the path could not grow; a path that can be added to doubles from at
\* least one.
Rooms ==
  /\ Sequence(path.cmds) /\ path.capacity \in Nat
  /\ Len(path.cmds) <= path.capacity + (IF pc = "undefined" THEN 1 ELSE 0)
  /\ Sequence(et.edges) /\ et.capacity \in Nat /\ Len(et.edges) <= et.capacity
  /\ pc \in {"canvas_new", "clear", "build", "flatten", "sweep"} => path.capacity > 0

\* What is allocated at each step.
Allocated ==
  /\ pc \in {"path_new", "canvas_new", "clear", "build", "flatten", "sweep", "path_free", "end", "undefined"}
  /\ pc \in {"path_new", "end"} => heap = {}
  /\ pc \in {"canvas_new", "path_free"} => heap = {"path", "cmds"}
  /\ pc \in {"clear", "build"} => heap = Held
  /\ pc \in {"flatten", "sweep"} => Held \subseteq heap /\ heap \subseteq Held \cup {"edges", "coverage"}

\* The canvas, once there is one, and the fill that is under way.
Canvas == [1..job.height -> [1..job.width -> Colours]]
Painting ==
  /\ job \in Jobs
  /\ pixels = <<>> \/ pixels \in Canvas
  /\ pc \in {"clear", "build", "flatten", "sweep"} => pixels \in Canvas
  /\ fills \in Nat /\ fills <= Len(job.fills)
  /\ pc \in {"flatten", "sweep"} => fills > 0
  /\ Premultiplied

RInv == Rooms /\ Allocated /\ Painting

-----------------------------------------------------------------------------
\* A sequence with one more element is a sequence, and one longer.
LEMMA Appended ==
  ASSUME NEW s, Sequence(s), NEW e
  PROVE  Sequence(Append(s, e)) /\ Len(Append(s, e)) = Len(s) + 1 /\ Len(s) \in Nat
<1>1. PICK S : s \in Seq(S)
  BY DEF Sequence
<1>2. s \in Seq(S \cup {e})
  BY <1>1
<1>3. Append(s, e) \in Seq(S \cup {e}) /\ Len(Append(s, e)) = Len(s) + 1 /\ Len(s) \in Nat
  BY <1>2
<1> QED BY <1>3 DEF Sequence

\* The empty sequence is one.
LEMMA EmptyOne == Sequence(<<>>) /\ Len(<<>>) = 0
<1>1. <<>> \in Seq({})
  OBVIOUS
<1> QED BY <1>1 DEF Sequence

\* What is left of the component x of a pixel under a colour whose alpha leaves
\* m of 255, and the component r over it.
Share(x, m) == (x * m) \div 255
Sum(r, x, a) == r + Share(x, 255 - a)

\* The share keeps the order and stays below m.
LEMMA ShareBound ==
  ASSUME NEW x \in 0..255, NEW y \in 0..255, NEW m \in 0..255
  PROVE  Share(x, m) \in Nat /\ Share(x, m) <= m /\ (x <= y => Share(x, m) <= Share(y, m))
<1> DEFINE p == x * m
           q == y * m
<1>1. p \in Nat /\ q \in Nat
  OBVIOUS
<1>2. x <= y => p <= q
  OBVIOUS
<1>3. p <= 255 * m
  OBVIOUS
<1>4. Share(x, m) = p \div 255 /\ Share(y, m) = q \div 255
  BY DEF Share
<1> HIDE DEF p, q
<1> QED BY <1>1, <1>2, <1>3, <1>4

\* One component r over x, under the alpha a.
LEMMA SumBound ==
  ASSUME NEW x \in 0..255, NEW r \in 0..255, NEW a \in 0..255
  PROVE  Sum(r, x, a) \in Nat /\ (r <= a => Sum(r, x, a) <= 255)
<1> DEFINE m == 255 - a
           u == Share(x, m)
<1>1. m \in 0..255 /\ a + m = 255
  OBVIOUS
<1>2. Sum(r, x, a) = r + u
  BY DEF Sum
<1> HIDE DEF m
<1>3. u \in Nat /\ u <= m
  BY <1>1, ShareBound
<1> HIDE DEF u
<1> QED BY <1>1, <1>2, <1>3

\* It stays below the alpha over y when both it and x did.
LEMMA SumOrder ==
  ASSUME NEW x \in 0..255, NEW y \in 0..255, NEW r \in 0..255, NEW a \in 0..255, r <= a, x <= y
  PROVE  Sum(r, x, a) <= Sum(a, y, a)
<1> DEFINE m == 255 - a
           u == Share(x, m)
           v == Share(y, m)
<1>1. m \in 0..255
  OBVIOUS
<1>2. Sum(r, x, a) = r + u /\ Sum(a, y, a) = a + v
  BY DEF Sum
<1> HIDE DEF m
<1>3. u \in Nat /\ v \in Nat /\ u <= v
  BY <1>1, ShareBound
<1> HIDE DEF u, v
<1> QED BY <1>2, <1>3

\* canvas_blend gives a colour; when both its arguments are premultiplied no sum
\* wraps, and the colour is premultiplied.
LEMMA Blended ==
  ASSUME NEW px \in Colours, NEW c \in Colours
  PROVE  /\ canvas_blend(px, c) \in Colours
         /\ IsPremultiplied(px) /\ IsPremultiplied(c) => IsPremultiplied(canvas_blend(px, c))
<1> DEFINE over == [k \in 1..4 |-> Sum(c[k], px[k], c[4])]
           sum == [k \in 1..4 |-> (c[k] + (px[k] * (255 - c[4])) \div 255) % 256]
<1>1. \A k \in 1..4 : c[k] \in 0..255 /\ px[k] \in 0..255
  BY DEF Colours
<1>2. \A k \in 1..4 : /\ over[k] \in Nat
                      /\ c[k] <= c[4] => over[k] <= 255
                      /\ c[k] <= c[4] /\ px[k] <= px[4] => over[k] <= over[4]
  <2> SUFFICES ASSUME NEW k \in 1..4
               PROVE  /\ over[k] \in Nat
                      /\ c[k] <= c[4] => over[k] <= 255
                      /\ c[k] <= c[4] /\ px[k] <= px[4] => over[k] <= over[4]
    OBVIOUS
  <2>1. c[k] \in 0..255 /\ px[k] \in 0..255 /\ c[4] \in 0..255 /\ px[4] \in 0..255
    BY <1>1
  <2>2. over[k] = Sum(c[k], px[k], c[4]) /\ over[4] = Sum(c[4], px[4], c[4])
    OBVIOUS
  <2> DEFINE x == px[k]
             y == px[4]
             r == c[k]
             a == c[4]
  <2> HIDE DEF x, y, r, a
  <2>3. /\ Sum(r, x, a) \in Nat
        /\ r <= a => Sum(r, x, a) <= 255
        /\ r <= a /\ x <= y => Sum(r, x, a) <= Sum(a, y, a)
    <3>1. r \in 0..255 /\ x \in 0..255 /\ a \in 0..255 /\ y \in 0..255
      BY <2>1 DEF x, y, r, a
    <3> QED BY <3>1, SumBound, SumOrder
  <2> HIDE DEF over
  <2> QED BY <2>2, <2>3 DEF x, y, r, a
<1>3. canvas_blend(px, c) \in {c, sum, px}
  BY DEF canvas_blend
<1>4. \A k \in 1..4 : sum[k] = over[k] % 256
  BY DEF Sum, Share
<1>5. sum = [k \in 1..4 |-> sum[k]]
  OBVIOUS
<1> HIDE DEF over, sum
<1>6. sum \in Colours
  <2>1. ASSUME NEW k \in 1..4 PROVE sum[k] \in 0..255
    <3>1. over[k] \in Nat /\ sum[k] = over[k] % 256
      BY <1>2, <1>4
    <3> QED BY <3>1
  <2> QED BY <1>5, <2>1 DEF Colours
<1>7. ASSUME IsPremultiplied(px), IsPremultiplied(c) PROVE IsPremultiplied(sum)
  <2>1. ASSUME NEW k \in 1..4 PROVE sum[k] = over[k] /\ over[k] <= over[4]
    <3>1. c[k] <= c[4] /\ px[k] <= px[4]
      BY <1>1, <1>7 DEF IsPremultiplied
    <3>2. over[k] \in Nat /\ over[k] <= 255 /\ over[k] <= over[4] /\ sum[k] = over[k] % 256
      BY <1>2, <1>4, <3>1
    <3> QED BY <3>2
  <2> QED BY <2>1 DEF IsPremultiplied
<1> QED BY <1>3, <1>6, <1>7

\* canvas_blend is source over, as if its sums had no limit, when canvas and
\* colour are premultiplied: no sum wraps, and the shortcuts for an opaque and
\* for a clear colour give what the sums would.
THEOREM BlendExact ==
  \A px, c \in Colours : IsPremultiplied(px) /\ IsPremultiplied(c) => canvas_blend(px, c) = Over(px, c)
<1> SUFFICES ASSUME NEW px \in Colours, NEW c \in Colours, IsPremultiplied(px), IsPremultiplied(c)
             PROVE  canvas_blend(px, c) = Over(px, c)
  OBVIOUS
<1>1. \A k \in 1..4 : c[k] \in 0..255 /\ px[k] \in 0..255 /\ c[k] <= c[4]
  BY DEF Colours, IsPremultiplied
<1>2. c = [k \in 1..4 |-> c[k]] /\ px = [k \in 1..4 |-> px[k]]
  BY DEF Colours
<1>3. CASE c[4] = 255
  <2>1. ASSUME NEW k \in 1..4 PROVE c[k] = c[k] + (px[k] * (255 - c[4])) \div 255
    <3> DEFINE x == px[k]
    <3>1. x \in 0..255 /\ c[k] \in 0..255 /\ 255 - c[4] = 0
      BY <1>1, <1>3
    <3> HIDE DEF x
    <3>2. (x * 0) \div 255 = 0
      BY <3>1
    <3> QED BY <3>1, <3>2 DEF x
  <2> QED BY <1>2, <1>3, <2>1 DEF canvas_blend, Over
<1>4. CASE c[4] = 0
  <2>1. ASSUME NEW k \in 1..4 PROVE px[k] = c[k] + (px[k] * (255 - c[4])) \div 255
    <3> DEFINE x == px[k]
    <3>1. x \in 0..255 /\ c[k] = 0 /\ 255 - c[4] = 255
      <4>1. px[k] \in 0..255 /\ c[k] \in 0..255 /\ c[k] <= c[4]
        BY <1>1
      <4> QED BY <1>4, <4>1
    <3> HIDE DEF x
    <3>2. x * 255 = 255 * x + 0 /\ (255 * x) \div 255 = x
      BY <3>1
    <3> QED BY <3>1, <3>2 DEF x
  <2> QED BY <1>2, <1>4, <2>1 DEF canvas_blend, Over
<1>5. CASE c[4] \in 1..254
  <2>1. ASSUME NEW k \in 1..4
        PROVE  (c[k] + (px[k] * (255 - c[4])) \div 255) % 256 = c[k] + (px[k] * (255 - c[4])) \div 255
    <3> DEFINE x == px[k]
               r == c[k]
               a == c[4]
    <3>1. x \in 0..255 /\ r \in 0..255 /\ a \in 0..255 /\ r <= a
      BY <1>1
    <3> HIDE DEF x, r, a
    <3>2. Sum(r, x, a) \in 0..255
      <4>1. Sum(r, x, a) \in Nat /\ Sum(r, x, a) <= 255
        BY <3>1, SumBound
      <4> QED BY <4>1
    <3>3. Sum(r, x, a) % 256 = Sum(r, x, a)
      BY <3>2
    <3> QED BY <3>3 DEF Sum, Share, x, r, a
  <2> QED BY <1>5, <2>1 DEF canvas_blend, Over
<1> QED BY <1>1, <1>3, <1>4, <1>5

-----------------------------------------------------------------------------
(* The steps.                                                                *)

\* Adding a command: the path doubles when it is full.
LEMMA AddKeeps == ASSUME RInv, NEW type, Asked(type) PROVE RInv'
<1> DEFINE cmd == job.cmds[Len(path.cmds) + 1]
<1>1. pc = "build" /\ Add(cmd) /\ UNCHANGED <<job, heap, pixels, fills, et>>
  BY DEF Asked, rvars
<1> HIDE DEF cmd
<1>2. /\ Sequence(path.cmds) /\ path.capacity \in Nat /\ Len(path.cmds) <= path.capacity
      /\ path.capacity > 0
  BY <1>1 DEF RInv, Rooms
<1>3. Sequence(Append(path.cmds, cmd)) /\ Len(Append(path.cmds, cmd)) = Len(path.cmds) + 1 /\ Len(path.cmds) \in Nat
  BY <1>2, Appended
<1>4. Rooms'
  <2> DEFINE cap == IF Len(path.cmds) >= path.capacity THEN 2 * path.capacity ELSE path.capacity
  <2>1. cap \in Nat /\ Len(path.cmds) + 1 <= cap /\ cap > 0
    BY <1>2, <1>3
  <2>2. \/ path' = [cmds |-> Append(path.cmds, cmd), capacity |-> cap]
        \/ /\ path' = [cmds |-> Append(path.cmds, cmd), capacity |-> path.capacity]
           /\ pc' = "undefined"
    BY <1>1 DEF Add
  <2> HIDE DEF cap
  <2>3. /\ Sequence(path'.cmds) /\ path'.capacity \in Nat /\ path'.capacity > 0
        /\ Len(path'.cmds) <= path'.capacity + (IF pc' = "undefined" THEN 1 ELSE 0)
    <3>1. CASE path' = [cmds |-> Append(path.cmds, cmd), capacity |-> cap]
      <4>1. path'.cmds = Append(path.cmds, cmd) /\ path'.capacity = cap
        BY <3>1
      <4> QED BY <1>3, <2>1, <4>1
    <3>2. CASE path' = [cmds |-> Append(path.cmds, cmd), capacity |-> path.capacity] /\ pc' = "undefined"
      <4>1. path'.cmds = Append(path.cmds, cmd) /\ path'.capacity = path.capacity
        BY <3>2
      <4> QED BY <1>2, <1>3, <3>2, <4>1
    <3> QED BY <2>2, <3>1, <3>2
  <2> QED BY <1>1, <2>3 DEF RInv, Rooms
<1>5. Allocated' /\ Painting'
  BY <1>1 DEF RInv, Allocated, Painting, Add, Canvas, Premultiplied, ColoursPremultiplied, Held
<1> QED BY <1>4, <1>5 DEF RInv

\* A step that leaves canvas, path and job alone.
LEMMA PaintingStays ==
  ASSUME Painting, UNCHANGED <<job, pixels, fills>>,
         pc' \in {"clear", "build", "flatten", "sweep"} => pixels \in Canvas,
         pc' \in {"flatten", "sweep"} => fills > 0
  PROVE  Painting'
BY DEF Painting, Canvas, Premultiplied, ColoursPremultiplied

\* A canvas of one colour.
LEMMA Uniform ==
  ASSUME job \in Jobs, UNCHANGED job, NEW c \in Colours, ColoursPremultiplied => IsPremultiplied(c),
         pixels' = [y \in 1..job.height |-> [x \in 1..job.width |-> c]]
  PROVE  pixels' \in Canvas' /\ Premultiplied'
BY DEF Canvas, Premultiplied, ColoursPremultiplied

\* The path, the canvas and its clearing.
LEMMA OpenKeeps == RInv /\ (facet_path_new \/ facet_canvas_new \/ facet_canvas_clear) => RInv'
<1> SUFFICES ASSUME RInv, facet_path_new \/ facet_canvas_new \/ facet_canvas_clear PROVE RInv'
  OBVIOUS
<1>0. Rooms /\ Allocated /\ Painting /\ job \in Jobs
  BY DEF RInv, Painting
<1>1. CASE facet_path_new
  <2>1. Rooms'
    BY <1>0, <1>1, EmptyOne, CapAssumption DEF Rooms, facet_path_new, rvars
  <2>2. Allocated'
    BY <1>0, <1>1 DEF Allocated, facet_path_new
  <2>3. Painting'
    BY <1>0, <1>1, PaintingStays DEF facet_path_new
  <2> QED BY <2>1, <2>2, <2>3 DEF RInv
<1>2. CASE facet_canvas_new
  <2>1. Rooms'
    BY <1>0, <1>2 DEF Rooms, facet_canvas_new, rvars
  <2>2. Allocated'
    BY <1>0, <1>2 DEF Allocated, facet_canvas_new, Held
  <2>3. CASE pixels' = [y \in 1..job.height |-> [x \in 1..job.width |-> <<0, 0, 0, 0>>]] /\ pc' = "clear"
    <3>1. <<0, 0, 0, 0>> \in Colours /\ IsPremultiplied(<<0, 0, 0, 0>>)
      BY DEF Colours, IsPremultiplied
    <3>2. pixels' \in Canvas' /\ Premultiplied'
      BY <1>0, <1>2, <2>3, <3>1, Uniform DEF facet_canvas_new
    <3>3. Painting'
      BY <1>0, <1>2, <2>3, <3>2 DEF Painting, facet_canvas_new
    <3> QED BY <2>1, <2>2, <3>3 DEF RInv
  <2>4. CASE UNCHANGED pixels /\ pc' = "path_free"
    BY <1>0, <1>2, <2>1, <2>2, <2>4, PaintingStays DEF facet_canvas_new, RInv
  <2> QED BY <1>2, <2>3, <2>4 DEF facet_canvas_new
<1>3. CASE facet_canvas_clear
  <2>1. Rooms'
    BY <1>0, <1>3 DEF Rooms, facet_canvas_clear, rvars
  <2>2. Allocated'
    BY <1>0, <1>3 DEF Allocated, facet_canvas_clear, Held
  <2>3. pixels \in Canvas /\ job.clear \in Colours /\ UNCHANGED <<job, fills>>
    BY <1>0, <1>3, JobsAssumption DEF Painting, facet_canvas_clear
  <2>4. CASE Fits
    <3>1. pc' = "build" /\ pixels' = [y \in 1..job.height |-> [x \in 1..job.width |-> job.clear]]
      BY <1>3, <2>3, <2>4 DEF facet_canvas_clear, Canvas
    <3>2. pixels' \in Canvas' /\ Premultiplied'
      BY <1>0, <2>3, <3>1, Uniform DEF ColoursPremultiplied
    <3>3. Painting'
      BY <1>0, <2>3, <3>1, <3>2 DEF Painting
    <3> QED BY <2>1, <2>2, <3>3 DEF RInv
  <2>5. CASE ~ Fits
    <3>1. pc' = "undefined" /\ UNCHANGED pixels
      BY <1>3, <2>5 DEF facet_canvas_clear
    <3>2. Painting'
      BY <1>0, <2>3, <3>1, PaintingStays
    <3> QED BY <2>1, <2>2, <3>2 DEF RInv
  <2> QED BY <2>4, <2>5
<1> QED BY <1>1, <1>2, <1>3

\* The start of a fill and the flattening of a command.
LEMMA FillKeeps == RInv /\ (facet_canvas_fill \/ flatten_command) => RInv'
<1> SUFFICES ASSUME RInv, facet_canvas_fill \/ flatten_command PROVE RInv'
  OBVIOUS
<1>0. Rooms /\ Allocated /\ Painting
  BY DEF RInv
<1>1. CASE facet_canvas_fill
  <2>1. UNCHANGED <<job, path, pixels>> /\ pc = "build" /\ fills' = fills + 1 /\ fills < Len(job.fills)
    BY <1>1 DEF facet_canvas_fill
  <2>2. et' \in {et, NoTable, [edges |-> <<>>, capacity |-> EdgeCap]} /\ pc' \in {"build", "flatten"}
    BY <1>1, <2>1 DEF facet_canvas_fill
  <2>3. Rooms'
    <3>1. Sequence(et'.edges) /\ et'.capacity \in Nat /\ Len(et'.edges) <= et'.capacity
      BY <1>0, <2>2, EmptyOne, CapAssumption DEF NoTable, Rooms
    <3> QED BY <1>0, <2>1, <2>2, <3>1 DEF Rooms
  <2>4. Allocated'
    BY <1>0, <1>1 DEF Allocated, facet_canvas_fill, Held
  <2>5. Painting'
    <3>1. job \in Jobs /\ pixels \in Canvas /\ fills \in Nat /\ Len(job.fills) \in Nat
      BY <1>0, <2>1, JobsAssumption DEF Painting
    <3>2. fills' \in Nat /\ fills' > 0 /\ fills' <= Len(job.fills)
      BY <2>1, <3>1
    <3> QED BY <1>0, <2>1, <3>1, <3>2 DEF Painting, Canvas, Premultiplied, ColoursPremultiplied
  <2> QED BY <2>3, <2>4, <2>5 DEF RInv
<1>2. CASE flatten_command
  <2>1. UNCHANGED <<job, pc, heap, path, pixels, fills, et>>
    BY <1>2 DEF flatten_command
  <2> QED BY <1>0, <2>1 DEF RInv, Rooms, Allocated, Painting, Canvas, Premultiplied, ColoursPremultiplied, Held
<1> QED BY <1>1, <1>2

\* An edge is added where there is room or the table can grow, or is lost.
LEMMA PushKeeps == RInv /\ et_push => RInv'
<1> SUFFICES ASSUME RInv, et_push PROVE RInv'
  OBVIOUS
<1>0. Rooms /\ Allocated /\ Painting
  BY DEF RInv
<1>1. pc = "flatten" /\ UNCHANGED <<job, pc, path, pixels, fills>>
  BY DEF et_push
<1> DEFINE e == Head(pending)
           full == Len(et.edges) >= et.capacity
           cap == IF full THEN IF et.capacity = 0 THEN EdgeCap ELSE 2 * et.capacity ELSE et.capacity
<1>2. \/ et' = [edges |-> Append(et.edges, e), capacity |-> cap] /\ heap' = heap \cup {"edges"}
      \/ UNCHANGED <<et, heap>>
  BY DEF et_push
<1>3. Sequence(et.edges) /\ et.capacity \in Nat /\ Len(et.edges) <= et.capacity
  BY <1>0 DEF Rooms
<1> HIDE DEF e
<1>4. Sequence(Append(et.edges, e)) /\ Len(Append(et.edges, e)) = Len(et.edges) + 1 /\ Len(et.edges) \in Nat
  BY <1>3, Appended
<1>5. cap \in Nat /\ Len(et.edges) + 1 <= cap
  BY <1>3, <1>4, CapAssumption
<1> HIDE DEF cap
<1>6. Sequence(et'.edges) /\ et'.capacity \in Nat /\ Len(et'.edges) <= et'.capacity
  <2>1. CASE et' = [edges |-> Append(et.edges, e), capacity |-> cap]
    <3>1. et'.edges = Append(et.edges, e) /\ et'.capacity = cap
      BY <2>1
    <3> QED BY <1>4, <1>5, <3>1
  <2>2. CASE et' = et
    BY <1>3, <2>2
  <2> QED BY <1>2, <2>1, <2>2
<1>7. Rooms'
  BY <1>0, <1>1, <1>6 DEF Rooms
<1>8. Allocated'
  BY <1>0, <1>1, <1>2 DEF Allocated, Held
<1>9. Painting'
  BY <1>0, <1>1, PaintingStays DEF Painting
<1> QED BY <1>7, <1>8, <1>9 DEF RInv

\* A fill that returns leaves the path and the canvas.
LEMMA ReturnsKeeps == ASSUME RInv, pc \in {"flatten", "sweep"}, Returns PROVE RInv'
<1>0. Rooms /\ Allocated /\ Painting
  BY DEF RInv
<1>1. Rooms'
  BY <1>0, EmptyOne DEF Rooms, Returns, NoTable
<1>2. Allocated'
  BY <1>0 DEF Allocated, Returns, Held
<1>3. Painting'
  BY <1>0, PaintingStays DEF Painting, Returns
<1> QED BY <1>1, <1>2, <1>3 DEF RInv

\* The sweep takes its coverage buffer and ends with the return, or never starts.
LEMMA SweepKeeps == RInv /\ (start_sweep \/ end_sweep) => RInv'
<1> SUFFICES ASSUME RInv, start_sweep \/ end_sweep, ~ Returns PROVE RInv'
  BY ReturnsKeeps DEF start_sweep, end_sweep
<1>1. /\ pc = "flatten" /\ pc' = "sweep" /\ heap' = heap \cup {"coverage"}
      /\ UNCHANGED <<job, path, pixels, fills, et>>
  BY DEF start_sweep, end_sweep
<1>2. Rooms'
  BY <1>1 DEF RInv, Rooms
<1>3. Allocated'
  BY <1>1 DEF RInv, Allocated, Held
<1>4. Painting'
  BY <1>1, PaintingStays DEF RInv, Painting
<1> QED BY <1>2, <1>3, <1>4 DEF RInv

\* A row keeps its pixels or blends the colour of the fill over them.
LEMMA RowColours ==
  ASSUME NEW w \in Nat, NEW r \in [1..w -> Colours], NEW c \in Colours, NEW q,
         q = [x \in 1..w |-> q[x]], \A x \in 1..w : q[x] \in {r[x], canvas_blend(r[x], c)}
  PROVE  /\ q \in [1..w -> Colours]
         /\ IsPremultiplied(c) /\ (\A x \in 1..w : IsPremultiplied(r[x])) =>
              \A x \in 1..w : IsPremultiplied(q[x])
<1>1. ASSUME NEW x \in 1..w
      PROVE  /\ q[x] \in Colours
             /\ IsPremultiplied(c) /\ IsPremultiplied(r[x]) => IsPremultiplied(q[x])
  <2>1. r[x] \in Colours
    OBVIOUS
  <2> QED BY <2>1, Blended
<1> QED BY <1>1

\* One scanline of facet_canvas_fill changes one row, if it is on the canvas.
LEMMA ScanKeeps == RInv /\ scanline => RInv'
<1> SUFFICES ASSUME RInv, scanline PROVE RInv'
  OBVIOUS
<1>0. Rooms /\ Allocated /\ Painting
  BY DEF RInv
<1>1. pc = "sweep" /\ UNCHANGED <<job, pc, heap, path, fills, et>>
  BY DEF scanline
<1>2. /\ job \in Jobs /\ pixels \in Canvas /\ fills \in Nat /\ fills > 0 /\ fills <= Len(job.fills)
      /\ Premultiplied
  BY <1>0, <1>1 DEF Painting
<1>3. /\ job.width \in Nat /\ job.height \in Nat /\ job.fills \in Seq(Colours \X {"NONZERO", "EVENODD"})
  BY <1>2, JobsAssumption
<1>4. fills \in DOMAIN job.fills
  BY <1>2, <1>3
<1>5. Colour \in Colours /\ (ColoursPremultiplied => IsPremultiplied(Colour))
  BY <1>3, <1>4 DEF Colour, ColoursPremultiplied
<1> DEFINE q == [x \in 1..job.width |->
                   IF Fills(Winding(at * ONE + ONE \div 2, x - 1), Rule)
                   THEN canvas_blend(pixels[at + 1][x], Colour) ELSE pixels[at + 1][x]]
<1>6. pixels' = [pixels EXCEPT ![at + 1] = q]
  BY DEF scanline
<1>7. /\ q = [x \in 1..job.width |-> q[x]]
      /\ \A x \in 1..job.width : q[x] \in {pixels[at + 1][x], canvas_blend(pixels[at + 1][x], Colour)}
  OBVIOUS
<1> HIDE DEF q
<1>8. at + 1 \in 1..job.height =>
        /\ q \in [1..job.width -> Colours]
        /\ ColoursPremultiplied => \A x \in 1..job.width : IsPremultiplied(q[x])
  <2> SUFFICES ASSUME at + 1 \in 1..job.height
               PROVE  /\ q \in [1..job.width -> Colours]
                      /\ ColoursPremultiplied => \A x \in 1..job.width : IsPremultiplied(q[x])
    OBVIOUS
  <2> DEFINE r == pixels[at + 1]
  <2>1. /\ r \in [1..job.width -> Colours]
        /\ ColoursPremultiplied => \A x \in 1..job.width : IsPremultiplied(r[x])
    BY <1>2 DEF Canvas, Premultiplied
  <2>2. \A x \in 1..job.width : q[x] \in {r[x], canvas_blend(r[x], Colour)}
    BY <1>7
  <2> HIDE DEF r
  <2> QED BY <1>3, <1>5, <1>7, <2>1, <2>2, RowColours
<1>9. pixels' \in Canvas
  BY <1>2, <1>6, <1>8 DEF Canvas
<1>10. Premultiplied'
  <2> SUFFICES ASSUME ColoursPremultiplied, NEW y \in 1..job.height, NEW x \in 1..job.width
               PROVE  IsPremultiplied(pixels'[y][x])
    BY <1>1, <1>9 DEF Premultiplied, ColoursPremultiplied, Canvas
  <2>1. IsPremultiplied(pixels[y][x])
    BY <1>2 DEF Premultiplied, Canvas
  <2>2. pixels'[y] = IF y = at + 1 THEN q ELSE pixels[y]
    BY <1>2, <1>6 DEF Canvas
  <2> QED BY <1>8, <2>1, <2>2
<1>11. Painting'
  BY <1>0, <1>1, <1>9, <1>10 DEF Painting, Canvas
<1>12. Rooms' /\ Allocated'
  BY <1>0, <1>1 DEF Rooms, Allocated, Held
<1> QED BY <1>11, <1>12 DEF RInv

\* The canvas and the path are freed.
LEMMA FreeKeeps == RInv /\ (facet_canvas_free \/ facet_path_free) => RInv'
<1> SUFFICES ASSUME RInv, facet_canvas_free \/ facet_path_free PROVE RInv'
  OBVIOUS
<1>1. UNCHANGED <<job, path, pixels, fills, et>> /\ pc # "undefined" /\ pc' \in {"path_free", "end"}
  BY DEF facet_canvas_free, facet_path_free, rvars
<1>2. Rooms'
  BY <1>1 DEF RInv, Rooms
<1>3. Allocated'
  BY DEF RInv, Allocated, facet_canvas_free, facet_path_free, Held
<1>4. Painting'
  BY <1>1, PaintingStays DEF RInv, Painting
<1> QED BY <1>2, <1>3, <1>4 DEF RInv

\* It holds before anything is allocated.
LEMMA InvFirst == Init => RInv
<1> SUFFICES ASSUME Init PROVE RInv
  OBVIOUS
<1>1. Rooms
  BY EmptyOne DEF Init, Rooms, NoTable
<1>2. Allocated
  BY DEF Init, Allocated
<1>3. Painting
  <2>1. job \in Jobs /\ pixels = <<>> /\ fills = 0 /\ Len(job.fills) \in Nat /\ pc = "path_new"
    BY JobsAssumption DEF Init
  <2>2. DOMAIN pixels = {}
    BY <2>1
  <2> QED BY <2>1, <2>2 DEF Painting, Premultiplied
<1> QED BY <1>1, <1>2, <1>3 DEF RInv

\* Every step of the driver keeps it.
LEMMA InvNext == RInv /\ [Next]_vars => RInv'
<1> SUFFICES ASSUME RInv, [Next]_vars PROVE RInv'
  OBVIOUS
<1>1. CASE facet_path_new \/ facet_canvas_new \/ facet_canvas_clear
  BY <1>1, OpenKeeps
<1>2. CASE \/ facet_path_move_to \/ facet_path_line_to \/ facet_path_quad_to \/ facet_path_cubic_to
           \/ facet_path_close
  BY <1>2, AddKeeps DEF facet_path_move_to, facet_path_line_to, facet_path_quad_to,
                        facet_path_cubic_to, facet_path_close
<1>3. CASE facet_canvas_fill \/ flatten_command
  BY <1>3, FillKeeps
<1>4. CASE et_push
  BY <1>4, PushKeeps
<1>5. CASE start_sweep \/ end_sweep
  BY <1>5, SweepKeeps
<1>6. CASE scanline
  BY <1>6, ScanKeeps
<1>7. CASE facet_canvas_free \/ facet_path_free
  BY <1>7, FreeKeeps
<1>8. CASE UNCHANGED vars
  <2>1. UNCHANGED <<job, pc, heap, path, pixels, fills, et>>
    BY <1>8 DEF vars, rvars
  <2> QED BY <2>1 DEF RInv, Rooms, Allocated, Painting, Canvas, Premultiplied, ColoursPremultiplied
<1> QED BY <1>1, <1>2, <1>3, <1>4, <1>5, <1>6, <1>7, <1>8 DEF Next, Step

\* For every path, colour and canvas, and whichever allocations fail, the edge
\* table keeps to its room, facet_canvas_fill gives back all that it allocates,
\* and the driver ends with nothing allocated; the path keeps to its room until
\* path_ensure_capacity fails, and is then one command past it.
THEOREM BuffersAlwaysSafe == Spec => []BuffersSafe
<1>1. RInv => BuffersSafe
  BY DEF RInv, Rooms, Allocated, BuffersSafe
<1> QED BY <1>1, InvFirst, InvNext, PTL DEF Spec

\* When every colour that the caller gives is premultiplied, every pixel is at
\* every step: no sum of canvas_blend wraps on the way.
THEOREM AlwaysPremultiplied == Spec => []Premultiplied
<1>1. RInv => Premultiplied
  BY DEF RInv, Painting
<1> QED BY <1>1, InvFirst, InvNext, PTL DEF Spec
=============================================================================
