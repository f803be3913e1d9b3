---------------------------- MODULE FacetRaster ----------------------------
(* The path rasterizer of facet_raster.c: paths, the flattening of curves,   *)
(* the edge table, the scanline fill and the blending of its pixels.  A job  *)
(* is a canvas, a path, and the fills that a caller asks for, one after the  *)
(* other.                                                                    *)
(*                                                                           *)
(* Coordinates are multiples of 1/ONE of a pixel, y grows downwards, and a   *)
(* point is <<x, y>>.  The jobs keep to coordinates on which the arithmetic  *)
(* of the code is exact, but for the division that finds where an edge meets *)
(* a scanline.  A colour, as a pixel, is <<r, g, b, a>>.                     *)
EXTENDS Integers, Sequences, FiniteSets, SequencesExt, FiniteSetsExt

CONSTANTS
  ONE,         \* the unit: so many to a pixel
  PathCap,     \* capacity of a new path (64)
  EdgeCap,     \* capacity of a new edge table (256)
  MaxDepth,    \* deepest subdivision of a curve (16)
  U32,         \* how many values uint32_t has (2^32)
  Jobs

ASSUME UnitAssumption == ONE \in Nat /\ ONE % 4 = 0 /\ ONE < 1000
ASSUME CapAssumption == PathCap \in Nat \ {0} /\ EdgeCap \in Nat \ {0} /\ MaxDepth \in Nat
                        /\ U32 \in Nat \ {0}

Colours == [1..4 -> 0..255]
ASSUME JobsAssumption ==
  \A j \in Jobs : /\ j.width \in Nat /\ j.height \in Nat /\ j.clear \in Colours
                  /\ j.fills \in Seq(Colours \X {"NONZERO", "EVENODD"})

VARIABLES
  job,        \* width, height, clear, cmds, and fills: <<colour, rule>> each
  pc,
  heap,       \* what is allocated
  path,       \* cmds and capacity
  pixels,     \* the rows of the canvas
  fills,      \* how many fills have been asked for
  et,         \* edges and capacity
  at,         \* the next command to flatten, or the next scanline
  cur, sub_start,
  pending,    \* edges of the command at hand that are still to be added
  y_end,
  starved,    \* for the properties: this fill has found no memory
  before      \* for the properties: the canvas before the fill

rvars == <<et, at, cur, sub_start, pending, y_end>>
vars == <<job, pc, heap, path, pixels, fills, rvars, starved, before>>

NoTable == [edges |-> <<>>, capacity |-> 0]

Init ==
  /\ job \in Jobs
  /\ pc = "path_new"
  /\ heap = {} /\ path = [cmds |-> <<>>, capacity |-> 0]
  /\ pixels = <<>> /\ fills = 0
  /\ et = NoTable /\ at = 1 /\ cur = <<0, 0>> /\ sub_start = <<0, 0>> /\ pending = <<>> /\ y_end = 0
  /\ starved = FALSE /\ before = <<>>

-----------------------------------------------------------------------------
(* Paths and canvas. *)

facet_path_new ==
  /\ pc = "path_new"
  /\ \/ /\ heap' = heap \cup {"path", "cmds"}
        /\ path' = [cmds |-> <<>>, capacity |-> PathCap]
        /\ pc' = "canvas_new"
     \/ pc' = "end" /\ UNCHANGED <<heap, path>>
  /\ UNCHANGED <<job, pixels, fills, rvars, starved, before>>

\* The pixels of a new canvas are zero.
facet_canvas_new ==
  /\ pc = "canvas_new"
  /\ \/ /\ heap' = heap \cup {"canvas", "pixels"}
        /\ pixels' = [y \in 1..job.height |-> [x \in 1..job.width |-> <<0, 0, 0, 0>>]]
        /\ pc' = "clear"
     \/ pc' = "path_free" /\ UNCHANGED <<heap, pixels>>
  /\ UNCHANGED <<job, path, fills, rvars, starved, before>>

\* The buffer has one byte for each that is written: its size is a product of
\* uint32_t, which wraps for a large canvas.
Fits ==
  LET stride == (job.width * 4) % U32
  IN (stride * job.height) % U32 = 4 * job.width * job.height

\* On a buffer that is too small clearing is undefined, and the model stops.
facet_canvas_clear ==
  /\ pc = "clear"
  /\ \/ /\ Fits
        /\ pixels' = [y \in DOMAIN pixels |-> [x \in DOMAIN pixels[y] |-> job.clear]]
        /\ pc' = "build"
     \/ ~ Fits /\ pc' = "undefined" /\ UNCHANGED pixels
  /\ UNCHANGED <<job, heap, path, fills, rvars, starved, before>>

\* path_ensure_capacity and the write that follows it.  Without memory the
\* capacity stays, and the command is written past the end all the same: what
\* happens then is undefined, and the model stops.
Add(cmd) ==
  LET full == Len(path.cmds) >= path.capacity
  IN \/ /\ path' = [cmds |-> Append(path.cmds, cmd),
                    capacity |-> IF full THEN 2 * path.capacity ELSE path.capacity]
        /\ UNCHANGED pc
     \/ /\ full
        /\ path' = [cmds |-> Append(path.cmds, cmd), capacity |-> path.capacity]
        /\ pc' = "undefined"

\* The next command that the job asks for, if it is of that type.
Asked(type) ==
  /\ pc = "build" /\ Len(path.cmds) < Len(job.cmds)
  /\ job.cmds[Len(path.cmds) + 1].type = type
  /\ Add(job.cmds[Len(path.cmds) + 1])
  /\ UNCHANGED <<job, heap, pixels, fills, rvars, starved, before>>

facet_path_move_to == Asked("MOVE_TO")
facet_path_line_to == Asked("LINE_TO")
facet_path_quad_to == Asked("QUAD_TO")
facet_path_cubic_to == Asked("CUBIC_TO")
facet_path_close == Asked("CLOSE")

-----------------------------------------------------------------------------
(* Flattening. *)

Point == Int \X Int
Mid(p, q) == <<(p[1] + q[1]) \div 2, (p[2] + q[2]) \div 2>>
Square(v) == v * v
Dist(a, b) == IF a < b THEN b - a ELSE a - b
tolerance == ONE \div 4

\* The control point is close to the middle of the chord.
QuadFlat(p0, p1, p2) ==
  LET m == Mid(p0, p2) IN Square(p1[1] - m[1]) + Square(p1[2] - m[2]) <= Square(tolerance)

CubicFlat(p0, p1, p2, p3) ==
  LET u(k) == Square(3 * p1[k] - 2 * p0[k] - p3[k])
      v(k) == Square(3 * p2[k] - p0[k] - 2 * p3[k])
  IN Max({u(1), v(1)}) + Max({u(2), v(2)}) <= 16 * Square(tolerance)

\* The points that the callback is given.
facet_flatten_quad[p0, p1, p2 \in Point] ==
  LET p01 == Mid(p0, p1)
      p12 == Mid(p1, p2)
      mid == Mid(p01, p12)
  IN IF QuadFlat(p0, p1, p2) THEN <<p2>>
     ELSE facet_flatten_quad[p0, p01, mid] \o facet_flatten_quad[mid, p12, p2]

facet_flatten_cubic[p0, p1, p2, p3 \in Point] ==
  LET p01 == Mid(p0, p1)
      p12 == Mid(p1, p2)
      p23 == Mid(p2, p3)
      p012 == Mid(p01, p12)
      p123 == Mid(p12, p23)
      pmid == Mid(p012, p123)
  IN IF CubicFlat(p0, p1, p2, p3) THEN <<p3>>
     ELSE facet_flatten_cubic[p0, p01, p012, pmid] \o facet_flatten_cubic[pmid, p123, p23, p3]

\* An edge goes down; dir tells which way the path did.  Flat ones are left out.
add_line_edge(p, q) ==
  IF Dist(p[2], q[2]) * 1000 < ONE THEN <<>>
  ELSE IF p[2] < q[2] THEN <<[a |-> p, b |-> q, dir |-> 1]>>
  ELSE <<[a |-> q, b |-> p, dir |-> -1]>>

flatten_quad_et[p0, p1, p2 \in Point, depth \in Nat] ==
  LET p01 == Mid(p0, p1)
      p12 == Mid(p1, p2)
      mid == Mid(p01, p12)
  IN IF depth > MaxDepth \/ QuadFlat(p0, p1, p2) THEN add_line_edge(p0, p2)
     ELSE flatten_quad_et[p0, p01, mid, depth + 1] \o flatten_quad_et[mid, p12, p2, depth + 1]

flatten_cubic_et[p0, p1, p2, p3 \in Point, depth \in Nat] ==
  LET p01 == Mid(p0, p1)
      p12 == Mid(p1, p2)
      p23 == Mid(p2, p3)
      p012 == Mid(p01, p12)
      p123 == Mid(p12, p23)
      pmid == Mid(p012, p123)
  IN IF depth > MaxDepth \/ CubicFlat(p0, p1, p2, p3) THEN add_line_edge(p0, p3)
     ELSE flatten_cubic_et[p0, p01, p012, pmid, depth + 1]
            \o flatten_cubic_et[pmid, p123, p23, p3, depth + 1]

-----------------------------------------------------------------------------
(* Filling. *)

Held == {"path", "cmds", "canvas", "pixels"}
Colour == job.fills[fills][1]
Rule == job.fills[fills][2]

\* The start of facet_canvas_fill: nothing to do for an empty path; a table that
\* finds no memory has no room yet.
facet_canvas_fill ==
  /\ pc = "build" /\ Len(path.cmds) = Len(job.cmds) /\ fills < Len(job.fills)
  /\ fills' = fills + 1 /\ before' = pixels /\ starved' = FALSE
  /\ at' = 1 /\ cur' = <<0, 0>> /\ sub_start' = <<0, 0>> /\ pending' = <<>> /\ y_end' = 0
  /\ \/ path.cmds = <<>> /\ UNCHANGED <<et, heap, pc>>
     \/ /\ path.cmds # <<>>
        /\ et' = [edges |-> <<>>, capacity |-> EdgeCap]
        /\ heap' = heap \cup {"edges"}
        /\ pc' = "flatten"
     \/ path.cmds # <<>> /\ et' = NoTable /\ pc' = "flatten" /\ UNCHANGED heap
  /\ UNCHANGED <<job, path, pixels>>

\* The edges of the next command.
flatten_command ==
  /\ pc = "flatten" /\ pending = <<>> /\ at <= Len(path.cmds)
  /\ LET c == path.cmds[at]
         p == c.points
     IN \/ c.type = "MOVE_TO" /\ cur' = p[1] /\ sub_start' = p[1] /\ UNCHANGED pending
        \/ /\ c.type = "LINE_TO" /\ cur' = p[1] /\ UNCHANGED sub_start
           /\ pending' = add_line_edge(cur, p[1])
        \/ /\ c.type = "QUAD_TO" /\ cur' = p[2] /\ UNCHANGED sub_start
           /\ pending' = flatten_quad_et[cur, p[1], p[2], 0]
        \/ /\ c.type = "CUBIC_TO" /\ cur' = p[3] /\ UNCHANGED sub_start
           /\ pending' = flatten_cubic_et[cur, p[1], p[2], p[3], 0]
        \/ /\ c.type = "CLOSE" /\ cur' = sub_start /\ UNCHANGED sub_start
           /\ pending' = add_line_edge(cur, sub_start)
  /\ at' = at + 1
  /\ UNCHANGED <<job, pc, heap, path, pixels, fills, et, y_end, starved, before>>

\* The table doubles when it is full; an edge that finds no room is lost.
et_push ==
  /\ pc = "flatten" /\ pending # <<>>
  /\ pending' = Tail(pending)
  /\ LET full == Len(et.edges) >= et.capacity
         new_capacity == IF et.capacity = 0 THEN EdgeCap ELSE 2 * et.capacity
     IN \/ /\ et' = [edges |-> Append(et.edges, Head(pending)),
                     capacity |-> IF full THEN new_capacity ELSE et.capacity]
           /\ heap' = heap \cup {"edges"}
           /\ UNCHANGED starved
        \/ full /\ starved' = TRUE /\ UNCHANGED <<et, heap>>
  /\ UNCHANGED <<job, pc, path, pixels, fills, at, cur, sub_start, y_end, before>>

\* (mutant) The edges are kept when there is none or no coverage buffer.
Returns_KeepsEdges ==
  /\ pc' = "build"
  /\ heap' = IF pc = "flatten" THEN heap ELSE heap \ {"edges", "coverage"}
  /\ et' = NoTable /\ at' = 1 /\ cur' = <<0, 0>> /\ sub_start' = <<0, 0>> /\ y_end' = 0
  /\ UNCHANGED <<job, path, pixels, fills, pending, before>>

\* facet_canvas_fill returns with its buffers freed.
Returns ==
  /\ pc' = "build"
  /\ heap' = heap \ {"edges", "coverage"}
  /\ et' = NoTable /\ at' = 1 /\ cur' = <<0, 0>> /\ sub_start' = <<0, 0>> /\ y_end' = 0
  /\ UNCHANGED <<job, path, pixels, fills, pending, before>>

\* The rows between the highest and the lowest point that lie on the canvas.
start_sweep ==
  /\ pc = "flatten" /\ pending = <<>> /\ at > Len(path.cmds)
  /\ \/ et.edges = <<>> /\ Returns /\ UNCHANGED starved
     \/ et.edges # <<>> /\ Returns /\ starved' = TRUE       \* no coverage buffer
     \/ /\ et.edges # <<>>
        /\ LET edges == Range(et.edges)
           IN /\ at' = Max({Min({e.a[2] : e \in edges}) \div ONE, 0})
              /\ y_end' = Min({-((-Max({e.b[2] : e \in edges})) \div ONE), job.height})
        /\ heap' = heap \cup {"coverage"}
        /\ pc' = "sweep"
        /\ UNCHANGED <<job, path, pixels, fills, et, cur, sub_start, pending, starved, before>>

\* The column where an edge that the scanline crosses is counted.
Column(e, scan_y) ==
  LET dy == e.b[2] - e.a[2]
      col == (e.a[1] * dy + (scan_y - e.a[2]) * (e.b[1] - e.a[1])) \div (dy * ONE)
  IN Max({col, 0})

\* (mutant) An edge is counted at both of its ends.
Winding_BothEnds(scan_y, px) ==
  FoldLeft(LAMBDA w, e : IF scan_y >= e.a[2] /\ scan_y <= e.b[2]
                         THEN IF Column(e, scan_y) <= px THEN w + e.dir ELSE w
                         ELSE w, 0, et.edges)

\* The coverage of the columns up to px, added up.
Winding(scan_y, px) ==
  FoldLeft(LAMBDA w, e : IF scan_y >= e.a[2] /\ scan_y < e.b[2]
                         THEN IF Column(e, scan_y) <= px THEN w + e.dir ELSE w
                         ELSE w, 0, et.edges)

\* (mutant) The test of the winding number is the wrong way round.
Fills_Inverted(w, rule) == IF rule = "NONZERO" THEN w = 0 ELSE w % 2 = 0

Fills(w, rule) == IF rule = "NONZERO" THEN w # 0 ELSE w % 2 = 1

\* (mutant) The alpha of the source replaces that of the canvas.
canvas_blend_Alpha(px, c) ==
  IF c[4] = 255 THEN c
  ELSE IF c[4] > 0
  THEN [k \in 1..4 |-> IF k = 4 THEN c[4] ELSE (c[k] + (px[k] * (255 - c[4])) \div 255) % 256]
  ELSE px

\* Source over; a sum above 255 wraps.
canvas_blend(px, c) ==
  IF c[4] = 255 THEN c
  ELSE IF c[4] > 0 THEN [k \in 1..4 |-> (c[k] + (px[k] * (255 - c[4])) \div 255) % 256]
  ELSE px

scanline ==
  /\ pc = "sweep" /\ at < y_end
  /\ LET scan_y == at * ONE + ONE \div 2
     IN pixels' = [pixels EXCEPT ![at + 1] = [x \in 1..job.width |->
                     IF Fills(Winding(scan_y, x - 1), Rule) THEN canvas_blend(@[x], Colour)
                     ELSE @[x]]]
  /\ at' = at + 1
  /\ UNCHANGED <<job, pc, heap, path, fills, et, cur, sub_start, pending, y_end, starved, before>>

end_sweep == pc = "sweep" /\ at >= y_end /\ Returns /\ UNCHANGED starved

facet_canvas_free ==
  /\ pc = "build" /\ Len(path.cmds) = Len(job.cmds) /\ fills = Len(job.fills)
  /\ heap' = heap \ {"canvas", "pixels"}
  /\ pc' = "path_free"
  /\ UNCHANGED <<job, path, pixels, fills, rvars, starved, before>>

facet_path_free ==
  /\ pc = "path_free"
  /\ heap' = heap \ {"path", "cmds"}
  /\ pc' = "end"
  /\ UNCHANGED <<job, path, pixels, fills, rvars, starved, before>>

Step ==
  \/ facet_path_new \/ facet_canvas_new \/ facet_canvas_clear
  \/ facet_path_move_to \/ facet_path_line_to \/ facet_path_quad_to \/ facet_path_cubic_to
  \/ facet_path_close
  \/ facet_canvas_fill \/ flatten_command \/ et_push \/ start_sweep \/ scanline \/ end_sweep
  \/ facet_canvas_free \/ facet_path_free

Ended == pc \in {"end", "undefined"}
Next == Step \/ (Ended /\ UNCHANGED vars)

Spec == Init /\ [][Next]_vars

-----------------------------------------------------------------------------
(* What a fill should paint, by another route: the winding number of a point *)
(* along a vertical ray, over the outline with its curves flattened by the   *)
(* functions for callers.                                                    *)

Chain(pts) == [n \in 1..Len(pts) - 1 |-> <<pts[n], pts[n + 1]>>]

\* One more command: its segments, and whether the subpath before was closed.
Extended(o, c) ==
  LET p == c.points
      to(pts) == [o EXCEPT !.segs = @ \o Chain(<<o.cur>> \o pts), !.cur = pts[Len(pts)]]
  IN CASE c.type = "MOVE_TO" -> [o EXCEPT !.cur = p[1], !.start = p[1],
                                          !.closed = @ /\ o.cur = o.start]
       [] c.type = "LINE_TO" -> to(p)
       [] c.type = "QUAD_TO" -> to(facet_flatten_quad[o.cur, p[1], p[2]])
       [] c.type = "CUBIC_TO" -> to(facet_flatten_cubic[o.cur, p[1], p[2], p[3]])
       [] c.type = "CLOSE" -> to(<<o.start>>)

Outline == FoldLeft(Extended, [segs |-> <<>>, cur |-> <<0, 0>>, start |-> <<0, 0>>, closed |-> TRUE],
                    path.cmds)
Closed(o) == o.closed /\ o.cur = o.start

\* The segments that the ray from <<x, y>> up meets, each with the side it
\* comes from.  The point lies a little left of x and, by far less, below y.
Wound(segs, x, y) ==
  FoldLeft(LAMBDA w, g :
    LET dx == g[2][1] - g[1][1]
        dy == g[2][2] - g[1][2]
        sign == IF dx < 0 THEN -1 ELSE 1
        below == ((g[1][2] - y) * dx + (x - g[1][1]) * dy) * sign
    IN IF /\ Min({g[1][1], g[2][1]}) < x /\ x <= Max({g[1][1], g[2][1]})
          /\ below < 0 \/ (below = 0 /\ dy * sign >= 0)
       THEN w - sign ELSE w, 0, segs)

\* A point with that winding number belongs to the shape.
Inside(w) == w # 0 /\ (Rule = "EVENODD" => w % 2 # 0)

\* Source over, without a limit to the sum.
Over(px, c) == [k \in 1..4 |-> c[k] + (px[k] * (255 - c[4])) \div 255]

IsPremultiplied(c) == \A k \in 1..3 : c[k] <= c[4]
ColoursPremultiplied ==
  IsPremultiplied(job.clear) /\ \A n \in DOMAIN job.fills : IsPremultiplied(job.fills[n][1])

-----------------------------------------------------------------------------
(* Properties. *)

\* After facet_canvas_fill of a closed path every pixel of the canvas is painted
\* or left alone as the winding number of its right end, on the middle of the
\* row, and the rule say, whatever edges are flat, upright, off the canvas, or
\* meet on a scanline.  No pixel is painted in part: the anti-aliasing that
\* facet_raster.h announces is not in facet_canvas_fill.
Painted ==
  (pc = "build" /\ fills > 0 /\ ~ starved /\ ColoursPremultiplied) =>
    LET o == Outline
    IN Closed(o) => \A y \in 1..job.height, x \in 1..job.width :
         pixels[y][x] =
           IF Inside(Wound(o.segs, x * ONE, (y - 1) * ONE + ONE \div 2))
           THEN Over(before[y][x], Colour) ELSE before[y][x]

\* Even when memory runs out and edges are lost, a fill touches no row above or
\* below the path and no pixel left of it.
StaysInside ==
  pc \in {"sweep", "build"} /\ fills > 0 =>
    LET segs == Range(Outline.segs)
        pts == {g[1] : g \in segs} \cup {g[2] : g \in segs}
    IN \A y \in 1..job.height, x \in 1..job.width : pixels[y][x] # before[y][x] =>
         /\ \E p \in pts : p[1] < x * ONE
         /\ \E p \in pts : p[2] < y * ONE
         /\ \E p \in pts : p[2] > (y - 1) * ONE

\* Alpha stays premultiplied: if the colours that callers pass are, so is every
\* pixel after any number of fills, and no sum in canvas_blend wraps.
Premultiplied ==
  ColoursPremultiplied => \A y \in DOMAIN pixels : \A x \in DOMAIN pixels[y] : IsPremultiplied(pixels[y][x])

\* Whichever allocations have failed, the edge table never holds more than there
\* is room for, between calls only the path and the canvas are allocated, and in
\* the end nothing.  The path keeps to its room until it cannot grow: then, and
\* only then, the next command is written past its end.
BuffersSafe ==
  /\ Len(path.cmds) <= path.capacity + (IF pc = "undefined" THEN 1 ELSE 0)
  /\ Len(et.edges) <= et.capacity
  /\ pc = "build" => heap = Held
  /\ pc = "end" => heap = {}
=============================================================================
