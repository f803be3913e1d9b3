--------------------------- MODULE MCFacetRaster ---------------------------
(* FacetRaster for TLC: a canvas of 4 by 3 pixels.                           *)
EXTENDS FacetRaster

P(x, y) == <<(x * ONE) \div 4, (y * ONE) \div 4>>        \* in quarters of a pixel
M(p) == [type |-> "MOVE_TO", points |-> <<p>>]
L(p) == [type |-> "LINE_TO", points |-> <<p>>]
Q(c, p) == [type |-> "QUAD_TO", points |-> <<c, p>>]
C(c, d, p) == [type |-> "CUBIC_TO", points |-> <<c, d, p>>]
Z == [type |-> "CLOSE", points |-> <<>>]

Red == <<255, 0, 0, 255>>
Haze == <<60, 100, 7, 100>>
White == <<255, 255, 255, 255>>
Job(cmds, fs) == [width |-> 4, height |-> 3, clear |-> White, cmds |-> cmds, fills |-> fs]

\* Triangles over points in and around the canvas: on rows' middles and between
\* them, on pixel borders and off.
Grid == {P(-4, 2), P(0, 0), P(4, 6), P(8, 2), P(9, 16), P(20, 6), P(3, -6), P(13, 10)}
Triangles == {Job(<<M(a), L(b), L(c), Z>>, <<<<Haze, "NONZERO">>>>) : a, b, c \in Grid}

\* Quadrilaterals, many of which cross themselves, as two fills.
Corners == {P(1, 0), P(14, 2), P(2, 10), P(13, 12)}
Quads == {Job(<<M(a), L(b), L(c), L(d), L(a)>>, <<<<Haze, "EVENODD">>, <<Haze, "NONZERO">>>>) :
            a, b, c, d \in Corners}

Ring == <<M(P(0, 0)), L(P(16, 0)), L(P(16, 12)), L(P(0, 12)), Z,
          M(P(4, 2)), L(P(12, 2)), L(P(12, 10)), L(P(4, 10)), Z>>

Curves == {Job(<<M(P(0, 6)), Q(P(8, -8), P(16, 6)), Q(P(8, 20), P(0, 6))>>, <<<<Red, r>>>>) :
             r \in {"NONZERO", "EVENODD"}}
          \cup {Job(<<M(P(0, 0)), C(P(20, 0), P(-4, 12), P(16, 12)), L(P(0, 12)), Z>>, <<<<Haze, "NONZERO">>>>),
                Job(<<M(P(4, 0)), C(P(24, 4), P(-8, 8), P(12, 12)), Q(P(0, 6), P(4, 0)), Z>>,
                    <<<<Red, "EVENODD">>>>)}

Others == {Job(<<>>, <<<<Red, "NONZERO">>>>),
           Job(Ring, <<<<Haze, "EVENODD">>>>),
           [Job(<<>>, <<>>) EXCEPT !.width = 8, !.height = 6],                     \* the size wraps
           Job(<<M(P(0, 0)), L(P(16, 12)), L(P(0, 12)), Z>>,
               <<<<Haze, "NONZERO">>, <<<<1, 1, 1, 1>>, "NONZERO">>, <<<<0, 90, 254, 254>>, "EVENODD">>>>),
           Job(<<M(P(0, 4)), L(P(12, 4)), Z>>, <<<<Red, "NONZERO">>>>),          \* flat
           Job(<<L(P(8, 0)), L(P(8, 12))>>, <<<<Red, "NONZERO">>>>),              \* not closed
           [Job(<<M(P(0, 0)), L(P(16, 6)), L(P(0, 12)), Z>>, <<<<<<255, 0, 0, 128>>, "NONZERO">>>>)
              EXCEPT !.clear = <<9, 9, 9, 0>>]}                                    \* not premultiplied

AllJobs == Triangles \cup Quads \cup Curves \cup Others
=============================================================================
