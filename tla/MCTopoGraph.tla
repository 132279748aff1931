----------------------------- MODULE MCTopoGraph -----------------------------
(***************************************************************************)
(* A small graph along a meridian and its neighbour: polylines of two or   *)
(* three points among five, two tiles with a common side, identifiers up   *)
(* to the top of a range of nine.                                          *)
(***************************************************************************)
EXTENDS TopoGraph, TLC

EC == INSTANCE EdgeClip

CONSTANTS NoPos, NoGeo, NoLin

P(i) == [x |-> i, y |-> 0]
Infinite == P(9)
MCPosition == {P(i) : i \in 0 .. 4} \cup {Infinite}
MCFinite == {P(i) : i \in 0 .. 4}
MCLines == {<<p>> : p \in MCPosition} \cup [1 .. 2 -> MCPosition]
               \cup [1 .. 3 -> MCPosition]
MCTile == {[west |-> 1, east |-> 2, south |-> 0, north |-> 1],
           [west |-> 2, east |-> 3, south |-> 0, north |-> 1]}
MCSplitting(line, tile) == EC!Split(line, tile)

N(i, p) == [id |-> i, position |-> p]
E(i, from, to, line) == [id |-> i, start |-> from, end |-> to, geometry |-> line]
Use(i, way) == [edge |-> i, orientation |-> way]

\* Ends with and without a position, out of order and at the top of the range.
MCNodes == {N(1, P(0)), N(0, P(4)), N(2, NoPos), N(8, NoPos)}
MCEdges ==
    { E(1, 1, 0, NoGeo),                      \* straight through both tiles
      E(0, 0, 1, <<P(4), P(2), P(0)>>),       \* and back, along a geometry
      E(3, 1, 1, <<P(0), P(3), P(0)>>),       \* a loop
      E(2, 1, 2, <<P(1), P(4)>>),             \* refused: not where its ends are,
      E(8, 8, 2, <<P(0), Infinite>>) }        \* or not finite
MCFaces ==
    { [id |-> 1, boundary |-> <<Use(1, "forward"), Use(0, "forward")>>],
      [id |-> 2, boundary |-> <<Use(2, "forward"), Use(3, "reverse")>>] }
MCFaceId == {1, 2}
=============================================================================
