---------------------------- MODULE TileClipping ----------------------------
(***************************************************************************)
(* A polyline cut up tile by tile, in any order: each part is clipped      *)
(* against one tile after the other, as the parts of an edge are by        *)
(* repeated clip_edge_to_tile calls (src/topology.rs).                     *)
(***************************************************************************)
EXTENDS EdgeClip

CONSTANTS
    Lines,   \* the polylines to cut
    Tiles    \* the tile extents

VARIABLES
    original,  \* the polyline before any cut
    parts      \* what has become of it, in traversal order

vars == <<original, parts>>

\* The lattice points of a segment.
Within(c, d, e) == (d <= c /\ c <= e) \/ (e <= c /\ c <= d)
Between(p, a, b) ==
    /\ (p.x - a.x) * (b.y - a.y) = (p.y - a.y) * (b.x - a.x)
    /\ Within(p.x, a.x, b.x) /\ Within(p.y, a.y, b.y)
Box(a, b) ==
    [x : Min({a.x, b.x}) .. Max({a.x, b.x}), y : Min({a.y, b.y}) .. Max({a.y, b.y})]
OnSegment(a, b) == {p \in Box(a, b) : Between(p, a, b)}

\* The lattice is fine enough: where a segment meets the line of a side of a
\* tile, it does so at a lattice point.
Fine(tile, a, b) ==
    /\ \A side \in {tile.west, tile.east} :
          Within(side, a.x, b.x) => \E p \in OnSegment(a, b) : p.x = side
    /\ \A side \in {tile.south, tile.north} :
          Within(side, a.y, b.y) => \E p \in OnSegment(a, b) : p.y = side

ClippingAssumption ==
    /\ Lines \subseteq Seq([x : Int, y : Int])
    /\ Tiles \subseteq [west : Int, east : Int, south : Int, north : Int]
    /\ \A line \in Lines : Len(line) >= 2
    /\ \A tile \in Tiles : tile.west < tile.east /\ tile.south < tile.north
    /\ \A line \in Lines, tile \in Tiles : \A k \in 1 .. Len(line) - 1 :
          Fine(tile, line[k], line[k + 1])
ASSUME ClippingAssumption

Init ==
    /\ original \in Lines
    /\ parts = <<[line |-> original, clipped |-> {}, within |-> {}]>>

\* The extent check of clip_edge_to_tile holds by assumption; the part is
\* replaced by its parts in place.
ClipPart(i, tile) ==
    /\ tile \notin parts[i].clipped
    /\ LET runs == Split(parts[i].line, tile)
           Part(run) == [line |-> run.line,
                         clipped |-> parts[i].clipped \cup {tile},
                         within |-> parts[i].within
                                        \cup (IF run.inside THEN {tile} ELSE {})]
       IN  parts' = SubSeq(parts, 1, i - 1)
                        \o [k \in DOMAIN runs |-> Part(runs[k])]
                        \o SubSeq(parts, i + 1, Len(parts))
    /\ UNCHANGED original

Next == \E i \in DOMAIN parts, tile \in Tiles : ClipPart(i, tile)

Spec == Init /\ [][Next]_vars

-----------------------------------------------------------------------------
(* Properties *)

Chained ==
    \A i \in DOMAIN parts :
        LET line == parts[i].line
        IN  /\ Len(line) >= 2
            /\ Len(parts) > 1 =>
                  \A k \in 1 .. Len(line) - 1 : line[k] # line[k + 1]
            /\ i < Len(parts) => Last(line) = parts[i + 1].line[1]

\* A walk that is at p on segment m of a line may turn into segment n: nothing
\* lies between them but p.  A leg goes from p on segment m to q on segment n,
\* which it follows towards its end.
Turn(line, p, m, n) == m <= n /\ \A j \in m + 1 .. n : line[j] = p
Leg(line, p, m, q, n) ==
    /\ Turn(line, p, m, n)
    /\ Between(p, line[n], line[n + 1])
    /\ Between(q, p, line[n + 1])

\* The lines, one after the other, are a walk along `line`, each vertex of which
\* has the segment by which it is reached.
Track(line, lines, at) ==
    /\ lines[1][1] = line[1]
    /\ Turn(line, line[1], 1, at[1][1])
    /\ \A i \in DOMAIN lines : \A k \in 1 .. Len(lines[i]) - 1 :
          Leg(line, lines[i][k], at[i][k], lines[i][k + 1], at[i][k + 1])
    /\ \A i \in 1 .. Len(lines) - 1 :
          Turn(line, lines[i + 1][1], at[i][Len(lines[i])], at[i + 1][1])
    /\ LET n == Len(lines)
       IN  Turn(line, Last(lines[n]), at[n][Len(lines[n])], Len(line))
Vertices(lines) == UNION {{i} \X DOMAIN lines[i] : i \in DOMAIN lines}
Follows(line, lines) ==
    \E f \in [Vertices(lines) -> 1 .. Len(line) - 1] :
        LET at == [i \in DOMAIN lines |-> [k \in DOMAIN lines[i] |-> f[<<i, k>>]]]
        IN  Track(line, lines, at)

\* However often it is cut, the line that is drawn stays the same: the parts
\* chain, none of them a stub of a single point, and one after the other they
\* follow each segment of the original from end to end without turning back.
Drawn == [i \in DOMAIN parts |-> parts[i].line]
PathKept == Chained /\ Follows(original, Drawn)

\* Every part is where its bucket says: an inside part has all its points in
\* the closed tile; an outside part may touch the tile but never runs in it.
BucketsTrue ==
    \A i \in DOMAIN parts : \A tile \in parts[i].clipped :
        LET line == parts[i].line
        IN  \A k \in 1 .. Len(line) - 1 :
                LET points == OnSegment(line[k], line[k + 1])
                    within == {p \in points : Inside(tile, p)}
                IN  IF tile \in parts[i].within THEN within = points
                    ELSE \A p, q \in within : p = q

\* The pieces are the line that was cut, each on the side of the border that
\* it was filed under.
PiecesTrue == PathKept /\ BucketsTrue

\* A part that was clipped against a tile stays whole when it is clipped
\* against it again, also after other tiles have cut it further: no second
\* node is ever minted at the same crossing.
ClipsOnce ==
    \A i \in DOMAIN parts : \A tile \in parts[i].clipped :
        LET again == Split(parts[i].line, tile)
        IN  Len(again) = 1 /\ (again[1].inside <=> tile \in parts[i].within)

\* Once every part has met every tile, the clip nodes are the crossings of
\* the uncut line with each tile, whatever the order of the cuts; two tiles
\* with a common side share the node on it.
OrderIrrelevant ==
    (\A i \in DOMAIN parts : parts[i].clipped = Tiles) =>
        {parts[i].line[1] : i \in 2 .. Len(parts)}
            = UNION {Range(Crossings(original, tile)) : tile \in Tiles}

-----------------------------------------------------------------------------
(* The instance for TLC: two tiles with a common side, and every polyline of
   two or three vertices on a 4 by 3 grid around them.  A grid step is six
   lattice units: with offsets of at most three steps every crossing is a
   lattice point. *)

Step == 6
MCPoints == [x : {Step * i : i \in 0 .. 3}, y : {Step * j : j \in 0 .. 2}]
MCLines == [1 .. 2 -> MCPoints] \cup [1 .. 3 -> MCPoints]
MCTiles ==
    {[west |-> Step, east |-> 2 * Step, south |-> 0, north |-> Step],
     [west |-> 2 * Step, east |-> 3 * Step, south |-> 0, north |-> Step]}
=============================================================================
