------------------------------ MODULE EdgeClip ------------------------------
(***************************************************************************)
(* The clip of a polyline against a tile: the walk of                      *)
(* TopoGraph::clip_edge_to_tile in src/topology.rs, and its slab           *)
(* arithmetic.                                                             *)
(*                                                                         *)
(* Coordinates are integers of a lattice fine enough that every crossing   *)
(* is a lattice point, so a parameter along a segment is an exact ratio.   *)
(* The code computes in binary floating point and pins the boundary        *)
(* coordinate of a crossing exactly; rounding of the other coordinate is   *)
(* not modelled.                                                           *)
(***************************************************************************)
EXTENDS Integers, Sequences, SequencesExt

\* tile_rect: the closed extent.
\* Mutant: open to the east.
InsideHalfOpen(tile, p) ==
    /\ tile.west <= p.x /\ p.x < tile.east
    /\ tile.south <= p.y /\ p.y <= tile.north
Inside(tile, p) ==
    /\ tile.west <= p.x /\ p.x <= tile.east
    /\ tile.south <= p.y /\ p.y <= tile.north

\* push_coord: a crossing at a vertex is not repeated.
PushCoord(line, p) ==
    IF line # <<>> /\ Last(line) = p THEN line ELSE Append(line, p)

-----------------------------------------------------------------------------
(* The slab interval of a segment                                          *)

Magnitude(d) == IF d < 0 THEN -d ELSE d
Span(d) == IF d = 0 THEN 1 ELSE Magnitude(d)

\* Parameters run from 0 at `a` to Scale at `b`.
Scale(a, b) == Span(b.x - a.x) * Span(b.y - a.y)

\* Where the line through a and b meets the two sides of the tile across one
\* axis: the parameter and the coordinate that is pinned there.
SidesX(tile, a, b) ==
    LET d == b.x - a.x
        Meet(side) == [t |-> Magnitude(side - a.x) * Span(b.y - a.y)
                             * (IF (side - a.x) * d < 0 THEN -1 ELSE 1),
                       axis |-> "x", pin |-> side]
    IN  IF d > 0 THEN [near |-> Meet(tile.west), far |-> Meet(tile.east)]
        ELSE [near |-> Meet(tile.east), far |-> Meet(tile.west)]
SidesY(tile, a, b) ==
    LET d == b.y - a.y
        Meet(side) == [t |-> Magnitude(side - a.y) * Span(b.x - a.x)
                             * (IF (side - a.y) * d < 0 THEN -1 ELSE 1),
                       axis |-> "y", pin |-> side]
    IN  IF d > 0 THEN [near |-> Meet(tile.south), far |-> Meet(tile.north)]
        ELSE [near |-> Meet(tile.north), far |-> Meet(tile.south)]
Sides(tile, a, b) ==
    (IF a.x = b.x THEN {} ELSE {SidesX(tile, a, b)})
        \cup (IF a.y = b.y THEN {} ELSE {SidesY(tile, a, b)})

\* A segment along an axis misses a tile that does not span its line.
Beside(tile, a, b) ==
    \/ a.x = b.x /\ ~(tile.west <= a.x /\ a.x <= tile.east)
    \/ a.y = b.y /\ ~(tile.south <= a.y /\ a.y <= tile.north)

\* slab_interval: from the last side entered to the first side left.
Enter(tile, a, b) == Max({0} \cup {s.near.t : s \in Sides(tile, a, b)})
Exit(tile, a, b) == Min({Scale(a, b)} \cup {s.far.t : s \in Sides(tile, a, b)})
Hits(tile, a, b) ==
    ~Beside(tile, a, b) /\ Enter(tile, a, b) <= Exit(tile, a, b)

\* point_at: a pinned coordinate is the side's own; at a corner both are.
PointAt(a, b, t, pins) ==
    LET Pin(axis, from, to) ==
            IF \E m \in pins : m.axis = axis
            THEN (CHOOSE m \in pins : m.axis = axis).pin
            ELSE from + (t * (to - from)) \div Scale(a, b)
    IN  [x |-> Pin("x", a.x, b.x), y |-> Pin("y", a.y, b.y)]
\* Mutant: the crossing is the segment's end, not the side's.
EnterPointUnpinned(tile, a, b) == IF Hits(tile, a, b) THEN a ELSE b
EnterPoint(tile, a, b) ==
    LET t == Enter(tile, a, b)
    IN  PointAt(a, b, t, {s.near : s \in {u \in Sides(tile, a, b) : u.near.t = t}})
ExitPoint(tile, a, b) ==
    LET t == Exit(tile, a, b)
    IN  PointAt(a, b, t, {s.far : s \in {u \in Sides(tile, a, b) : u.far.t = t}})

\* An outside segment runs through the tile, and does not just graze it.
\* Mutant: a segment with both ends outside never counts.
ThroughNever(tile, a, b) == FALSE
Through(tile, a, b) ==
    /\ Hits(tile, a, b)
    /\ Enter(tile, a, b) < Exit(tile, a, b)
    /\ EnterPoint(tile, a, b) # ExitPoint(tile, a, b)

-----------------------------------------------------------------------------
(* The walk along the polyline                                             *)

\* Runs closed so far, their crossings, and the run under construction.
Extend(walk, p) == [walk EXCEPT !.line = PushCoord(@, p)]
Cut(walk, p) ==
    [runs |-> Append(walk.runs, [inside |-> walk.inside,
                                 line |-> PushCoord(walk.line, p)]),
     crossings |-> Append(walk.crossings, p),
     line |-> <<p>>,
     inside |-> ~walk.inside]

WalkSegment(tile, a, b, walk) ==
    CASE Inside(tile, a) /\ Inside(tile, b) -> Extend(walk, b)
      [] Inside(tile, a) /\ ~Inside(tile, b) ->
            Extend(Cut(walk, ExitPoint(tile, a, b)), b)
      [] ~Inside(tile, a) /\ Inside(tile, b) ->
            Extend(Cut(walk, EnterPoint(tile, a, b)), b)
      [] ~Inside(tile, a) /\ ~Inside(tile, b) ->
            IF Through(tile, a, b)
            THEN Extend(Cut(Cut(walk, EnterPoint(tile, a, b)),
                            ExitPoint(tile, a, b)), b)
            ELSE Extend(walk, b)

\* The walk as it stands at each vertex.
Walked(line, tile) ==
    LET walked[i \in 1 .. Len(line)] ==
            IF i = 1
            THEN [runs |-> <<>>, crossings |-> <<>>, line |-> <<line[1]>>,
                  inside |-> Inside(tile, line[1])]
            ELSE WalkSegment(tile, line[i - 1], line[i], walked[i - 1])
    IN  walked
Walk(line, tile) ==
    LET done == Walked(line, tile)[Len(line)]
    IN  [runs |-> Append(done.runs, [inside |-> done.inside, line |-> done.line]),
         crossings |-> done.crossings]

-----------------------------------------------------------------------------
(* Touches are not crossings                                               *)

Short(runs) == {i \in DOMAIN runs : Len(runs[i].line) < 2}

\* The coordinates of `right` pushed one after the other onto `left`.
Joined(left, right) ==
    LET joined[i \in 0 .. Len(right)] ==
            IF i = 0 THEN left ELSE PushCoord(joined[i - 1], right[i])
    IN  joined[Len(right)]

\* Drop the first run of fewer than two coordinates, its crossings with it,
\* and join the runs it parted.
DropTouch(walk) ==
    LET runs == walk.runs
        pos == Min(Short(runs))
        joined == [inside |-> runs[pos - 1].inside,
                   line |-> Joined(runs[pos - 1].line, runs[pos + 1].line)]
    IN  CASE Short(runs) = {} -> walk
          [] Short(runs) # {} /\ pos = 1 ->
                [runs |-> Tail(runs),
                 crossings |-> IF walk.crossings = <<>> THEN <<>>
                               ELSE Tail(walk.crossings)]
          [] Short(runs) # {} /\ pos # 1 /\ pos = Len(runs) ->
                [runs |-> Front(runs), crossings |-> Front(walk.crossings)]
          [] OTHER ->
                [runs |-> SubSeq(runs, 1, pos - 2) \o <<joined>>
                              \o SubSeq(runs, pos + 2, Len(runs)),
                 crossings |-> SubSeq(walk.crossings, 1, pos - 2)
                                   \o SubSeq(walk.crossings, pos + 1,
                                             Len(walk.crossings))]
\* Each drop leaves a run less: as many drops as there are runs leave no touch.
WithoutTouches(walk) ==
    LET dropped[i \in 0 .. Len(walk.runs)] ==
            IF i = 0 THEN walk ELSE DropTouch(dropped[i - 1])
    IN  dropped[Len(walk.runs)]

\* The parts of a polyline, each inside or outside the tile; a polyline that
\* does not cross the boundary is its own single part.
Pieces(walk, line, tile) ==
    IF Len(walk.runs) >= 2 THEN walk.runs
    ELSE <<[inside |-> IF walk.runs = <<>> THEN Inside(tile, line[1])
                       ELSE walk.runs[1].inside,
            line |-> line]>>
Split(line, tile) == Pieces(WithoutTouches(Walk(line, tile)), line, tile)
Crossings(line, tile) ==
    LET walk == WithoutTouches(Walk(line, tile))
    IN  IF Len(walk.runs) >= 2 THEN walk.crossings ELSE <<>>

=============================================================================
