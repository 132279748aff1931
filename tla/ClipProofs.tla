----------------------------- MODULE ClipProofs -----------------------------
(***************************************************************************)
(* What clip_edge_to_tile promises of a line that is cut again and again,  *)
(* for all lines and tiles on a lattice fine enough for their crossings:   *)
(* the pieces are the line that was cut, each on its side of the tiles; a  *)
(* second clip against a tile cuts nothing; and the order of the clips     *)
(* does not matter.                                                        *)
(*                                                                         *)
(* One clip.  The runs of the walk lie along a path that follows the line  *)
(* and has every segment on one side of the tile (Underway); dropping the  *)
(* touches keeps the path (WithoutTouchesIs); what is left are runs on     *)
(* alternate sides (SplitIs).                                              *)
(*                                                                         *)
(* All clips.  The parts are a walk along the original, each on the side   *)
(* it is filed under, neighbours on different sides of some tile (Sane).   *)
(* Where a line changes sides is a matter of the line and the tile alone   *)
(* (Turnings), and the nodes of any such walk are there (TurningsAre).     *)
(***************************************************************************)
EXTENDS TileClipping, SequenceTheorems, WellFoundedInduction, TLAPS

-----------------------------------------------------------------------------
(* The walk as a sequence of steps                                         *)

\* A non-empty set of naturals has a least element.
LEMMA Least ==
    ASSUME NEW T, T \subseteq Nat, T # {}
    PROVE  \E m \in T : \A k \in T : m <= k
<1> DEFINE R == OpToRel(<, Nat)
<1>1. IsWellFoundedOn(R, Nat)
  BY NatLessThanWellFounded
<1>2. PICK m \in T : \A k \in T : ~(<<k, m>> \in R)
  <2> HIDE DEF R
  <2> QED
    BY <1>1, WFMin
<1>3. \A k \in T : ~(k < m)
  BY <1>2 DEF OpToRel
<1> QED
  BY <1>3

\* The walk before its first segment; Along: f is the walk at each of the first
\* n vertices.
Start(line, tile) ==
    [runs |-> <<>>, crossings |-> <<>>, line |-> <<line[1]>>, inside |-> Inside(tile, line[1])]
Along(line, tile, n, f) ==
    f = [i \in 1 .. n |-> IF i = 1 THEN Start(line, tile)
                          ELSE WalkSegment(tile, line[i - 1], line[i], f[i - 1])]

\* The recursion of the walk has a solution at every length.
LEMMA WalkExists ==
    ASSUME NEW line, NEW tile, NEW n \in Nat
    PROVE  \E f : Along(line, tile, n, f)
<1> DEFINE T == {k \in Nat : ~ \E f : Along(line, tile, k, f)}
<1> SUFFICES ASSUME T # {} PROVE FALSE
  OBVIOUS
<1>1. PICK m \in T : \A k \in T : m <= k
  <2> HIDE DEF T
  <2>1. T \subseteq Nat
    BY DEF T
  <2> QED BY <2>1, Least
<1>2. CASE m = 0
  <2>1. Along(line, tile, 0, [i \in 1 .. 0 |-> 0])
    BY DEF Along
  <2> QED BY <1>2, <2>1
<1>3. CASE m > 0
  <2>1. m - 1 \in Nat /\ m - 1 \notin T
    BY <1>1, <1>3
  <2>2. PICK f : Along(line, tile, m - 1, f)
    BY <2>1
  <2> DEFINE g == [i \in 1 .. m |-> IF i = 1 THEN Start(line, tile)
                          ELSE WalkSegment(tile, line[i - 1], line[i], f[i - 1])]
  <2>3. \A i \in 1 .. m - 1 : g[i] = f[i]
    BY <2>1, <2>2 DEF Along
  <2>4. Along(line, tile, m, g)
    <3>1. \A i \in 1 .. m : i # 1 => i - 1 \in 1 .. m - 1
      BY <1>3
    <3> QED BY <2>3, <3>1 DEF Along
  <2> QED BY <2>1, <2>4
<1> QED
  BY <1>1, <1>2, <1>3

\* Walked is that solution: one WalkSegment per segment, as in the loop of
\* clip_edge_to_tile.
LEMMA WalkedIs ==
    ASSUME NEW line, NEW tile, Len(line) \in Nat
    PROVE  Along(line, tile, Len(line), Walked(line, tile))
<1>1. \E f : Along(line, tile, Len(line), f)
  BY WalkExists
<1>2. Along(line, tile, Len(line), CHOOSE f : Along(line, tile, Len(line), f))
  BY <1>1
<1> QED
  BY <1>2 DEF Along, Walked, Start

-----------------------------------------------------------------------------
(* The runs of a walk lie along one path                                   *)

\* Points, runs, the last vertex of a line, and a run's flag as a number.
Point == [x : Int, y : Int]
Run == [inside : BOOLEAN, line : Seq(Point)]
LastOf(s) == s[Len(s)]
Side(r) == IF r.inside THEN 1 ELSE 0

\* No vertex is repeated at once.
Plain(l) ==
    /\ l \in Seq(Point) /\ Len(l) >= 1
    /\ \A k \in 1 .. Len(l) - 1 : l[k] # l[k + 1]

\* A run is vertices s + 1 to e + 1 of a path whose segments are on its side.  The
\* runs are laid along the path: off has where each of them ends, a crossing is
\* where one ends and the next begins, and their sides alternate.
Block(run, path, side, s, e) ==
    /\ s <= e /\ Len(run.line) = e - s + 1
    /\ \A k \in 1 .. e - s + 1 : run.line[k] = path[s + k]
    /\ \A j \in s + 1 .. e : side[j] = Side(run)
Laid(runs, cs, path, side, off) ==
    /\ runs \in Seq(Run) /\ cs \in Seq(Point) /\ Plain(path)
    /\ side \in [1 .. Len(path) - 1 -> {0, 1}]
    /\ off \in [0 .. Len(runs) -> 0 .. Len(path) - 1]
    /\ off[0] = 0 /\ off[Len(runs)] = Len(path) - 1
    /\ \A i \in 1 .. Len(runs) : Block(runs[i], path, side, off[i - 1], off[i])
    /\ Len(cs) = IF Len(runs) = 0 THEN 0 ELSE Len(runs) - 1
    /\ \A i \in 1 .. Len(runs) - 1 : /\ cs[i] = path[off[i] + 1]
                                      /\ Side(runs[i + 1]) = 1 - Side(runs[i])

\* The run under construction, and all runs with it.
Current(w) == [inside |-> w.inside, line |-> w.line]
Whole(w) == Append(w.runs, Current(w))
Walking == [runs : Seq(Run), crossings : Seq(Point), line : Seq(Point), inside : BOOLEAN]

\* A single vertex is a plain line.
LEMMA OneVertex ==
    ASSUME NEW p \in Point
    PROVE  Plain(<<p>>) /\ Len(<<p>>) = 1 /\ <<p>>[1] = p /\ LastOf(<<p>>) = p
BY DEF Plain, LastOf

\* What a plain line has.
LEMMA PlainFacts ==
    ASSUME NEW l, Plain(l)
    PROVE  /\ l \in Seq(Point) /\ Len(l) \in Nat /\ Len(l) >= 1 /\ DOMAIN l = 1 .. Len(l)
           /\ \A k \in 1 .. Len(l) : l[k] \in Point
           /\ l[1] \in Point /\ LastOf(l) \in Point
<1>1. l \in Seq(Point) /\ Len(l) \in Nat /\ Len(l) >= 1 /\ DOMAIN l = 1 .. Len(l)
  BY LenProperties DEF Plain
<1>2. \A k \in 1 .. Len(l) : l[k] \in Point
  BY <1>1, ElementOfSeq
<1> QED
  BY <1>1, <1>2 DEF LastOf

\* push_coord keeps a line plain and has the vertex it pushes for its last.
LEMMA PushIs ==
    ASSUME NEW l, Plain(l), NEW p \in Point
    PROVE  LET q == PushCoord(l, p)
           IN  /\ Plain(q)
               /\ Len(q) = IF LastOf(l) = p THEN Len(l) ELSE Len(l) + 1
               /\ \A k \in 1 .. Len(l) : q[k] = l[k]
               /\ LastOf(q) = p
               /\ LastOf(l) = p => q = l
<1>1. l \in Seq(Point) /\ Len(l) \in Nat /\ Len(l) >= 1
  BY PlainFacts
<1>2. l # <<>>
  BY <1>1
<1>3. CASE LastOf(l) = p
  BY <1>1, <1>2, <1>3 DEF PushCoord, Last, LastOf
<1>4. CASE LastOf(l) # p
  <2>1. PushCoord(l, p) = Append(l, p)
    BY <1>4, <1>2 DEF PushCoord, Last, LastOf
  <2> DEFINE q == Append(l, p)
  <2>2. /\ q \in Seq(Point) /\ Len(q) = Len(l) + 1
        /\ \A k \in 1 .. Len(l) : q[k] = l[k]
        /\ q[Len(l) + 1] = p
    BY <1>1, AppendProperties
  <2> HIDE DEF q
  <2>3. \A k \in 1 .. Len(q) - 1 : q[k] # q[k + 1]
    <3> SUFFICES ASSUME NEW k \in 1 .. Len(q) - 1 PROVE q[k] # q[k + 1]
      OBVIOUS
    <3>1. CASE k = Len(l)
      BY <1>1, <1>4, <2>2, <3>1 DEF LastOf
    <3>2. CASE k # Len(l)
      <4>1. k \in 1 .. Len(l) - 1 /\ k \in 1 .. Len(l) /\ k + 1 \in 1 .. Len(l)
        BY <1>1, <2>2, <3>2
      <4> QED BY <2>2, <4>1 DEF Plain
    <3> QED BY <3>1, <3>2
  <2>4. Plain(q) /\ LastOf(q) = p
    BY <1>1, <2>2, <2>3 DEF Plain, LastOf
  <2> QED BY <1>4, <2>1, <2>2, <2>4 DEF q
<1> QED
  BY <1>3, <1>4

\* The runs of a walk with the one under construction for the last.
LEMMA WholeIs ==
    ASSUME NEW w \in Walking
    PROVE  /\ w.runs \in Seq(Run) /\ w.crossings \in Seq(Point) /\ w.line \in Seq(Point)
           /\ Current(w) \in Run /\ Side(Current(w)) = Side(w) /\ Current(w).line = w.line
           /\ Len(w.runs) \in Nat
           /\ Whole(w) \in Seq(Run) /\ Len(Whole(w)) = Len(w.runs) + 1
           /\ \A i \in 1 .. Len(w.runs) : Whole(w)[i] = w.runs[i]
           /\ Whole(w)[Len(w.runs) + 1] = Current(w)
<1>1. /\ w.runs \in Seq(Run) /\ w.crossings \in Seq(Point) /\ w.line \in Seq(Point)
      /\ w.inside \in BOOLEAN
  BY DEF Walking
<1>2. Current(w) \in Run /\ Current(w).line = w.line
  BY <1>1 DEF Run, Current
<1>4. Side(Current(w)) = Side(w)
  BY DEF Side, Current
<1>3. /\ Whole(w) \in Seq(Run) /\ Len(Whole(w)) = Len(w.runs) + 1
      /\ \A i \in 1 .. Len(w.runs) : Whole(w)[i] = w.runs[i]
      /\ Whole(w)[Len(w.runs) + 1] = Current(w)
  BY <1>1, <1>2, AppendProperties DEF Whole
<1> QED
  BY <1>1, <1>2, <1>3, <1>4, LenProperties

\* What it is for runs to be laid along a path.
LEMMA LaidIs ==
    ASSUME NEW runs, NEW cs, NEW path, NEW side, NEW off, Laid(runs, cs, path, side, off)
    PROVE  /\ Len(runs) \in Nat /\ runs \in Seq(Run) /\ cs \in Seq(Point)
           /\ Plain(path) /\ path \in Seq(Point) /\ Len(path) \in Nat /\ Len(path) >= 1
           /\ side \in [1 .. Len(path) - 1 -> {0, 1}]
           /\ off \in [0 .. Len(runs) -> 0 .. Len(path) - 1]
           /\ off[0] = 0 /\ off[Len(runs)] = Len(path) - 1
           /\ \A i \in 1 .. Len(runs) : Block(runs[i], path, side, off[i - 1], off[i])
           /\ Len(cs) = IF Len(runs) = 0 THEN 0 ELSE Len(runs) - 1
           /\ \A i \in 1 .. Len(runs) - 1 : /\ cs[i] = path[off[i] + 1]
                                             /\ Side(runs[i + 1]) = 1 - Side(runs[i])
<1>1. Plain(path) /\ runs \in Seq(Run)
  BY DEF Laid
<1>2. path \in Seq(Point) /\ Len(path) \in Nat /\ Len(path) >= 1 /\ Len(runs) \in Nat
  BY <1>1, PlainFacts, LenProperties
<1> QED
  BY <1>1, <1>2 DEF Laid

\* The run under construction ends where the path ends.
LEMMA LastBlock ==
    ASSUME NEW w \in Walking, NEW path, NEW side, NEW off,
           Laid(Whole(w), w.crossings, path, side, off)
    PROVE  /\ w.line # <<>> /\ LastOf(w.line) = LastOf(path)
           /\ Len(w.line) \in Nat /\ Len(w.line) >= 1
<1> DEFINE n == Len(w.runs) + 1
<1>1. /\ n \in Nat /\ n >= 1 /\ Len(Whole(w)) = n /\ Whole(w)[n] = Current(w)
      /\ Current(w).line = w.line
  BY WholeIs
<1>2. Len(path) \in Nat /\ Len(path) >= 1
  BY PlainFacts DEF Laid
<1> HIDE DEF n
<1>3. /\ Block(Current(w), path, side, off[n - 1], off[n]) /\ off[n] = Len(path) - 1
      /\ off[n - 1] \in 0 .. Len(path) - 1
  <2>1. /\ off \in [0 .. n -> 0 .. Len(path) - 1] /\ off[n] = Len(path) - 1
        /\ \A i \in 1 .. n : Block(Whole(w)[i], path, side, off[i - 1], off[i])
    <3>1. /\ off \in [0 .. Len(Whole(w)) -> 0 .. Len(path) - 1]
          /\ off[Len(Whole(w))] = Len(path) - 1
          /\ \A i \in 1 .. Len(Whole(w)) : Block(Whole(w)[i], path, side, off[i - 1], off[i])
      BY LaidIs
    <3> QED BY <1>1, <3>1
  <2>2. n \in 1 .. n /\ n - 1 \in 0 .. n
    BY <1>1
  <2> QED BY <1>1, <2>1, <2>2
<1> DEFINE s == off[n - 1]
<1>4. s \in Nat /\ s <= Len(path) - 1
  BY <1>2, <1>3
<1>5. /\ Len(w.line) = Len(path) - 1 - s + 1
      /\ \A k \in 1 .. Len(path) - 1 - s + 1 : w.line[k] = path[s + k]
  BY <1>1, <1>3 DEF Block
<1> HIDE DEF s
<1>6. Len(w.line) = Len(path) - s /\ Len(w.line) \in 1 .. Len(path) - 1 - s + 1
      /\ s + Len(w.line) = Len(path)
  BY <1>2, <1>4, <1>5
<1>7. LastOf(w.line) = LastOf(path)
  BY <1>5, <1>6 DEF LastOf
<1>8. Len(w.line) \in Nat /\ Len(w.line) >= 1
  BY <1>6
<1> QED
  BY <1>7, <1>8

\* Pushing the vertex that is there already changes nothing.
LEMMA ExtendStays ==
    ASSUME NEW w \in Walking, NEW path, NEW side, NEW off,
           Laid(Whole(w), w.crossings, path, side, off)
    PROVE  Extend(w, LastOf(path)) = w
<1>1. w.line # <<>> /\ LastOf(w.line) = LastOf(path)
  BY LastBlock
<1>2. PushCoord(w.line, LastOf(path)) = w.line
  BY <1>1 DEF PushCoord, Last, LastOf
<1> QED
  BY <1>2 DEF Extend, Walking

\* Pushing another vertex makes the path a segment longer.
LEMMA ExtendIs ==
    ASSUME NEW w \in Walking, NEW path, NEW side, NEW off,
           Laid(Whole(w), w.crossings, path, side, off),
           NEW q \in Point, q # LastOf(path),
           NEW v, v = Extend(w, q),
           NEW further, further = [j \in 1 .. Len(path) |-> IF j = Len(path) THEN Side(w) ELSE side[j]],
           NEW ends, ends = [off EXCEPT ![Len(w.runs) + 1] = Len(path)]
    PROVE  /\ v \in Walking /\ Side(v) = Side(w)
           /\ Laid(Whole(v), v.crossings, Append(path, q), further, ends)
<1> DEFINE n == Len(w.runs) + 1
           route == Append(path, q)
<1>1. /\ n \in Nat /\ n >= 1 /\ Len(Whole(w)) = n /\ Whole(w)[n] = Current(w)
      /\ \A i \in 1 .. n - 1 : Whole(w)[i] = w.runs[i]
      /\ Current(w).line = w.line /\ w.line \in Seq(Point) /\ Side(Current(w)) = Side(w)
      /\ Len(w.runs) = n - 1
  BY WholeIs
<1>2. Len(path) \in Nat /\ Len(path) >= 1 /\ path \in Seq(Point) /\ Plain(path)
  BY PlainFacts DEF Laid
<1>3. w.line # <<>> /\ LastOf(w.line) = LastOf(path) /\ Len(w.line) \in Nat
  BY LastBlock
<1>4. v = [runs |-> w.runs, crossings |-> w.crossings, line |-> Append(w.line, q),
           inside |-> w.inside]
  <2>1. PushCoord(w.line, q) = Append(w.line, q)
    BY <1>3 DEF PushCoord, Last, LastOf
  <2> QED BY <2>1 DEF Extend, Walking
<1>5. /\ Append(w.line, q) \in Seq(Point) /\ Len(Append(w.line, q)) = Len(w.line) + 1
      /\ \A k \in 1 .. Len(w.line) : Append(w.line, q)[k] = w.line[k]
      /\ Append(w.line, q)[Len(w.line) + 1] = q
  BY <1>1, AppendProperties
<1>6. v \in Walking
  BY <1>4, <1>5 DEF Walking
<1>7. Side(v) = Side(w)
  BY <1>4 DEF Side
<1>8. /\ Whole(v) \in Seq(Run) /\ Len(Whole(v)) = n /\ Whole(v)[n] = Current(v)
      /\ \A i \in 1 .. n - 1 : Whole(v)[i] = Whole(w)[i]
      /\ Current(v).line = Append(w.line, q) /\ Side(Current(v)) = Side(w)
      /\ v.crossings = w.crossings
  <2>1. v.runs = w.runs /\ v.crossings = w.crossings /\ v.line = Append(w.line, q)
    BY <1>4
  <2>2. /\ Whole(v) \in Seq(Run) /\ Len(Whole(v)) = n /\ Whole(v)[n] = Current(v)
        /\ \A i \in 1 .. n - 1 : Whole(v)[i] = w.runs[i]
        /\ Current(v).line = v.line /\ Side(Current(v)) = Side(v)
    BY <1>1, <1>6, <2>1, WholeIs
  <2> QED BY <1>1, <1>7, <2>1, <2>2
<1>9. /\ Plain(route) /\ Len(route) = Len(path) + 1
      /\ \A k \in 1 .. Len(path) : route[k] = path[k]
      /\ route[Len(path) + 1] = q
  <2>1. PushCoord(path, q) = route
    BY <1>2 DEF PushCoord, Last, LastOf
  <2>2. /\ Plain(route) /\ Len(route) = Len(path) + 1
        /\ \A k \in 1 .. Len(path) : route[k] = path[k] /\ LastOf(route) = q
    BY <1>2, <2>1, PushIs
  <2>3. route[Len(route)] = q
    BY <2>2 DEF LastOf
  <2> HIDE DEF route
  <2> QED BY <2>2, <2>3
<1> HIDE DEF n, route
<1>10. /\ side \in [1 .. Len(path) - 1 -> {0, 1}]
       /\ off \in [0 .. n -> 0 .. Len(path) - 1] /\ off[0] = 0 /\ off[n] = Len(path) - 1
       /\ \A i \in 1 .. n : Block(Whole(w)[i], path, side, off[i - 1], off[i])
       /\ w.crossings \in Seq(Point) /\ Len(w.crossings) = n - 1
       /\ \A i \in 1 .. n - 1 : /\ w.crossings[i] = path[off[i] + 1]
                                 /\ Side(Whole(w)[i + 1]) = 1 - Side(Whole(w)[i])
  <2>1. /\ side \in [1 .. Len(path) - 1 -> {0, 1}]
        /\ off \in [0 .. Len(Whole(w)) -> 0 .. Len(path) - 1] /\ off[0] = 0
        /\ off[Len(Whole(w))] = Len(path) - 1
        /\ \A i \in 1 .. Len(Whole(w)) : Block(Whole(w)[i], path, side, off[i - 1], off[i])
        /\ w.crossings \in Seq(Point)
        /\ Len(w.crossings) = IF Len(Whole(w)) = 0 THEN 0 ELSE Len(Whole(w)) - 1
        /\ \A i \in 1 .. Len(Whole(w)) - 1 : /\ w.crossings[i] = path[off[i] + 1]
                                              /\ Side(Whole(w)[i + 1]) = 1 - Side(Whole(w)[i])
    BY LaidIs
  <2>2. n # 0 /\ Len(Whole(w)) = n
    BY <1>1
  <2> QED BY <2>1, <2>2
<1>11. Side(w) \in {0, 1}
  BY DEF Side
<1>12. /\ further \in [1 .. Len(route) - 1 -> {0, 1}]
       /\ further[Len(path)] = Side(w) /\ \A j \in 1 .. Len(path) - 1 : further[j] = side[j]
  <2>1. \A j \in 1 .. Len(path) : j # Len(path) => side[j] \in {0, 1}
    <3>1. \A j \in 1 .. Len(path) : j # Len(path) => j \in 1 .. Len(path) - 1
      BY <1>2
    <3> QED BY <1>10, <3>1
  <2>2. Len(route) - 1 = Len(path) /\ Len(path) \in 1 .. Len(path)
        /\ \A j \in 1 .. Len(path) - 1 : j \in 1 .. Len(path) /\ j # Len(path)
    BY <1>2, <1>9
  <2> QED BY <2>1, <2>2, <1>11
<1>13. /\ ends \in [0 .. n -> 0 .. Len(route) - 1] /\ ends[0] = 0
       /\ ends[n] = Len(route) - 1 /\ ends[n] = Len(path)
       /\ \A i \in 0 .. n - 1 : ends[i] = off[i]
  <2>1. ends = [off EXCEPT ![n] = Len(path)]
    BY DEF n
  <2>2. n \in 0 .. n /\ 0 \in 0 .. n - 1 /\ Len(path) \in 0 .. Len(route) - 1
        /\ \A i \in 0 .. n - 1 : i \in 0 .. n /\ i # n
        /\ \A x \in 0 .. Len(path) - 1 : x \in 0 .. Len(route) - 1
    BY <1>1, <1>2, <1>9
  <2> QED BY <1>9, <1>10, <2>1, <2>2, <1>2
<1>14. \A i \in 1 .. n : Block(Whole(v)[i], route, further, ends[i - 1], ends[i])
  <2>1. ASSUME NEW i \in 1 .. n - 1
        PROVE  Block(Whole(v)[i], route, further, ends[i - 1], ends[i])
    <3>1. /\ Whole(v)[i] = Whole(w)[i] /\ ends[i - 1] = off[i - 1] /\ ends[i] = off[i]
          /\ off[i - 1] \in 0 .. Len(path) - 1 /\ off[i] \in 0 .. Len(path) - 1
          /\ Block(Whole(w)[i], path, side, off[i - 1], off[i])
      <4>1. i \in 1 .. n /\ i \in 0 .. n - 1 /\ i - 1 \in 0 .. n - 1 /\ i \in 0 .. n /\ i - 1 \in 0 .. n
        BY <1>1
      <4> QED BY <1>8, <1>10, <1>13, <4>1
    <3> DEFINE s == off[i - 1]
               e == off[i]
    <3> HIDE DEF s, e
    <3>2. s \in Nat /\ e \in Nat /\ e <= Len(path) - 1
      BY <3>1, <1>2 DEF s, e
    <3>3. Block(Whole(w)[i], path, side, s, e)
      BY <3>1 DEF s, e
    <3>4. \A k \in 1 .. e - s + 1 : route[s + k] = path[s + k]
      BY <1>2, <1>9, <3>2
    <3>5. \A j \in s + 1 .. e : further[j] = side[j]
      BY <1>2, <1>12, <3>2
    <3>6. Block(Whole(w)[i], route, further, s, e)
      BY <3>3, <3>4, <3>5 DEF Block
    <3> QED BY <3>1, <3>6 DEF s, e
  <2>2. Block(Whole(v)[n], route, further, ends[n - 1], ends[n])
    <3> DEFINE s == off[n - 1]
    <3>1. s \in Nat /\ s <= Len(path) - 1 /\ ends[n - 1] = s /\ ends[n] = Len(path)
      BY <1>1, <1>2, <1>10, <1>13
    <3>2. Block(Current(w), path, side, s, Len(path) - 1)
      BY <1>1, <1>10
    <3> HIDE DEF s
    <3>3. /\ Len(w.line) = Len(path) - s
          /\ \A k \in 1 .. Len(path) - s : w.line[k] = path[s + k]
          /\ \A j \in s + 1 .. Len(path) - 1 : side[j] = Side(w)
      BY <1>1, <1>2, <3>1, <3>2 DEF Block
    <3>4. Len(Append(w.line, q)) = Len(path) - s + 1
      BY <1>5, <3>3
    <3>5. ASSUME NEW k \in 1 .. Len(path) - s + 1 PROVE Append(w.line, q)[k] = route[s + k]
      <4>1. CASE k = Len(path) - s + 1
        BY <1>2, <1>5, <1>9, <3>1, <3>3, <4>1
      <4>2. CASE k # Len(path) - s + 1
        <5>1. k \in 1 .. Len(path) - s /\ k \in 1 .. Len(w.line) /\ s + k \in 1 .. Len(path)
          BY <1>2, <3>1, <3>3, <4>2
        <5> QED BY <1>5, <1>9, <3>3, <5>1
      <4> QED BY <4>1, <4>2
    <3>6. ASSUME NEW j \in s + 1 .. Len(path) PROVE further[j] = Side(w)
      <4>1. CASE j = Len(path)
        BY <1>12, <4>1
      <4>2. CASE j # Len(path)
        <5>1. j \in s + 1 .. Len(path) - 1 /\ j \in 1 .. Len(path) - 1
          BY <1>2, <3>1, <4>2
        <5> QED BY <1>12, <3>3, <5>1
      <4> QED BY <4>1, <4>2
    <3>7. Len(path) - s + 1 = Len(path) - s + 1 /\ s <= Len(path)
      BY <1>2, <3>1
    <3>8. Block(Current(v), route, further, s, Len(path))
      <4>1. Current(v).line = Append(w.line, q) /\ Side(Current(v)) = Side(w)
        BY <1>8
      <4> QED BY <4>1, <3>4, <3>5, <3>6, <3>7 DEF Block
    <3> QED BY <1>8, <3>1, <3>8
  <2> QED BY <1>1, <2>1, <2>2
<1>15. \A i \in 1 .. n - 1 : /\ v.crossings[i] = route[ends[i] + 1]
                             /\ Side(Whole(v)[i + 1]) = 1 - Side(Whole(v)[i])
  <2> SUFFICES ASSUME NEW i \in 1 .. n - 1
               PROVE  /\ v.crossings[i] = route[ends[i] + 1]
                      /\ Side(Whole(v)[i + 1]) = 1 - Side(Whole(v)[i])
    OBVIOUS
  <2>1. /\ ends[i] = off[i] /\ off[i] \in 0 .. Len(path) - 1
        /\ off[i] + 1 \in 1 .. Len(path) /\ i \in 0 .. n - 1
    <3>1. i \in 0 .. n - 1 /\ i \in 0 .. n
      BY <1>1
    <3>2. ends[i] = off[i] /\ off[i] \in 0 .. Len(path) - 1
      BY <3>1, <1>10, <1>13
    <3> QED BY <3>1, <3>2, <1>2
  <2>2. v.crossings[i] = route[ends[i] + 1]
    <3>1. v.crossings[i] = path[off[i] + 1]
      BY <1>8, <1>10
    <3>2. route[off[i] + 1] = path[off[i] + 1]
      BY <1>9, <2>1
    <3> QED BY <2>1, <3>1, <3>2
  <2>3. Side(Whole(v)[i + 1]) = Side(Whole(w)[i + 1]) /\ Whole(v)[i] = Whole(w)[i]
    <3>1. CASE i + 1 = n
      BY <1>1, <1>8, <3>1
    <3>2. CASE i + 1 # n
      <4>1. i + 1 \in 1 .. n - 1
        BY <1>1, <3>2
      <4> QED BY <1>8, <4>1
    <3> QED BY <3>1, <3>2
  <2> QED BY <1>10, <2>2, <2>3
<1>16. Len(v.crossings) = IF Len(Whole(v)) = 0 THEN 0 ELSE Len(Whole(v)) - 1
  BY <1>1, <1>8, <1>10
<1>17. Laid(Whole(v), v.crossings, route, further, ends)
  BY <1>8, <1>9, <1>10, <1>12, <1>13, <1>14, <1>15, <1>16 DEF Laid
<1> QED
  BY <1>6, <1>7, <1>17 DEF route

\* A cut closes the run and opens the next one at the same vertex.
CutOff(v, path, off) ==
    [i \in 0 .. Len(v.runs) + 1 |-> IF i = Len(v.runs) + 1 THEN Len(path) - 1 ELSE off[i]]

\* The walk after a cut: the runs lie along the same path, and it is on the other side.
LEMMA CutIs ==
    ASSUME NEW w \in Walking, NEW path, NEW side, NEW off, NEW q \in Point,
           NEW u, u = Extend(w, q), u \in Walking, Side(u) = Side(w),
           Laid(Whole(u), u.crossings, path, side, off), LastOf(path) = q,
           NEW v, v = Cut(w, q)
    PROVE  /\ v \in Walking /\ Side(v) = 1 - Side(w)
           /\ Laid(Whole(v), v.crossings, path, side, CutOff(v, path, off))
<1> DEFINE n == Len(Whole(u))
           ends == CutOff(v, path, off)
<1>1. v = [runs |-> Whole(u), crossings |-> Append(u.crossings, q), line |-> <<q>>,
           inside |-> ~w.inside]
  BY DEF Cut, Extend, Whole, Current, Walking
<1>2. /\ n \in Nat /\ n >= 1 /\ Whole(u) \in Seq(Run) /\ Whole(u)[n] = Current(u)
      /\ Side(Current(u)) = Side(w) /\ u.crossings \in Seq(Point)
  <2>1. /\ Len(u.runs) \in Nat /\ Len(Whole(u)) = Len(u.runs) + 1 /\ Whole(u) \in Seq(Run)
        /\ Whole(u)[Len(u.runs) + 1] = Current(u) /\ Side(Current(u)) = Side(u)
        /\ u.crossings \in Seq(Point)
    BY WholeIs
  <2> QED BY <2>1
<1>3. /\ Append(u.crossings, q) \in Seq(Point)
      /\ Len(Append(u.crossings, q)) = Len(u.crossings) + 1
      /\ \A i \in 1 .. Len(u.crossings) : Append(u.crossings, q)[i] = u.crossings[i]
      /\ Append(u.crossings, q)[Len(u.crossings) + 1] = q
  BY <1>2, AppendProperties
<1>4. <<q>> \in Seq(Point) /\ Len(<<q>>) = 1 /\ <<q>>[1] = q
  BY OneVertex, PlainFacts
<1>5. v \in Walking
  BY <1>1, <1>2, <1>3, <1>4 DEF Walking
<1>6. Side(v) = 1 - Side(w)
  <2>1. w.inside \in BOOLEAN /\ v.inside = ~w.inside
    BY <1>1 DEF Walking
  <2>2. (v.inside /\ ~w.inside) \/ (~v.inside /\ w.inside)
    BY <2>1, Zenon
  <2>3. Side(v) = (IF v.inside THEN 1 ELSE 0) /\ Side(w) = (IF w.inside THEN 1 ELSE 0)
    BY DEF Side
  <2> QED BY <2>2, <2>3
<1>7. /\ v.runs = Whole(u) /\ v.crossings = Append(u.crossings, q) /\ v.line = <<q>>
  BY <1>1
<1>8. /\ Whole(v) \in Seq(Run) /\ Len(Whole(v)) = n + 1 /\ Whole(v)[n + 1] = Current(v)
      /\ \A i \in 1 .. n : Whole(v)[i] = Whole(u)[i]
      /\ Current(v).line = <<q>> /\ Side(Current(v)) = 1 - Side(w)
  BY <1>5, <1>6, <1>7, WholeIs
<1>9. Len(path) \in Nat /\ Len(path) >= 1 /\ Plain(path)
  BY PlainFacts DEF Laid
<1>10. /\ side \in [1 .. Len(path) - 1 -> {0, 1}]
       /\ off \in [0 .. n -> 0 .. Len(path) - 1] /\ off[0] = 0 /\ off[n] = Len(path) - 1
       /\ \A i \in 1 .. n : Block(Whole(u)[i], path, side, off[i - 1], off[i])
       /\ Len(u.crossings) = n - 1
       /\ \A i \in 1 .. n - 1 : /\ u.crossings[i] = path[off[i] + 1]
                                 /\ Side(Whole(u)[i + 1]) = 1 - Side(Whole(u)[i])
  BY <1>2 DEF Laid
<1>11. ends = [i \in 0 .. n + 1 |-> IF i = n + 1 THEN Len(path) - 1 ELSE off[i]]
  BY <1>7 DEF CutOff
<1> HIDE DEF n, ends
<1>12. /\ ends \in [0 .. n + 1 -> 0 .. Len(path) - 1] /\ ends[0] = 0
       /\ ends[n + 1] = Len(path) - 1 /\ ends[n] = Len(path) - 1
       /\ \A i \in 0 .. n : ends[i] = off[i]
  <2>1. /\ n + 1 \in 0 .. n + 1 /\ 0 \in 0 .. n /\ n \in 0 .. n
        /\ \A i \in 0 .. n : i \in 0 .. n + 1 /\ i # n + 1
        /\ \A i \in 0 .. n + 1 : i # n + 1 => i \in 0 .. n
        /\ Len(path) - 1 \in 0 .. Len(path) - 1
    BY <1>2, <1>9
  <2>2. \A i \in 0 .. n : ends[i] = off[i]
    BY <1>11, <2>1
  <2>3. ends[n + 1] = Len(path) - 1
    BY <1>11, <2>1
  <2> QED BY <1>10, <1>11, <2>1, <2>2, <2>3
<1>13. \A i \in 1 .. n + 1 : Block(Whole(v)[i], path, side, ends[i - 1], ends[i])
  <2>1. ASSUME NEW i \in 1 .. n PROVE Block(Whole(v)[i], path, side, ends[i - 1], ends[i])
    <3>1. i - 1 \in 0 .. n /\ i \in 0 .. n
      BY <1>2
    <3> QED BY <1>8, <1>10, <1>12, <3>1
  <2>2. Block(Whole(v)[n + 1], path, side, ends[n], ends[n + 1])
    <3> DEFINE s == Len(path) - 1
    <3>1. s \in Int /\ s + 1 = Len(path) /\ s - s + 1 = 1 /\ s <= s
      BY <1>9
    <3>2. \A k \in 1 .. s - s + 1 : <<q>>[k] = path[s + k]
      BY <1>4, <1>9, <3>1 DEF LastOf
    <3>3. \A j \in s + 1 .. s : side[j] = Side(Current(v))
      BY <3>1
    <3>4. Block(Current(v), path, side, s, s)
      BY <1>4, <1>8, <3>1, <3>2, <3>3 DEF Block
    <3> QED BY <1>8, <1>12, <3>4
  <2>3. n + 1 - 1 = n
    BY <1>2
  <2>4. \A i \in 1 .. n + 1 : i \in 1 .. n \/ i = n + 1
    BY <1>2
  <2> QED
    <3> SUFFICES ASSUME NEW i \in 1 .. n + 1
                 PROVE  Block(Whole(v)[i], path, side, ends[i - 1], ends[i])
      OBVIOUS
    <3>1. CASE i \in 1 .. n
      BY <2>1, <3>1
    <3>2. CASE i = n + 1
      <4>1. i - 1 = n /\ i = n + 1
        BY <1>2, <3>2
      <4> QED BY <2>2, <4>1
    <3> QED BY <2>4, <3>1, <3>2
<1>14. \A i \in 1 .. n : /\ v.crossings[i] = path[ends[i] + 1]
                         /\ Side(Whole(v)[i + 1]) = 1 - Side(Whole(v)[i])
  <2> SUFFICES ASSUME NEW i \in 1 .. n
               PROVE  /\ v.crossings[i] = path[ends[i] + 1]
                      /\ Side(Whole(v)[i + 1]) = 1 - Side(Whole(v)[i])
    OBVIOUS
  <2>1. CASE i = n
    <3>1. v.crossings[n] = q /\ path[ends[n] + 1] = q
      BY <1>2, <1>3, <1>7, <1>9, <1>10, <1>12 DEF LastOf
    <3> QED BY <1>2, <1>8, <2>1, <3>1
  <2>2. CASE i # n
    <3>1. i \in 1 .. n - 1 /\ i \in 0 .. n /\ i + 1 \in 1 .. n
      BY <1>2, <2>2
    <3>2. v.crossings[i] = u.crossings[i] /\ ends[i] = off[i]
      BY <1>3, <1>7, <1>10, <1>12, <3>1
    <3>3. Whole(v)[i] = Whole(u)[i] /\ Whole(v)[i + 1] = Whole(u)[i + 1]
      BY <1>8, <3>1
    <3> QED BY <1>10, <3>1, <3>2, <3>3
  <2> QED BY <2>1, <2>2
<1>15. Len(v.crossings) = IF Len(Whole(v)) = 0 THEN 0 ELSE Len(Whole(v)) - 1
  BY <1>2, <1>3, <1>7, <1>8, <1>10
<1>16. Laid(Whole(v), v.crossings, path, side, ends)
  <2>1. v.crossings \in Seq(Point) /\ n + 1 - 1 = n
    BY <1>2, <1>3, <1>7
  <2>2. /\ side \in [1 .. Len(path) - 1 -> {0, 1}]
        /\ ends \in [0 .. Len(Whole(v)) -> 0 .. Len(path) - 1] /\ ends[0] = 0
        /\ ends[Len(Whole(v))] = Len(path) - 1
        /\ Whole(v) \in Seq(Run) /\ Plain(path)
    BY <1>8, <1>9, <1>10, <1>12
  <2>3. \A i \in 1 .. Len(Whole(v)) : Block(Whole(v)[i], path, side, ends[i - 1], ends[i])
    BY <1>8, <1>13
  <2>4. \A i \in 1 .. Len(Whole(v)) - 1 : /\ v.crossings[i] = path[ends[i] + 1]
                                          /\ Side(Whole(v)[i + 1]) = 1 - Side(Whole(v)[i])
    <3>1. Len(Whole(v)) - 1 = n
      BY <1>2, <1>8
    <3> QED BY <1>14, <3>1
  <2> QED BY <2>1, <2>2, <2>3, <2>4, <1>15 DEF Laid
<1> USE DEF ends
<1> QED
  BY <1>5, <1>6, <1>16

-----------------------------------------------------------------------------
(* Pieces of a path, and how they are joined                               *)

\* The elements of three sequences in a row.
LEMMA ThreeInARow ==
    ASSUME NEW S, NEW b \in Seq(S), NEW t \in Seq(S), NEW a \in Seq(S)
    PROVE  /\ b \o t \o a \in Seq(S)
           /\ Len(b \o t \o a) = Len(b) + Len(t) + Len(a)
           /\ \A i \in 1 .. Len(b) + Len(t) + Len(a) :
                 (b \o t \o a)[i] = IF i <= Len(b) THEN b[i]
                                    ELSE IF i <= Len(b) + Len(t) THEN t[i - Len(b)]
                                    ELSE a[i - (Len(b) + Len(t))]
<1>1. Len(b) \in Nat /\ Len(t) \in Nat /\ Len(a) \in Nat
  BY LenProperties
<1>2. /\ b \o t \in Seq(S) /\ Len(b \o t) = Len(b) + Len(t)
      /\ \A i \in 1 .. Len(b) + Len(t) : (b \o t)[i] = IF i <= Len(b) THEN b[i] ELSE t[i - Len(b)]
  BY ConcatProperties
<1>3. /\ (b \o t) \o a \in Seq(S) /\ Len((b \o t) \o a) = Len(b) + Len(t) + Len(a)
      /\ \A i \in 1 .. Len(b) + Len(t) + Len(a) :
            ((b \o t) \o a)[i] = IF i <= Len(b) + Len(t) THEN (b \o t)[i]
                                 ELSE a[i - (Len(b) + Len(t))]
  BY <1>2, ConcatProperties
<1> QED
  BY <1>1, <1>2, <1>3

-----------------------------------------------------------------------------
(* Joining two runs                                                        *)

\* f has the left line with the first i vertices of the right one pushed.
Joining(left, right, n, f) ==
    f = [i \in 0 .. n |-> IF i = 0 THEN left ELSE PushCoord(f[i - 1], right[i])]

\* The recursion of the join has a solution.
LEMMA JoinExists ==
    ASSUME NEW left, NEW right, NEW n \in Nat
    PROVE  \E f : Joining(left, right, n, f)
<1> DEFINE T == {k \in Nat : ~ \E f : Joining(left, right, k, f)}
<1> SUFFICES ASSUME T # {} PROVE FALSE
  OBVIOUS
<1>1. PICK m \in T : \A k \in T : m <= k
  <2> HIDE DEF T
  <2>1. T \subseteq Nat
    BY DEF T
  <2> QED BY <2>1, Least
<1>2. CASE m = 0
  <2>1. Joining(left, right, 0, [i \in 0 .. 0 |-> left])
    BY DEF Joining
  <2> QED BY <1>2, <2>1
<1>3. CASE m > 0
  <2>1. m - 1 \in Nat /\ m - 1 \notin T
    BY <1>1, <1>3
  <2>2. PICK f : Joining(left, right, m - 1, f)
    BY <2>1
  <2> DEFINE g == [i \in 0 .. m |-> IF i = 0 THEN left ELSE PushCoord(f[i - 1], right[i])]
  <2>3. \A i \in 0 .. m - 1 : g[i] = f[i]
    BY <2>1, <2>2 DEF Joining
  <2>4. Joining(left, right, m, g)
    <3>1. \A i \in 0 .. m : i # 0 => i - 1 \in 0 .. m - 1
      BY <1>3
    <3> QED BY <2>3, <3>1 DEF Joining
  <2> QED BY <2>1, <2>4
<1> QED
  BY <1>1, <1>2, <1>3

\* Joined is its last element.
LEMMA JoinedIs ==
    ASSUME NEW left, NEW right, Len(right) \in Nat
    PROVE  \E f : Joining(left, right, Len(right), f) /\ Joined(left, right) = f[Len(right)]
<1> DEFINE f == CHOOSE f : Joining(left, right, Len(right), f)
<1>1. \E g : Joining(left, right, Len(right), g)
  BY JoinExists
<1>2. Joining(left, right, Len(right), f)
  BY <1>1
<1>3. Joined(left, right) = f[Len(right)]
  BY DEF Joined, Joining
<1> QED
  BY <1>2, <1>3

\* Vertices s + 1 to e + 1 of a path.
Piece(l, path, s, e) ==
    /\ l \in Seq(Point) /\ Len(l) = e - s + 1
    /\ \A k \in 1 .. e - s + 1 : l[k] = path[s + k]

\* Pushing the last vertex of a piece changes nothing.
LEMMA PieceStays ==
    ASSUME NEW path, Plain(path), NEW s \in Nat, NEW e \in Nat, s <= e, e < Len(path),
           NEW l, Piece(l, path, s, e)
    PROVE  PushCoord(l, path[e + 1]) = l
<1>1. Len(l) = e - s + 1 /\ e - s + 1 \in 1 .. e - s + 1 /\ s + (e - s + 1) = e + 1
  BY DEF Piece
<1>2. l[Len(l)] = path[e + 1] /\ l # <<>>
  BY <1>1 DEF Piece
<1> QED
  BY <1>2 DEF PushCoord, Last

\* Pushing the next vertex of the path makes a piece one vertex longer.
LEMMA PieceGrows ==
    ASSUME NEW path, Plain(path), NEW s \in Nat, NEW e \in Nat, s <= e, e + 1 < Len(path),
           NEW l, Piece(l, path, s, e)
    PROVE  Piece(PushCoord(l, path[e + 2]), path, s, e + 1)
<1>1. Len(l) = e - s + 1 /\ e - s + 1 \in 1 .. e - s + 1 /\ s + (e - s + 1) = e + 1
  BY DEF Piece
<1>2. l[Len(l)] = path[e + 1] /\ l # <<>> /\ l \in Seq(Point)
  BY <1>1 DEF Piece
<1>3. path[e + 2] # path[e + 1] /\ path[e + 2] \in Point
  <2>1. /\ e + 1 \in 1 .. Len(path) - 1 /\ (e + 1) + 1 = e + 2 /\ Len(path) \in Nat
        /\ e + 2 \in 1 .. Len(path)
    BY PlainFacts
  <2> QED BY <2>1, PlainFacts DEF Plain
<1>4. PushCoord(l, path[e + 2]) = Append(l, path[e + 2])
  BY <1>2, <1>3 DEF PushCoord, Last
<1> DEFINE m == Append(l, path[e + 2])
<1>5. /\ m \in Seq(Point) /\ Len(m) = Len(l) + 1 /\ \A k \in 1 .. Len(l) : m[k] = l[k]
      /\ m[Len(l) + 1] = path[e + 2]
  BY <1>2, <1>3, AppendProperties
<1> HIDE DEF m
<1>6. ASSUME NEW k \in 1 .. (e + 1) - s + 1 PROVE m[k] = path[s + k]
  <2>1. CASE k = e - s + 2
    <3>1. s + k = e + 2 /\ k = Len(l) + 1
      BY <1>1, <2>1
    <3> QED BY <1>5, <3>1
  <2>2. CASE k # e - s + 2
    <3>1. k \in 1 .. e - s + 1
      BY <2>2
    <3> QED BY <1>1, <1>5, <3>1 DEF Piece
  <2> QED BY <2>1, <2>2
<1>7. Len(m) = (e + 1) - s + 1
  BY <1>1, <1>5
<1>8. Piece(m, path, s, e + 1)
  BY <1>5, <1>6, <1>7 DEF Piece
<1> QED
  BY <1>4, <1>8 DEF m

\* Two pieces that meet are joined to the piece they make up.
LEMMA JoinedPieces ==
    ASSUME NEW path, Plain(path),
           NEW s \in Nat, NEW m \in Nat, NEW e \in Nat, s <= m, m <= e, e < Len(path),
           NEW left, Piece(left, path, s, m), NEW right, Piece(right, path, m, e)
    PROVE  Piece(Joined(left, right), path, s, e)
<1>1. Len(right) = e - m + 1 /\ \A k \in 1 .. e - m + 1 : right[k] = path[m + k]
  BY DEF Piece
<1>2. PICK f : Joining(left, right, Len(right), f) /\ Joined(left, right) = f[Len(right)]
  <2>1. Len(right) \in Nat
    BY <1>1
  <2> QED BY <2>1, JoinedIs
<1>3. /\ f[0] = left
      /\ \A i \in 1 .. e - m + 1 : f[i] = PushCoord(f[i - 1], right[i])
  <2>1. f = [i \in 0 .. Len(right) |-> IF i = 0 THEN left ELSE PushCoord(f[i - 1], right[i])]
    BY <1>2 DEF Joining
  <2>2. 0 \in 0 .. Len(right) /\ \A i \in 1 .. e - m + 1 : i \in 0 .. Len(right) /\ i # 0
    BY <1>1
  <2> QED BY <2>1, <2>2
<1> DEFINE T == {i \in Nat : i <= e - m /\ ~ Piece(f[i + 1], path, s, m + i)}
<1>4. T = {}
  <2> SUFFICES ASSUME T # {} PROVE FALSE
    OBVIOUS
  <2>1. PICK i \in T : \A k \in T : i <= k
    <3> HIDE DEF T
    <3>1. T \subseteq Nat
      BY DEF T
    <3> QED BY <3>1, Least
  <2>2. CASE i = 0
    <3>1. f[1] = PushCoord(left, path[m + 1])
      <4>1. 1 \in 1 .. e - m + 1
        OBVIOUS
      <4> QED BY <1>1, <1>3, <4>1
    <3>2. f[1] = left
      BY <3>1, PieceStays
    <3> QED BY <2>1, <2>2, <3>2
  <2>3. CASE i # 0
    <3> DEFINE j == i - 1
    <3>1. j \in Nat /\ i = j + 1 /\ j + 1 <= e - m /\ j \notin T
      <4>1. i \in Nat /\ i <= e - m
        BY <2>1
      <4>2. j \in Nat /\ i = j + 1 /\ ~(i <= j)
        BY <2>3, <4>1
      <4>3. j \notin T
        <5> HIDE DEF T, j
        <5> QED BY <2>1, <4>2
      <4> QED BY <4>1, <4>2, <4>3
    <3> HIDE DEF j
    <3>2. Piece(f[j + 1], path, s, m + j)
      BY <3>1
    <3>3. f[j + 2] = PushCoord(f[j + 1], path[(m + j) + 2])
      <4>1. j + 2 \in 1 .. e - m + 1 /\ (j + 2) - 1 = j + 1 /\ m + (j + 2) = (m + j) + 2
        BY <3>1
      <4>2. j + 2 \in 1 .. e - m + 1 => f[j + 2] = PushCoord(f[(j + 2) - 1], right[j + 2])
        BY <1>3
      <4>3. right[j + 2] = path[m + (j + 2)]
        BY <1>1, <4>1
      <4> QED BY <4>1, <4>2, <4>3
    <3>4. Piece(f[j + 2], path, s, (m + j) + 1)
      <4>1. m + j \in Nat /\ s <= m + j /\ (m + j) + 1 < Len(path)
        <5>1. Len(path) \in Nat
          BY PlainFacts
        <5> QED BY <3>1, <5>1
      <4> QED BY <3>2, <3>3, <4>1, PieceGrows
    <3>5. ~ Piece(f[i + 1], path, s, m + i)
      BY <2>1
    <3>6. i + 1 = j + 2 /\ m + i = (m + j) + 1
      BY <3>1
    <3> QED BY <3>4, <3>5, <3>6
  <2> QED BY <2>2, <2>3
<1>5. Piece(f[e - m + 1], path, s, e)
  <2>1. e - m \in Nat /\ e - m <= e - m /\ m + (e - m) = e
    OBVIOUS
  <2>2. Piece(f[(e - m) + 1], path, s, m + (e - m))
    BY <1>4, <2>1
  <2> QED BY <2>1, <2>2
<1> QED
  BY <1>1, <1>2, <1>5

\* A block is a piece with all its segments on one side.
LEMMA BlockPiece ==
    ASSUME NEW run \in Run, NEW path, NEW side, NEW s, NEW e
    PROVE  Block(run, path, side, s, e) <=>
               /\ s <= e /\ Piece(run.line, path, s, e)
               /\ \A j \in s + 1 .. e : side[j] = Side(run)
BY DEF Run, Block, Piece

-----------------------------------------------------------------------------
(* Dropping one touch                                                      *)

\* The elements of a subsequence.
LEMMA SubSeqIs ==
    ASSUME NEW S, NEW s \in Seq(S), NEW m \in Nat, NEW k \in Nat,
           1 <= m, m <= k + 1, k <= Len(s)
    PROVE  /\ SubSeq(s, m, k) \in Seq(S) /\ Len(SubSeq(s, m, k)) = k - m + 1
           /\ \A i \in 1 .. k - m + 1 : SubSeq(s, m, k)[i] = s[m + i - 1]
<1>1. \A i \in m .. k : s[i] \in S
  <2>1. \A i \in m .. k : i \in 1 .. Len(s)
    BY LenProperties
  <2> QED BY <2>1, ElementOfSeq
<1>2. /\ SubSeq(s, m, k) \in Seq(S)
      /\ Len(SubSeq(s, m, k)) = IF m <= k THEN k - m + 1 ELSE 0
      /\ \A i \in 1 .. k - m + 1 : SubSeq(s, m, k)[i] = s[m + i - 1]
  <2>1. m \in Int /\ k \in Int
    OBVIOUS
  <2> QED BY <1>1, <2>1, SubSeqProperties
<1>3. ~(m <= k) => k - m + 1 = 0
  OBVIOUS
<1> QED
  BY <1>2, <1>3

\* The elements of a sequence with some in the middle left out.
LEMMA Skipped ==
    ASSUME NEW S, NEW s \in Seq(S), NEW m \in Nat, NEW k \in Nat,
           m <= Len(s), 1 <= k, k <= Len(s) + 1
    PROVE  LET t == SubSeq(s, 1, m) \o SubSeq(s, k, Len(s))
           IN  /\ t \in Seq(S) /\ Len(t) = m + (Len(s) - k + 1)
               /\ \A i \in 1 .. m : t[i] = s[i]
               /\ \A i \in m + 1 .. m + (Len(s) - k + 1) : t[i] = s[k + i - m - 1]
<1> DEFINE t == SubSeq(s, 1, m) \o SubSeq(s, k, Len(s))
           n == Len(s)
           b == SubSeq(s, 1, m)
           a == SubSeq(s, k, n)
<1>1. n \in Nat
  BY LenProperties
<1>2. /\ b \in Seq(S) /\ Len(b) = m - 1 + 1 /\ \A i \in 1 .. m - 1 + 1 : b[i] = s[1 + i - 1]
  <2>1. 1 \in Nat /\ 1 <= 1 /\ 1 <= m + 1
    OBVIOUS
  <2> QED BY <2>1, SubSeqIs
<1>3. /\ a \in Seq(S) /\ Len(a) = n - k + 1 /\ \A i \in 1 .. n - k + 1 : a[i] = s[k + i - 1]
  <2>1. n <= Len(s)
    BY <1>1
  <2> QED BY <1>1, <2>1, SubSeqIs
<1> HIDE DEF b, a
<1>4. t = b \o a
  BY DEF a, b
<1> HIDE DEF t
<1>5. /\ t \in Seq(S) /\ Len(t) = Len(b) + Len(a)
      /\ \A i \in 1 .. Len(b) + Len(a) : t[i] = IF i <= Len(b) THEN b[i] ELSE a[i - Len(b)]
  <2> SUFFICES /\ b \o a \in Seq(S) /\ Len(b \o a) = Len(b) + Len(a)
               /\ \A i \in 1 .. Len(b) + Len(a) : (b \o a)[i] = IF i <= Len(b) THEN b[i] ELSE a[i - Len(b)]
    BY <1>4
  <2>1. b \in Seq(S) /\ a \in Seq(S)
    BY <1>2, <1>3
  <2> QED BY <2>1, ConcatProperties
<1> HIDE DEF n
<1>6. Len(b) = m /\ Len(a) = n - k + 1 /\ k <= n + 1
  BY <1>1, <1>2, <1>3 DEF n
<1>7. \A i \in 1 .. m : t[i] = s[i]
  <2> SUFFICES ASSUME NEW i \in 1 .. m PROVE t[i] = s[i]
    OBVIOUS
  <2>1. i \in 1 .. Len(b) + Len(a) /\ i <= Len(b) /\ i \in 1 .. m - 1 + 1 /\ 1 + i - 1 = i
    BY <1>1, <1>6
  <2>2. t[i] = b[i] /\ b[i] = s[1 + i - 1]
    BY <1>2, <1>5, <2>1
  <2> QED BY <2>1, <2>2
<1>8. \A i \in m + 1 .. m + (n - k + 1) : t[i] = s[k + i - m - 1]
  <2> SUFFICES ASSUME NEW i \in m + 1 .. m + (n - k + 1) PROVE t[i] = s[k + i - m - 1]
    OBVIOUS
  <2>1. i \in 1 .. Len(b) + Len(a) /\ ~(i <= Len(b)) /\ i - m \in 1 .. n - k + 1
        /\ k + (i - m) - 1 = k + i - m - 1 /\ i - Len(b) = i - m
    BY <1>1, <1>6
  <2>2. t[i] = a[i - m]
    BY <1>5, <2>1
  <2>3. a[i - m] = s[k + (i - m) - 1]
    BY <1>3, <2>1
  <2> QED BY <2>1, <2>2, <2>3
<1>9. Len(t) = m + (n - k + 1)
  BY <1>5, <1>6
<1> QED
  BY <1>5, <1>7, <1>8, <1>9 DEF n, t

\* A sequence with the elements around a position made one.
Merge(s, x, pos) == SubSeq(s, 1, pos - 2) \o <<x>> \o SubSeq(s, pos + 2, Len(s))

\* The elements of a sequence after such a merge.
LEMMA MergeIs ==
    ASSUME NEW S, NEW s \in Seq(S), NEW x \in S, NEW pos \in Nat, 1 < pos, pos < Len(s)
    PROVE  /\ Merge(s, x, pos) \in Seq(S) /\ Len(Merge(s, x, pos)) = Len(s) - 2
           /\ \A i \in 1 .. pos - 2 : Merge(s, x, pos)[i] = s[i]
           /\ Merge(s, x, pos)[pos - 1] = x
           /\ \A i \in pos .. Len(s) - 2 : Merge(s, x, pos)[i] = s[i + 2]
<1> DEFINE n == Len(s)
           m == pos - 2
           k == pos + 2
           b == SubSeq(s, 1, m)
           o == <<x>>
           a == SubSeq(s, k, n)
           h == b \o o
           t == h \o a
<1>0. Merge(s, x, pos) = t
  BY DEF Merge
<1>1. n \in Nat
  BY LenProperties
<1>2. /\ m \in Nat /\ m <= n /\ 1 \in Nat /\ 1 <= 1 /\ 1 <= m + 1
      /\ k \in Nat /\ 1 <= k /\ k <= n + 1 /\ n <= n
      /\ m = pos - 2 /\ k = pos + 2 /\ n = Len(s)
  BY <1>1
<1> HIDE DEF m, k
<1>3. /\ b \in Seq(S) /\ Len(b) = m - 1 + 1 /\ \A i \in 1 .. m - 1 + 1 : b[i] = s[1 + i - 1]
  BY <1>2, SubSeqIs
<1>4. /\ a \in Seq(S) /\ Len(a) = n - k + 1 /\ \A i \in 1 .. n - k + 1 : a[i] = s[k + i - 1]
  BY <1>1, <1>2, SubSeqIs
<1>5. o \in Seq(S) /\ Len(o) = 1 /\ o[1] = x
  OBVIOUS
<1> HIDE DEF b, o, a, n
<1>6. /\ h \in Seq(S) /\ Len(h) = Len(b) + Len(o)
      /\ \A i \in 1 .. Len(b) + Len(o) : h[i] = IF i <= Len(b) THEN b[i] ELSE o[i - Len(b)]
  <2>1. b \in Seq(S) /\ o \in Seq(S)
    BY <1>3, <1>5
  <2> QED BY <2>1, ConcatProperties
<1> HIDE DEF h
<1>7. /\ t \in Seq(S) /\ Len(t) = Len(h) + Len(a)
      /\ \A i \in 1 .. Len(h) + Len(a) : t[i] = IF i <= Len(h) THEN h[i] ELSE a[i - Len(h)]
  <2>1. h \in Seq(S) /\ a \in Seq(S)
    BY <1>4, <1>6
  <2> QED BY <2>1, ConcatProperties
<1> HIDE DEF t
<1>8. /\ Len(b) = pos - 2 /\ Len(o) = 1 /\ Len(h) = pos - 1 /\ Len(a) = n - pos - 1
      /\ Len(t) = n - 2 /\ Len(h) + Len(a) = n - 2 /\ Len(b) + Len(o) = pos - 1
      /\ 1 < pos /\ pos < n
  BY <1>1, <1>2, <1>3, <1>4, <1>5, <1>6, <1>7
<1>9. \A i \in 1 .. pos - 2 : t[i] = s[i]
  <2> SUFFICES ASSUME NEW i \in 1 .. pos - 2 PROVE t[i] = s[i]
    OBVIOUS
  <2>1. /\ i \in 1 .. n - 2 /\ i <= pos - 1 /\ i \in 1 .. pos - 1 /\ i <= pos - 2
        /\ i \in 1 .. m - 1 + 1 /\ 1 + i - 1 = i
    BY <1>1, <1>2, <1>8
  <2>2. t[i] = h[i]
    BY <1>7, <1>8, <2>1
  <2>3. h[i] = b[i]
    BY <1>6, <1>8, <2>1
  <2>4. b[i] = s[i]
    BY <1>3, <2>1
  <2> QED BY <2>2, <2>3, <2>4
<1>10. t[pos - 1] = x
  <2>1. /\ pos - 1 \in 1 .. n - 2 /\ pos - 1 <= pos - 1 /\ pos - 1 \in 1 .. pos - 1
        /\ ~(pos - 1 <= pos - 2) /\ (pos - 1) - (pos - 2) = 1
    BY <1>1, <1>8
  <2>2. t[pos - 1] = h[pos - 1]
    BY <1>7, <1>8, <2>1
  <2>3. h[pos - 1] = o[1]
    BY <1>6, <1>8, <2>1
  <2> QED BY <1>5, <2>2, <2>3
<1>11. \A i \in pos .. n - 2 : t[i] = s[i + 2]
  <2> SUFFICES ASSUME NEW i \in pos .. n - 2 PROVE t[i] = s[i + 2]
    OBVIOUS
  <2>1. /\ i \in 1 .. n - 2 /\ ~(i <= pos - 1) /\ i - (pos - 1) \in 1 .. n - k + 1
        /\ k + (i - (pos - 1)) - 1 = i + 2
    BY <1>1, <1>2, <1>8
  <2>2. t[i] = a[i - (pos - 1)]
    BY <1>7, <1>8, <2>1
  <2>3. a[i - (pos - 1)] = s[k + (i - (pos - 1)) - 1]
    BY <1>4, <2>1
  <2> QED BY <2>1, <2>2, <2>3
<1> QED
  BY <1>0, <1>7, <1>8, <1>9, <1>10, <1>11 DEF n

\* DropTouch drops a run that there is, and that is short.
LEMMA LeastShort ==
    ASSUME NEW runs \in Seq(Run), Short(runs) # {}
    PROVE  Min(Short(runs)) \in 1 .. Len(runs) /\ Len(runs[Min(Short(runs))].line) < 2
<1> DEFINE T == Short(runs)
<1>1. DOMAIN runs = 1 .. Len(runs) /\ Len(runs) \in Nat
  BY LenProperties
<1>2. T \subseteq 1 .. Len(runs) /\ \A i \in T : Len(runs[i].line) < 2
  BY <1>1 DEF Short
<1> HIDE DEF T
<1>3. T \subseteq Nat /\ T # {}
  BY <1>1, <1>2 DEF T
<1>4. \E x \in T : \A y \in T : x =< y
  BY <1>3, Least
<1>5. Min(T) \in T
  BY <1>4 DEF Min
<1> QED
  BY <1>2, <1>5 DEF T

\* A run of fewer than two vertices has no segment of the path.
LEMMA EmptyBlock ==
    ASSUME NEW path, NEW side, NEW s \in Nat, NEW e \in Nat, NEW run,
           Block(run, path, side, s, e), Len(run.line) < 2
    PROVE  s = e
<1>1. s <= e /\ Len(run.line) = e - s + 1
  BY DEF Block
<1> QED
  BY <1>1

\* A first run without a segment goes, with its crossing, and the others still lie
\* along the path.
LEMMA DropFirst ==
    ASSUME NEW runs, NEW cs, NEW path, NEW side, NEW off, Laid(runs, cs, path, side, off),
           Len(runs) >= 1, Len(runs[1].line) < 2
    PROVE  \E ends : Laid(Tail(runs), IF cs = <<>> THEN <<>> ELSE Tail(cs), path, side, ends)
<1> DEFINE n == Len(runs)
           less == IF cs = <<>> THEN <<>> ELSE Tail(cs)
           ends == [i \in 0 .. n - 1 |-> off[i + 1]]
<1>1. /\ n \in Nat /\ runs \in Seq(Run) /\ cs \in Seq(Point)
      /\ Plain(path) /\ Len(path) \in Nat /\ Len(path) >= 1
      /\ side \in [1 .. Len(path) - 1 -> {0, 1}]
      /\ off \in [0 .. n -> 0 .. Len(path) - 1] /\ off[0] = 0 /\ off[n] = Len(path) - 1
      /\ \A i \in 1 .. n : Block(runs[i], path, side, off[i - 1], off[i])
      /\ Len(cs) = (IF n = 0 THEN 0 ELSE n - 1) /\ n >= 1
      /\ \A i \in 1 .. n - 1 : /\ cs[i] = path[off[i] + 1]
                               /\ Side(runs[i + 1]) = 1 - Side(runs[i])
  BY LaidIs
<1>2. /\ Tail(runs) \in Seq(Run) /\ Len(Tail(runs)) = n - 1
      /\ \A i \in 1 .. n - 1 : Tail(runs)[i] = runs[i + 1]
  <2>1. runs # <<>>
    BY <1>1
  <2> QED BY <1>1, <2>1, HeadTailProperties
<1>3. /\ less \in Seq(Point) /\ Len(less) = (IF n - 1 = 0 THEN 0 ELSE n - 2)
      /\ \A i \in 1 .. n - 2 : less[i] = cs[i + 1]
  <2>1. CASE cs = <<>>
    <3>1. less = <<>> /\ n = 1
      BY <1>1, <2>1
    <3>2. \A i \in 1 .. n - 2 : FALSE
      BY <3>1
    <3>3. less \in Seq(Point) /\ Len(less) = 0
      <4> HIDE DEF less
      <4> QED BY <3>1, EmptySeq
    <3> HIDE DEF less
    <3> QED BY <3>1, <3>2, <3>3
  <2>2. CASE cs # <<>>
    <3>1. Len(cs) # 0
      BY <1>1, <2>2
    <3>2. n # 1 /\ n - 1 # 0 /\ Len(cs) = n - 1
      BY <1>1, <3>1
    <3> QED BY <1>1, <2>2, <3>2, HeadTailProperties
  <2> QED BY <2>1, <2>2
<1> HIDE DEF n, less
<1>4. off[1] = 0
  <2>1. Block(runs[1], path, side, off[0], off[1]) /\ off[1] \in Nat /\ off[0] = 0
    <3>1. 1 \in 1 .. n /\ 1 \in 0 .. n /\ 1 - 1 = 0
      BY <1>1
    <3> QED BY <1>1, <3>1
  <2> QED BY <2>1, EmptyBlock
<1>5. /\ ends \in [0 .. n - 1 -> 0 .. Len(path) - 1]
      /\ ends[0] = 0 /\ ends[n - 1] = Len(path) - 1
      /\ \A i \in 0 .. n - 1 : ends[i] = off[i + 1]
  <2>1. /\ \A i \in 0 .. n - 1 : i + 1 \in 0 .. n
        /\ 0 \in 0 .. n - 1 /\ n - 1 \in 0 .. n - 1 /\ (n - 1) + 1 = n
    BY <1>1
  <2>2. \A i \in 0 .. n - 1 : ends[i] = off[i + 1]
    OBVIOUS
  <2>3. \A i \in 0 .. n - 1 : off[i + 1] \in 0 .. Len(path) - 1
    BY <1>1, <2>1
  <2>4. ends \in [0 .. n - 1 -> 0 .. Len(path) - 1]
    BY <2>3
  <2> HIDE DEF ends
  <2>5. ends[0] = 0
    BY <1>4, <2>1, <2>2
  <2>6. ends[n - 1] = Len(path) - 1
    BY <1>1, <2>1, <2>2
  <2> QED BY <2>2, <2>4, <2>5, <2>6
<1> HIDE DEF ends
<1>6. \A i \in 1 .. n - 1 : Block(Tail(runs)[i], path, side, ends[i - 1], ends[i])
  <2> SUFFICES ASSUME NEW i \in 1 .. n - 1
               PROVE  Block(Tail(runs)[i], path, side, ends[i - 1], ends[i])
    OBVIOUS
  <2>1. i + 1 \in 1 .. n /\ (i + 1) - 1 = i /\ i - 1 \in 0 .. n - 1 /\ i \in 0 .. n - 1
        /\ (i - 1) + 1 = i
    BY <1>1
  <2>2. Block(runs[i + 1], path, side, off[i], off[i + 1])
    BY <1>1, <2>1
  <2> QED BY <1>2, <1>5, <2>1, <2>2
<1>7. \A i \in 1 .. n - 2 : /\ less[i] = path[ends[i] + 1]
                            /\ Side(Tail(runs)[i + 1]) = 1 - Side(Tail(runs)[i])
  <2> SUFFICES ASSUME NEW i \in 1 .. n - 2
               PROVE  /\ less[i] = path[ends[i] + 1]
                      /\ Side(Tail(runs)[i + 1]) = 1 - Side(Tail(runs)[i])
    OBVIOUS
  <2>1. i + 1 \in 1 .. n - 1 /\ i \in 1 .. n - 1 /\ i \in 0 .. n - 1
    BY <1>1
  <2>2. cs[i + 1] = path[off[i + 1] + 1] /\ Side(runs[(i + 1) + 1]) = 1 - Side(runs[i + 1])
    BY <1>1, <2>1
  <2> QED BY <1>2, <1>3, <1>5, <2>1, <2>2
<1>8. Laid(Tail(runs), less, path, side, ends)
  <2>1. (n - 1) - 1 = n - 2
    BY <1>1
  <2> QED BY <2>1, <1>1, <1>2, <1>3, <1>5, <1>6, <1>7 DEF Laid
<1> QED
  BY <1>8 DEF less

\* So does a last one.
LEMMA DropLast ==
    ASSUME NEW runs, NEW cs, NEW path, NEW side, NEW off, Laid(runs, cs, path, side, off),
           Len(runs) >= 2, Len(runs[Len(runs)].line) < 2
    PROVE  \E ends : Laid(Front(runs), Front(cs), path, side, ends)
<1> DEFINE n == Len(runs)
           ends == [i \in 0 .. n - 1 |-> off[i]]
<1>1. /\ n \in Nat /\ runs \in Seq(Run) /\ cs \in Seq(Point)
      /\ Plain(path) /\ Len(path) \in Nat /\ Len(path) >= 1
      /\ side \in [1 .. Len(path) - 1 -> {0, 1}]
      /\ off \in [0 .. n -> 0 .. Len(path) - 1] /\ off[0] = 0 /\ off[n] = Len(path) - 1
      /\ \A i \in 1 .. n : Block(runs[i], path, side, off[i - 1], off[i])
      /\ Len(cs) = (IF n = 0 THEN 0 ELSE n - 1)
      /\ \A i \in 1 .. n - 1 : /\ cs[i] = path[off[i] + 1]
                               /\ Side(runs[i + 1]) = 1 - Side(runs[i])
  BY LaidIs
<1>0. n \in Nat /\ n >= 2 /\ Len(cs) = n - 1
  BY <1>1
<1>2. /\ Front(runs) \in Seq(Run) /\ Len(Front(runs)) = n - 1
      /\ \A i \in 1 .. n - 1 : Front(runs)[i] = runs[i]
  <2>1. Front(runs) = SubSeq(runs, 1, n - 1)
    BY DEF Front
  <2>2. n - 1 \in Nat /\ 1 <= (n - 1) + 1 /\ n - 1 <= n /\ (n - 1) - 1 + 1 = n - 1
        /\ \A i \in 1 .. n - 1 : 1 + i - 1 = i
    BY <1>0
  <2>3. n = Len(runs)
    OBVIOUS
  <2> DEFINE k == n - 1
  <2>5. k \in Nat /\ 1 <= k + 1 /\ k <= Len(runs) /\ 1 \in Nat /\ 1 <= 1
    BY <2>2, <2>3
  <2>6. n - 1 = k
    OBVIOUS
  <2> HIDE DEF n, k
  <2>4. /\ SubSeq(runs, 1, k) \in Seq(Run) /\ Len(SubSeq(runs, 1, k)) = k - 1 + 1
        /\ \A i \in 1 .. k - 1 + 1 : SubSeq(runs, 1, k)[i] = runs[1 + i - 1]
    BY <1>1, <2>5, SubSeqIs
  <2> QED BY <2>1, <2>2, <2>4, <2>6
<1>3. /\ Front(cs) \in Seq(Point) /\ Len(Front(cs)) = n - 2
      /\ \A i \in 1 .. n - 2 : Front(cs)[i] = cs[i]
  <2>1. Front(cs) = SubSeq(cs, 1, n - 2)
    <3>1. Len(cs) - 1 = n - 2
      BY <1>0
    <3> QED BY <3>1 DEF Front
  <2>2. n - 2 \in Nat /\ 1 <= (n - 2) + 1 /\ n - 2 <= Len(cs) /\ (n - 2) - 1 + 1 = n - 2
        /\ \A i \in 1 .. n - 2 : 1 + i - 1 = i
    BY <1>0
  <2> DEFINE k == n - 2
  <2>5. k \in Nat /\ 1 <= k + 1 /\ k <= Len(cs) /\ 1 \in Nat /\ 1 <= 1
    BY <2>2
  <2>6. n - 2 = k
    OBVIOUS
  <2> HIDE DEF n, k
  <2>4. /\ SubSeq(cs, 1, k) \in Seq(Point) /\ Len(SubSeq(cs, 1, k)) = k - 1 + 1
        /\ \A i \in 1 .. k - 1 + 1 : SubSeq(cs, 1, k)[i] = cs[1 + i - 1]
    <3>1. cs \in Seq(Point)
      BY <1>1
    <3> QED BY <2>5, <3>1, SubSeqIs
  <2> QED BY <2>1, <2>2, <2>4, <2>6
<1> HIDE DEF n
<1>4. off[n - 1] = Len(path) - 1
  <2>1. Block(runs[n], path, side, off[n - 1], off[n]) /\ off[n - 1] \in Nat /\ off[n] \in Nat
    <3>1. n \in 1 .. n /\ n \in 0 .. n /\ n - 1 \in 0 .. n
      BY <1>0
    <3> QED BY <1>1, <3>1
  <2>2. Len(runs[n].line) < 2
    BY DEF n
  <2> QED BY <1>1, <2>1, <2>2, EmptyBlock
<1>5. /\ ends \in [0 .. n - 1 -> 0 .. Len(path) - 1]
      /\ ends[0] = 0 /\ ends[n - 1] = Len(path) - 1
      /\ \A i \in 0 .. n - 1 : ends[i] = off[i]
  <2>1. /\ \A i \in 0 .. n - 1 : i \in 0 .. n
        /\ 0 \in 0 .. n - 1 /\ n - 1 \in 0 .. n - 1
    BY <1>0
  <2> QED BY <1>1, <1>4, <2>1
<1> HIDE DEF ends
<1>6. \A i \in 1 .. n - 1 : Block(Front(runs)[i], path, side, ends[i - 1], ends[i])
  <2> SUFFICES ASSUME NEW i \in 1 .. n - 1
               PROVE  Block(Front(runs)[i], path, side, ends[i - 1], ends[i])
    OBVIOUS
  <2>1. i \in 1 .. n /\ i - 1 \in 0 .. n - 1 /\ i \in 0 .. n - 1
    BY <1>0
  <2> QED BY <1>1, <1>2, <1>5, <2>1
<1>7. \A i \in 1 .. n - 2 : /\ Front(cs)[i] = path[ends[i] + 1]
                            /\ Side(Front(runs)[i + 1]) = 1 - Side(Front(runs)[i])
  <2> SUFFICES ASSUME NEW i \in 1 .. n - 2
               PROVE  /\ Front(cs)[i] = path[ends[i] + 1]
                      /\ Side(Front(runs)[i + 1]) = 1 - Side(Front(runs)[i])
    OBVIOUS
  <2>1. i + 1 \in 1 .. n - 1 /\ i \in 1 .. n - 1 /\ i \in 0 .. n - 1
    BY <1>0
  <2>2. cs[i] = path[off[i] + 1] /\ Side(runs[i + 1]) = 1 - Side(runs[i])
    BY <1>1, <2>1
  <2> QED BY <1>2, <1>3, <1>5, <2>1, <2>2
<1>8. Laid(Front(runs), Front(cs), path, side, ends)
  <2>1. (n - 1) - 1 = n - 2 /\ n - 1 # 0
    BY <1>0
  <2> QED BY <2>1, <1>0, <1>1, <1>2, <1>3, <1>5, <1>6, <1>7 DEF Laid
<1> QED
  BY <1>8

\* What is left of a run in the middle: its neighbours as one run, and neither of
\* its crossings.
MergedRun(runs, pos) ==
    [inside |-> runs[pos - 1].inside, line |-> Joined(runs[pos - 1].line, runs[pos + 1].line)]
Fewer(cs, pos) == SubSeq(cs, 1, pos - 2) \o SubSeq(cs, pos + 1, Len(cs))

\* A run in the middle without a segment is between two runs of one side: joined,
\* they still lie along the path.
LEMMA DropMiddle ==
    ASSUME NEW runs, NEW cs, NEW path, NEW side, NEW off, Laid(runs, cs, path, side, off),
           NEW pos \in Nat, 1 < pos, pos < Len(runs), Len(runs[pos].line) < 2
    PROVE  /\ \E ends : Laid(Merge(runs, MergedRun(runs, pos), pos), Fewer(cs, pos), path, side, ends)
           /\ Len(Merge(runs, MergedRun(runs, pos), pos)) = Len(runs) - 2
<1> DEFINE joined == MergedRun(runs, pos)
           less == Merge(runs, joined, pos)
           fewer == Fewer(cs, pos)
<1> HIDE DEF joined, less, fewer
<1> DEFINE n == Len(runs)
           ends == [i \in 0 .. n - 2 |-> IF i <= pos - 2 THEN off[i] ELSE off[i + 2]]
<1>1. /\ n \in Nat /\ runs \in Seq(Run) /\ cs \in Seq(Point)
      /\ Plain(path) /\ Len(path) \in Nat /\ Len(path) >= 1
      /\ side \in [1 .. Len(path) - 1 -> {0, 1}]
      /\ off \in [0 .. n -> 0 .. Len(path) - 1] /\ off[0] = 0 /\ off[n] = Len(path) - 1
      /\ \A i \in 1 .. n : Block(runs[i], path, side, off[i - 1], off[i])
      /\ Len(cs) = (IF n = 0 THEN 0 ELSE n - 1)
      /\ \A i \in 1 .. n - 1 : /\ cs[i] = path[off[i] + 1]
                               /\ Side(runs[i + 1]) = 1 - Side(runs[i])
  <2>1. /\ n \in Nat /\ runs \in Seq(Run) /\ cs \in Seq(Point)
        /\ Plain(path) /\ Len(path) \in Nat /\ Len(path) >= 1
        /\ side \in [1 .. Len(path) - 1 -> {0, 1}]
    BY LaidIs
  <2>2. off \in [0 .. n -> 0 .. Len(path) - 1] /\ off[0] = 0 /\ off[n] = Len(path) - 1
    BY LaidIs
  <2>3. \A i \in 1 .. n : Block(runs[i], path, side, off[i - 1], off[i])
    BY LaidIs
  <2>4. /\ Len(cs) = (IF n = 0 THEN 0 ELSE n - 1)
        /\ \A i \in 1 .. n - 1 : /\ cs[i] = path[off[i] + 1]
                                 /\ Side(runs[i + 1]) = 1 - Side(runs[i])
    BY LaidIs
  <2> QED BY <2>1, <2>2, <2>3, <2>4
<1>2. n \in Nat /\ pos \in Nat /\ 1 < pos /\ pos < n /\ Len(cs) = n - 1
  BY <1>1
<1> HIDE DEF n
<1>3. \A i \in 1 .. n : runs[i] \in Run
  BY <1>1, ElementOfSeq DEF n
<1>4. /\ off[pos] = off[pos - 1]
      /\ off[pos - 2] \in Nat /\ off[pos - 1] \in Nat /\ off[pos + 1] \in Nat
      /\ off[pos - 2] <= off[pos - 1] /\ off[pos - 1] <= off[pos + 1]
      /\ off[pos + 1] < Len(path)
  <2>1. /\ pos \in 1 .. n /\ pos \in 0 .. n /\ pos - 1 \in 0 .. n /\ pos - 1 \in 1 .. n
        /\ pos - 2 \in 0 .. n /\ pos + 1 \in 1 .. n /\ pos + 1 \in 0 .. n
        /\ (pos - 1) - 1 = pos - 2 /\ (pos + 1) - 1 = pos
    BY <1>2
  <2>2. /\ off[pos] \in Nat /\ off[pos - 1] \in Nat /\ off[pos - 2] \in Nat /\ off[pos + 1] \in Nat
        /\ off[pos + 1] < Len(path)
    <3>1. off \in [0 .. n -> 0 .. Len(path) - 1] /\ Len(path) \in Nat
      BY <1>1
    <3>2. /\ off[pos] \in 0 .. Len(path) - 1 /\ off[pos - 1] \in 0 .. Len(path) - 1
          /\ off[pos - 2] \in 0 .. Len(path) - 1 /\ off[pos + 1] \in 0 .. Len(path) - 1
      BY <2>1, <3>1
    <3> QED BY <3>1, <3>2
  <2>3. Block(runs[pos], path, side, off[pos - 1], off[pos])
    BY <1>1, <2>1
  <2>4. off[pos] = off[pos - 1]
    BY <2>2, <2>3, EmptyBlock
  <2>5. Block(runs[pos - 1], path, side, off[pos - 2], off[pos - 1])
        /\ Block(runs[pos + 1], path, side, off[pos], off[pos + 1])
    BY <1>1, <2>1
  <2>6. off[pos - 2] <= off[pos - 1] /\ off[pos] <= off[pos + 1]
    BY <2>5 DEF Block
  <2> QED BY <2>2, <2>4, <2>6
<1>5. /\ joined \in Run /\ Side(joined) = Side(runs[pos - 1])
      /\ Side(runs[pos + 1]) = Side(runs[pos - 1])
      /\ Block(joined, path, side, off[pos - 2], off[pos + 1])
  <2>1. /\ pos \in 1 .. n /\ pos - 1 \in 1 .. n /\ pos + 1 \in 1 .. n
        /\ pos - 1 \in 1 .. n - 1 /\ pos \in 1 .. n - 1
        /\ (pos - 1) - 1 = pos - 2 /\ (pos + 1) - 1 = pos /\ (pos - 1) + 1 = pos
    BY <1>2
  <2>2. /\ Block(runs[pos - 1], path, side, off[pos - 2], off[pos - 1])
        /\ Block(runs[pos + 1], path, side, off[pos - 1], off[pos + 1])
    BY <1>1, <1>4, <2>1
  <2> DEFINE left == runs[pos - 1].line
             right == runs[pos + 1].line
             s == off[pos - 2]
             m == off[pos - 1]
             e == off[pos + 1]
  <2>3. /\ Piece(left, path, s, m) /\ Piece(right, path, m, e)
        /\ \A j \in s + 1 .. m : side[j] = Side(runs[pos - 1])
        /\ \A j \in m + 1 .. e : side[j] = Side(runs[pos + 1])
    BY <1>3, <2>1, <2>2, BlockPiece
  <2>4. s \in Nat /\ m \in Nat /\ e \in Nat /\ s <= m /\ m <= e /\ e < Len(path)
    BY <1>4
  <2>5. joined.line = Joined(left, right)
    BY DEF joined, MergedRun
  <2> HIDE DEF left, right, s, m, e
  <2>6. Piece(joined.line, path, s, e)
    BY <1>1, <2>3, <2>4, <2>5, JoinedPieces
  <2>7. Side(joined) = Side(runs[pos - 1])
    BY DEF Side, joined, MergedRun
  <2>8. Side(runs[pos + 1]) = Side(runs[pos - 1])
    <3>1. Side(runs[pos]) = 1 - Side(runs[pos - 1]) /\ Side(runs[pos + 1]) = 1 - Side(runs[pos])
      BY <1>1, <2>1
    <3>2. Side(runs[pos - 1]) \in Int
      BY DEF Side
    <3> QED BY <3>1, <3>2
  <2>9. joined \in Run
    <3>1. runs[pos - 1].inside \in BOOLEAN
      BY <1>3, <2>1 DEF Run
    <3>2. joined.line \in Seq(Point)
      BY <2>6 DEF Piece
    <3> QED BY <3>1, <3>2, <2>5 DEF Run, joined, MergedRun
  <2>10. \A j \in s + 1 .. e : side[j] = Side(joined)
    <3>1. \A j \in s + 1 .. e : j \in s + 1 .. m \/ j \in m + 1 .. e
      BY <2>4
    <3> QED BY <2>3, <2>7, <2>8, <3>1
  <2>11. Block(joined, path, side, s, e)
    <3>1. s <= e
      BY <2>4
    <3> QED BY <2>6, <2>9, <2>10, <3>1, BlockPiece
  <2> QED BY <2>7, <2>8, <2>9, <2>11 DEF s, e
<1>6. /\ less \in Seq(Run) /\ Len(less) = n - 2
      /\ \A i \in 1 .. pos - 2 : less[i] = runs[i]
      /\ less[pos - 1] = joined
      /\ \A i \in pos .. n - 2 : less[i] = runs[i + 2]
  <2>1. runs \in Seq(Run) /\ joined \in Run /\ n = Len(runs)
    BY <1>1, <1>5 DEF n
  <2>2. less = Merge(runs, joined, pos)
    BY DEF less
  <2>3. 1 < pos /\ pos < Len(runs)
    OBVIOUS
  <2>4. /\ Merge(runs, joined, pos) \in Seq(Run) /\ Len(Merge(runs, joined, pos)) = Len(runs) - 2
        /\ Merge(runs, joined, pos)[pos - 1] = joined
    BY <2>1, <2>3, MergeIs
  <2>5. \A i \in 1 .. pos - 2 : Merge(runs, joined, pos)[i] = runs[i]
    BY <2>1, <2>3, MergeIs
  <2>6. \A i \in pos .. Len(runs) - 2 : Merge(runs, joined, pos)[i] = runs[i + 2]
    BY <2>1, <2>3, MergeIs
  <2> QED BY <2>1, <2>2, <2>4, <2>5, <2>6
<1>7. /\ fewer \in Seq(Point) /\ Len(fewer) = n - 3
      /\ \A i \in 1 .. pos - 2 : fewer[i] = cs[i]
      /\ \A i \in pos - 1 .. n - 3 : fewer[i] = cs[i + 2]
  <2> DEFINE m == pos - 2
             k == pos + 1
  <2>1. /\ m \in Nat /\ k \in Nat /\ m <= Len(cs) /\ 1 <= k /\ k <= Len(cs) + 1
        /\ fewer = SubSeq(cs, 1, m) \o SubSeq(cs, k, Len(cs))
    BY <1>2 DEF fewer, Fewer
  <2>2. pos - 1 = m + 1 /\ n - 3 = m + (Len(cs) - k + 1)
        /\ \A i \in Int : k + i - m - 1 = i + 2
    BY <1>2
  <2>3. pos - 2 = m
    OBVIOUS
  <2> HIDE DEF m, k
  <2>4. /\ fewer \in Seq(Point) /\ Len(fewer) = m + (Len(cs) - k + 1)
        /\ \A i \in 1 .. m : fewer[i] = cs[i]
        /\ \A i \in m + 1 .. m + (Len(cs) - k + 1) : fewer[i] = cs[k + i - m - 1]
    <3>1. cs \in Seq(Point)
      BY <1>1
    <3> DEFINE t == SubSeq(cs, 1, m) \o SubSeq(cs, k, Len(cs))
    <3>2. t \in Seq(Point) /\ Len(t) = m + (Len(cs) - k + 1)
      BY <2>1, <3>1, Skipped
    <3>3. \A i \in 1 .. m : t[i] = cs[i]
      BY <2>1, <3>1, Skipped
    <3>5. \A i \in m + 1 .. m + (Len(cs) - k + 1) : t[i] = cs[k + i - m - 1]
      BY <2>1, <3>1, Skipped
    <3>6. fewer = t
      BY <2>1
    <3> HIDE DEF t
    <3> QED BY <3>2, <3>3, <3>5, <3>6
  <2>5. \A i \in pos - 1 .. n - 3 : fewer[i] = cs[i + 2]
    <3> SUFFICES ASSUME NEW i \in pos - 1 .. n - 3 PROVE fewer[i] = cs[i + 2]
      OBVIOUS
    <3>1. i \in m + 1 .. m + (Len(cs) - k + 1) /\ k + i - m - 1 = i + 2
      BY <2>2
    <3> QED BY <2>4, <3>1
  <2> QED BY <2>2, <2>3, <2>4, <2>5
<1>8. /\ ends \in [0 .. n - 2 -> 0 .. Len(path) - 1]
      /\ ends[0] = 0 /\ ends[n - 2] = Len(path) - 1
      /\ \A i \in 0 .. pos - 2 : ends[i] = off[i]
      /\ \A i \in pos - 1 .. n - 2 : ends[i] = off[i + 2]
  <2>1. /\ \A i \in 0 .. n - 2 : i \in 0 .. n /\ i + 2 \in 0 .. n
        /\ \A i \in 0 .. pos - 2 : i \in 0 .. n - 2 /\ i <= pos - 2
        /\ \A i \in pos - 1 .. n - 2 : i \in 0 .. n - 2 /\ ~(i <= pos - 2)
        /\ 0 \in 0 .. pos - 2 /\ n - 2 \in pos - 1 .. n - 2 /\ (n - 2) + 2 = n
    BY <1>2
  <2>2. /\ \A i \in 0 .. pos - 2 : ends[i] = off[i]
        /\ \A i \in pos - 1 .. n - 2 : ends[i] = off[i + 2]
    BY <2>1
  <2>3. ends \in [0 .. n - 2 -> 0 .. Len(path) - 1]
    BY <1>1, <2>1
  <2> HIDE DEF ends
  <2> QED BY <1>1, <2>1, <2>2, <2>3
<1> HIDE DEF ends
<1>9. \A i \in 1 .. n - 2 : Block(less[i], path, side, ends[i - 1], ends[i])
  <2> SUFFICES ASSUME NEW i \in 1 .. n - 2 PROVE Block(less[i], path, side, ends[i - 1], ends[i])
    OBVIOUS
  <2>1. CASE i <= pos - 2
    <3>1. i \in 1 .. pos - 2 /\ i \in 0 .. pos - 2 /\ i - 1 \in 0 .. pos - 2 /\ i \in 1 .. n
      BY <1>2, <2>1
    <3> QED BY <1>1, <1>6, <1>8, <3>1
  <2>2. CASE i = pos - 1
    <3>1. i - 1 = pos - 2 /\ pos - 2 \in 0 .. pos - 2 /\ i \in pos - 1 .. n - 2 /\ i + 2 = pos + 1
      BY <1>2, <2>2
    <3>2. ends[i - 1] = off[pos - 2] /\ ends[i] = off[pos + 1] /\ less[i] = joined
      BY <1>6, <1>8, <2>2, <3>1
    <3> QED BY <1>5, <3>2
  <2>3. CASE i >= pos
    <3>1. /\ i \in pos .. n - 2 /\ i \in pos - 1 .. n - 2 /\ i - 1 \in pos - 1 .. n - 2
          /\ (i - 1) + 2 = (i + 2) - 1 /\ i + 2 \in 1 .. n
      BY <1>2, <2>3
    <3>2. ends[i - 1] = off[(i + 2) - 1] /\ ends[i] = off[i + 2] /\ less[i] = runs[i + 2]
      BY <1>6, <1>8, <3>1
    <3> QED BY <1>1, <3>1, <3>2
  <2>4. i <= pos - 2 \/ i = pos - 1 \/ i >= pos
    BY <1>2
  <2> QED BY <2>1, <2>2, <2>3, <2>4
<1>10. \A i \in 1 .. n - 3 : /\ fewer[i] = path[ends[i] + 1]
                             /\ Side(less[i + 1]) = 1 - Side(less[i])
  <2> SUFFICES ASSUME NEW i \in 1 .. n - 3
               PROVE  fewer[i] = path[ends[i] + 1] /\ Side(less[i + 1]) = 1 - Side(less[i])
    OBVIOUS
  <2>1. CASE i + 1 <= pos - 2
    <3>1. i \in 1 .. pos - 2 /\ i + 1 \in 1 .. pos - 2 /\ i \in 0 .. pos - 2 /\ i \in 1 .. n - 1
      BY <1>2, <2>1
    <3> QED BY <1>1, <1>6, <1>7, <1>8, <3>1
  <2>2. CASE i = pos - 2
    <3>1. i \in 1 .. pos - 2 /\ i + 1 = pos - 1 /\ i \in 0 .. pos - 2 /\ i \in 1 .. n - 1
      BY <1>2, <2>2
    <3>2. fewer[i] = cs[i] /\ ends[i] = off[i] /\ less[i] = runs[i] /\ less[i + 1] = joined
      BY <1>6, <1>7, <1>8, <3>1
    <3>3. cs[i] = path[off[i] + 1] /\ Side(runs[pos - 1]) = 1 - Side(runs[i])
      <4>1. cs[i] = path[off[i] + 1] /\ Side(runs[i + 1]) = 1 - Side(runs[i])
        BY <1>1, <3>1
      <4> QED BY <3>1, <4>1
    <3> QED BY <1>5, <3>2, <3>3
  <2>3. CASE i = pos - 1
    <3>1. /\ i \in pos - 1 .. n - 3 /\ i \in pos - 1 .. n - 2 /\ i + 2 \in 1 .. n - 1
          /\ i + 1 \in pos .. n - 2 /\ i + 2 = pos + 1 /\ (i + 1) + 2 = (i + 2) + 1
      BY <1>2, <2>3
    <3>2. /\ fewer[i] = cs[i + 2] /\ ends[i] = off[i + 2]
          /\ less[i] = joined /\ less[i + 1] = runs[(i + 2) + 1]
      <4>1. fewer[i] = cs[i + 2]
        BY <1>7, <3>1
      <4>2. ends[i] = off[i + 2]
        BY <1>8, <3>1
      <4>3. less[i] = joined /\ less[i + 1] = runs[(i + 1) + 2]
        BY <1>6, <2>3, <3>1
      <4> QED BY <3>1, <4>1, <4>2, <4>3
    <3>3. cs[i + 2] = path[off[i + 2] + 1] /\ Side(runs[(i + 2) + 1]) = 1 - Side(runs[i + 2])
      BY <1>1, <3>1
    <3>4. Side(runs[i + 2]) = Side(joined)
      BY <1>5, <3>1
    <3> QED BY <3>2, <3>3, <3>4
  <2>4. CASE i >= pos
    <3>1. /\ i \in pos - 1 .. n - 3 /\ i \in pos - 1 .. n - 2 /\ i + 2 \in 1 .. n - 1
          /\ i \in pos .. n - 2 /\ i + 1 \in pos .. n - 2 /\ (i + 1) + 2 = (i + 2) + 1
      BY <1>2, <2>4
    <3>2. /\ fewer[i] = cs[i + 2] /\ ends[i] = off[i + 2]
          /\ less[i] = runs[i + 2] /\ less[i + 1] = runs[(i + 2) + 1]
      <4>1. fewer[i] = cs[i + 2]
        BY <1>7, <3>1
      <4>2. ends[i] = off[i + 2]
        BY <1>8, <3>1
      <4>3. less[i] = runs[i + 2] /\ less[i + 1] = runs[(i + 1) + 2]
        BY <1>6, <3>1
      <4> QED BY <3>1, <4>1, <4>2, <4>3
    <3>3. cs[i + 2] = path[off[i + 2] + 1] /\ Side(runs[(i + 2) + 1]) = 1 - Side(runs[i + 2])
      BY <1>1, <3>1
    <3> QED BY <3>2, <3>3
  <2>5. i + 1 <= pos - 2 \/ i = pos - 2 \/ i = pos - 1 \/ i >= pos
    BY <1>2
  <2> QED BY <2>1, <2>2, <2>3, <2>4, <2>5
<1>11. Laid(less, fewer, path, side, ends)
  <2>1. (n - 2) - 1 = n - 3 /\ n - 2 # 0
    BY <1>2
  <2> QED BY <2>1, <1>1, <1>6, <1>7, <1>8, <1>9, <1>10 DEF Laid
<1> QED
  BY <1>6, <1>11 DEF n, less, fewer, joined

-----------------------------------------------------------------------------
(* Dropping all touches                                                    *)

\* A drop keeps the path, and leaves fewer runs as long as one is short.
LEMMA DropKeeps ==
    ASSUME NEW w, NEW path, NEW side, NEW off, Laid(w.runs, w.crossings, path, side, off)
    PROVE  /\ \E ends : Laid(DropTouch(w).runs, DropTouch(w).crossings, path, side, ends)
           /\ Short(w.runs) = {} => DropTouch(w) = w
           /\ Short(w.runs) # {} => Len(DropTouch(w).runs) < Len(w.runs)
<1> DEFINE runs == w.runs
           cs == w.crossings
           pos == Min(Short(runs))
           joined == [inside |-> runs[pos - 1].inside,
                      line |-> Joined(runs[pos - 1].line, runs[pos + 1].line)]
<1>1. runs \in Seq(Run) /\ Len(runs) \in Nat
  BY LaidIs
<1>2. CASE Short(runs) = {}
  <2>1. DropTouch(w) = w
    BY <1>2 DEF DropTouch
  <2> QED BY <1>2, <2>1
<1>3. CASE Short(runs) # {}
  <2>1. pos \in 1 .. Len(runs) /\ Len(runs[pos].line) < 2
    BY <1>1, <1>3, LeastShort
  <2>2. CASE pos = 1
    <3>1. DropTouch(w) = [runs |-> Tail(runs), crossings |-> IF cs = <<>> THEN <<>> ELSE Tail(cs)]
      BY <1>3, <2>2 DEF DropTouch
    <3>2. \E ends : Laid(Tail(runs), IF cs = <<>> THEN <<>> ELSE Tail(cs), path, side, ends)
      <4>1. Len(runs) >= 1 /\ Len(runs[1].line) < 2
        BY <1>1, <2>1, <2>2
      <4> QED BY <4>1, DropFirst
    <3>3. Len(Tail(runs)) < Len(runs)
      <4>1. runs # <<>>
        BY <1>1, <2>1
      <4>2. Len(Tail(runs)) = Len(runs) - 1
        BY <1>1, <4>1, HeadTailProperties
      <4> QED BY <1>1, <4>2
    <3>4. DropTouch(w).runs = Tail(runs)
          /\ DropTouch(w).crossings = IF cs = <<>> THEN <<>> ELSE Tail(cs)
      BY <3>1
    <3> QED BY <1>3, <3>2, <3>3, <3>4
  <2>3. CASE pos # 1 /\ pos = Len(runs)
    <3>1. DropTouch(w) = [runs |-> Front(runs), crossings |-> Front(cs)]
      BY <1>3, <2>3 DEF DropTouch
    <3>2. Len(runs) >= 2 /\ Len(runs[Len(runs)].line) < 2
      <4>1. pos \in 1 .. Len(runs) /\ pos # 1 /\ pos = Len(runs)
        BY <2>1, <2>3
      <4>2. Len(runs[pos].line) < 2
        BY <2>1
      <4>3. Len(runs) \in Nat
        BY <1>1
      <4> HIDE DEF pos, runs
      <4>4. Len(runs) >= 2
        BY <4>1, <4>3
      <4> QED BY <4>1, <4>2, <4>4
    <3>3. \E ends : Laid(Front(runs), Front(cs), path, side, ends)
      BY <3>2, DropLast
    <3>4. Len(Front(runs)) < Len(runs)
      <4> DEFINE k == Len(runs) - 1
      <4>1. k \in Nat /\ 1 \in Nat /\ 1 <= 1 /\ 1 <= k + 1 /\ k <= Len(runs)
        BY <1>1, <3>2
      <4>2. Front(runs) = SubSeq(runs, 1, k)
        BY DEF Front
      <4>3. k < Len(runs) /\ k - 1 + 1 = k
        BY <1>1
      <4> HIDE DEF k
      <4>4. Len(SubSeq(runs, 1, k)) = k - 1 + 1
        BY <1>1, <4>1, SubSeqIs
      <4> QED BY <4>2, <4>3, <4>4
    <3>5. DropTouch(w).runs = Front(runs) /\ DropTouch(w).crossings = Front(cs)
      BY <3>1
    <3> QED BY <1>3, <3>3, <3>4, <3>5
  <2>4. CASE pos # 1 /\ pos # Len(runs)
    <3> DEFINE less == Merge(runs, MergedRun(runs, pos), pos)
               fewer == Fewer(cs, pos)
    <3>1. DropTouch(w) = [runs |-> less, crossings |-> fewer]
      BY <1>3, <2>4 DEF DropTouch, Merge, MergedRun, Fewer
    <3>2. pos \in Nat /\ 1 < pos /\ pos < Len(runs)
      <4> HIDE DEF pos
      <4> QED BY <1>1, <2>1, <2>4
    <3>3. (\E ends : Laid(less, fewer, path, side, ends)) /\ Len(less) = Len(runs) - 2
      <4> HIDE DEF pos
      <4> QED BY <2>1, <3>2, DropMiddle
    <3> HIDE DEF less, fewer
    <3>4. DropTouch(w).runs = less /\ DropTouch(w).crossings = fewer
      BY <3>1
    <3>5. Len(less) < Len(runs)
      BY <1>1, <3>3
    <3> QED BY <1>3, <3>3, <3>4, <3>5
  <2> QED BY <2>2, <2>3, <2>4
<1> QED
  BY <1>2, <1>3

\* f has the walk after each of n drops.
Dropping(walk, n, f) ==
    f = [i \in 0 .. n |-> IF i = 0 THEN walk ELSE DropTouch(f[i - 1])]

\* The recursion of the drops has a solution.
LEMMA DropsExist ==
    ASSUME NEW walk, NEW n \in Nat
    PROVE  \E f : Dropping(walk, n, f)
<1> DEFINE T == {k \in Nat : ~ \E f : Dropping(walk, k, f)}
<1> SUFFICES ASSUME T # {} PROVE FALSE
  OBVIOUS
<1>1. PICK m \in T : \A k \in T : m <= k
  <2> HIDE DEF T
  <2>1. T \subseteq Nat
    BY DEF T
  <2> QED BY <2>1, Least
<1>2. CASE m = 0
  <2>1. Dropping(walk, 0, [i \in 0 .. 0 |-> walk])
    BY DEF Dropping
  <2> QED BY <1>2, <2>1
<1>3. CASE m > 0
  <2>1. m - 1 \in Nat /\ m - 1 \notin T
    BY <1>1, <1>3
  <2>2. PICK f : Dropping(walk, m - 1, f)
    BY <2>1
  <2> DEFINE g == [i \in 0 .. m |-> IF i = 0 THEN walk ELSE DropTouch(f[i - 1])]
  <2>3. \A i \in 0 .. m - 1 : g[i] = f[i]
    BY <2>1, <2>2 DEF Dropping
  <2>4. Dropping(walk, m, g)
    <3>1. \A i \in 0 .. m : i # 0 => i - 1 \in 0 .. m - 1
      BY <1>3
    <3> QED BY <2>3, <3>1 DEF Dropping
  <2> QED BY <2>1, <2>4
<1> QED
  BY <1>1, <1>2, <1>3

\* When all touches are dropped the runs still lie along the same path, each of
\* them with a segment of its own.
LEMMA WithoutTouchesIs ==
    ASSUME NEW walk, NEW path, NEW side, NEW off,
           Laid(walk.runs, walk.crossings, path, side, off),
           NEW v, v = WithoutTouches(walk)
    PROVE  /\ \E ends : Laid(v.runs, v.crossings, path, side, ends)
           /\ \A i \in 1 .. Len(v.runs) : Len(v.runs[i].line) >= 2
<1> DEFINE n == Len(walk.runs)
           f == CHOOSE f : Dropping(walk, n, f)
<1>1. n \in Nat
  BY LaidIs
<1>2. Dropping(walk, n, f)
  <2> HIDE DEF n
  <2>1. \E g : Dropping(walk, n, g)
    BY <1>1, DropsExist
  <2> QED BY <2>1
<1>3. v = f[n]
  BY DEF WithoutTouches, Dropping
<1> HIDE DEF f
<1>4. f[0] = walk /\ \A i \in 1 .. n : f[i] = DropTouch(f[i - 1])
  <2>1. f = [i \in 0 .. n |-> IF i = 0 THEN walk ELSE DropTouch(f[i - 1])]
    BY <1>2 DEF Dropping
  <2>2. 0 \in 0 .. n /\ \A i \in 1 .. n : i \in 0 .. n /\ i # 0
    BY <1>1
  <2> HIDE DEF n
  <2> QED BY <2>1, <2>2
<1> DEFINE Fine1(w, i) == /\ \E ends : Laid(w.runs, w.crossings, path, side, ends)
                          /\ Short(w.runs) = {} \/ Len(w.runs) <= n - i
           T == {i \in Nat : i <= n /\ ~ Fine1(f[i], i)}
<1>5. T = {}
  <2> SUFFICES ASSUME T # {} PROVE FALSE
    OBVIOUS
  <2>1. PICK i \in T : \A k \in T : i <= k
    <3> HIDE DEF T
    <3>1. T \subseteq Nat
      BY DEF T
    <3> QED BY <3>1, Least
  <2>2. CASE i = 0
    <3>1. Fine1(f[0], 0)
      BY <1>1, <1>4
    <3> QED BY <2>1, <2>2, <3>1
  <2>3. CASE i # 0
    <3> DEFINE j == i - 1
    <3>1. i \in Nat /\ i <= n /\ ~ Fine1(f[i], i)
      BY <2>1
    <3>2. j \in Nat /\ i = j + 1 /\ ~(i <= j) /\ j <= n /\ i \in 1 .. n
      BY <1>1, <2>3, <3>1
    <3>3. Fine1(f[j], j)
      <4>1. j \notin T
        <5> HIDE DEF T, j
        <5> QED BY <2>1, <3>2
      <4> HIDE DEF Fine1, j
      <4> QED BY <3>2, <4>1
    <3>4. f[i] = DropTouch(f[j])
      BY <1>4, <3>2
    <3> HIDE DEF j
    <3>5. PICK ends : Laid(f[j].runs, f[j].crossings, path, side, ends)
      BY <3>3
    <3>6. /\ \E e : Laid(f[i].runs, f[i].crossings, path, side, e)
          /\ Short(f[j].runs) = {} => f[i] = f[j]
          /\ Short(f[j].runs) # {} => Len(f[i].runs) < Len(f[j].runs)
      BY <3>4, <3>5, DropKeeps
    <3>7. Len(f[j].runs) \in Nat /\ Len(f[i].runs) \in Nat
      <4>1. PICK e : Laid(f[i].runs, f[i].crossings, path, side, e)
        BY <3>6
      <4> QED BY <3>5, <4>1, LaidIs
    <3>8. Short(f[i].runs) = {} \/ Len(f[i].runs) <= n - i
      <4>1. CASE Short(f[j].runs) = {}
        BY <3>6, <4>1
      <4>2. CASE Short(f[j].runs) # {}
        <5>1. Len(f[j].runs) <= n - j
          BY <3>3, <4>2
        <5> HIDE DEF n
        <5> QED BY <1>1, <3>2, <3>6, <3>7, <4>2, <5>1
      <4> QED BY <4>1, <4>2
    <3> QED BY <3>1, <3>6, <3>8
  <2> QED BY <2>2, <2>3
<1>6. Fine1(f[n], n)
  <2>1. n \in Nat /\ n <= n /\ n \notin T
    <3>1. n \in Nat /\ n <= n
      BY <1>1
    <3> HIDE DEF T, n
    <3> QED BY <1>5, <3>1
  <2> HIDE DEF n, Fine1
  <2> QED BY <2>1
<1>7. PICK ends : Laid(v.runs, v.crossings, path, side, ends)
  BY <1>3, <1>6
<1>8. Len(v.runs) \in Nat /\ v.runs \in Seq(Run) /\ DOMAIN v.runs = 1 .. Len(v.runs)
  BY <1>7, LaidIs, LenProperties
<1>9. Short(v.runs) = {}
  <2>1. CASE Short(v.runs) # {}
    <3>1. Len(v.runs) <= n - n
      BY <1>3, <1>6, <2>1
    <3>2. Len(v.runs) = 0
      BY <1>1, <1>8, <3>1
    <3> QED BY <1>8, <3>2 DEF Short
  <2> QED BY <2>1
<1>10. \A i \in 1 .. Len(v.runs) : Len(v.runs[i].line) >= 2
  <2> SUFFICES ASSUME NEW i \in 1 .. Len(v.runs) PROVE Len(v.runs[i].line) >= 2
    OBVIOUS
  <2>1. v.runs[i] \in Run
    BY <1>8, ElementOfSeq
  <2>2. v.runs[i].line \in Seq(Point)
    BY <2>1 DEF Run
  <2>3. Len(v.runs[i].line) \in Nat
    BY <2>2, LenProperties
  <2>4. ~(Len(v.runs[i].line) < 2)
    BY <1>8, <1>9 DEF Short
  <2> QED BY <2>3, <2>4
<1> QED
  BY <1>7, <1>10

-----------------------------------------------------------------------------
(* The path keeps to the line and to the sides of the tile                 *)

\* No more than a point of the segment is in the tile.
Grazes(tile, p, q) ==
    \A u, v \in Point :
        (/\ Between(u, p, q) /\ Inside(tile, u)
         /\ Between(v, p, q) /\ Inside(tile, v)) => u = v

\* The segment is on side s: in the tile, or with no more than a point in it.
Fits(tile, s, p, q) ==
    IF s = 1 THEN Inside(tile, p) /\ Inside(tile, q) ELSE Grazes(tile, p, q)

\* Every segment of the path is on its side.
Sorted(tile, path, side) ==
    \A j \in 1 .. Len(path) - 1 : Fits(tile, side[j], path[j], path[j + 1])

\* The path follows the line up to its vertex i, by the segments in `at`, and has
\* all vertices of the line that far.
Trail(line, path, at, i) ==
    /\ at \in [1 .. Len(path) -> 1 .. Len(line) - 1] /\ path[1] = line[1] /\ at[1] = 1
    /\ \A k \in 1 .. Len(path) - 1 : Leg(line, path[k], at[k], path[k + 1], at[k + 1])
    /\ Turn(line, LastOf(path), at[Len(path)], i)
    /\ \A j \in 1 .. i : \E k \in 1 .. Len(path) : path[k] = line[j]

\* A line that is more than a graze has a segment of the path in the tile.
Marks(solid, path, side) == solid = 1 => \E j \in 1 .. Len(path) - 1 : side[j] = 1

\* What holds of the walk at point p of segment i.
Underway(tile, line, i, w, p, solid) ==
    /\ w \in Walking
    /\ \E path, side, off, at :
          /\ Laid(Whole(w), w.crossings, path, side, off)
          /\ Sorted(tile, path, side) /\ Trail(line, path, at, i) /\ LastOf(path) = p
          /\ Marks(solid, path, side)

\* The sides and the trace of a path that grows by a segment.
SideOn(side, path, s) == [j \in 1 .. Len(path) |-> IF j = Len(path) THEN s ELSE side[j]]
StepOn(at, path, i) ==
    [k \in 1 .. Len(path) + 1 |-> IF k = Len(path) + 1 THEN i ELSE at[k]]

\* A path that has a segment in the tile keeps it as it grows.
LEMMA MarksGrow ==
    ASSUME NEW path, Plain(path), NEW side, NEW s, NEW q \in Point, NEW r, r = Append(path, q),
           NEW solid, NEW t, Marks(solid, path, side), t = 1 => solid = 1 \/ s = 1
    PROVE  Marks(t, r, SideOn(side, path, s))
<1>1. path \in Seq(Point) /\ Len(path) \in Nat /\ Len(path) >= 1
  BY PlainFacts
<1>2. Len(r) = Len(path) + 1
  BY <1>1, AppendProperties
<1> SUFFICES ASSUME t = 1
             PROVE  \E j \in 1 .. Len(path) : SideOn(side, path, s)[j] = 1
  <2>1. Len(r) - 1 = Len(path)
    BY <1>1, <1>2
  <2> QED BY <2>1 DEF Marks
<1>3. CASE s = 1
  <2>1. Len(path) \in 1 .. Len(path) /\ SideOn(side, path, s)[Len(path)] = s
    BY <1>1 DEF SideOn
  <2> QED BY <1>3, <2>1
<1>4. CASE s # 1
  <2>1. PICK j \in 1 .. Len(path) - 1 : side[j] = 1
    BY <1>4 DEF Marks
  <2>2. j \in 1 .. Len(path) /\ j # Len(path)
    BY <1>1, <2>1
  <2>3. SideOn(side, path, s)[j] = side[j]
    BY <2>2 DEF SideOn
  <2> QED BY <2>1, <2>2, <2>3
<1> QED
  BY <1>3, <1>4

\* A path that grows by a segment on its side, ahead on segment i, still keeps to
\* the sides and to the line.
LEMMA PathGrows ==
    ASSUME NEW tile, NEW line, NEW i \in 1 .. Len(line) - 1, Len(line) \in Nat,
           NEW path, NEW side, NEW at, Plain(path),
           Sorted(tile, path, side), Trail(line, path, at, i),
           NEW q \in Point, NEW s, Fits(tile, s, LastOf(path), q),
           Between(LastOf(path), line[i], line[i + 1]), Between(q, LastOf(path), line[i + 1]),
           NEW r, r = Append(path, q)
    PROVE  /\ Sorted(tile, r, SideOn(side, path, s))
           /\ Trail(line, r, StepOn(at, path, i), i)
           /\ LastOf(r) = q
<1> DEFINE n == Len(path)
           route == Append(path, q)
           sides == [j \in 1 .. n |-> IF j = n THEN s ELSE side[j]]
           by == [k \in 1 .. n + 1 |-> IF k = n + 1 THEN i ELSE at[k]]
<1>1. path \in Seq(Point) /\ n \in Nat /\ n >= 1
  BY PlainFacts
<1>2. /\ route \in Seq(Point) /\ Len(route) = n + 1
      /\ \A k \in 1 .. n : route[k] = path[k]
      /\ route[n + 1] = q
  BY <1>1, AppendProperties
<1>3. /\ \A j \in 1 .. n - 1 : sides[j] = side[j]
      /\ sides[n] = s
      /\ \A k \in 1 .. n : by[k] = at[k]
      /\ by[n + 1] = i
  <2>1. /\ \A j \in 1 .. n - 1 : j \in 1 .. n /\ j # n
        /\ n \in 1 .. n /\ n + 1 \in 1 .. n + 1
        /\ \A k \in 1 .. n : k \in 1 .. n + 1 /\ k # n + 1
    BY <1>1
  <2> QED BY <2>1
<1> HIDE DEF route, sides
<1>4. Sorted(tile, route, sides)
  <2> SUFFICES ASSUME NEW j \in 1 .. n PROVE Fits(tile, sides[j], route[j], route[j + 1])
    <3>1. Len(route) - 1 = n
      BY <1>1, <1>2
    <3> QED BY <3>1 DEF Sorted
  <2>1. CASE j = n
    <3>1. path[n] = LastOf(path)
      BY DEF LastOf
    <3> QED BY <1>1, <1>2, <1>3, <2>1, <3>1
  <2>2. CASE j # n
    <3>1. j \in 1 .. n - 1 /\ j \in 1 .. n /\ j + 1 \in 1 .. n
      BY <1>1, <2>2
    <3>2. Fits(tile, side[j], path[j], path[j + 1])
      BY <3>1 DEF Sorted
    <3> QED BY <1>2, <1>3, <3>1, <3>2
  <2> QED BY <2>1, <2>2
<1>5. /\ at \in [1 .. n -> 1 .. Len(line) - 1] /\ path[1] = line[1] /\ at[1] = 1
      /\ \A k \in 1 .. n - 1 : Leg(line, path[k], at[k], path[k + 1], at[k + 1])
      /\ Turn(line, path[n], at[n], i)
      /\ \A j \in 1 .. i : \E k \in 1 .. n : path[k] = line[j]
  BY DEF Trail, LastOf
<1>6. by \in [1 .. n + 1 -> 1 .. Len(line) - 1]
  <2>1. \A k \in 1 .. n + 1 : k # n + 1 => k \in 1 .. n
    BY <1>1
  <2> QED BY <1>5, <2>1
<1> HIDE DEF by
<1>7. \A k \in 1 .. n : Leg(line, route[k], by[k], route[k + 1], by[k + 1])
  <2> SUFFICES ASSUME NEW k \in 1 .. n PROVE Leg(line, route[k], by[k], route[k + 1], by[k + 1])
    OBVIOUS
  <2>1. CASE k = n
    <3>1. path[n] = LastOf(path) /\ route[n] = path[n] /\ n \in 1 .. n
      BY <1>1, <1>2 DEF LastOf
    <3>2. Leg(line, path[n], at[n], q, i)
      BY <1>5, <3>1 DEF Leg
    <3> QED BY <1>2, <1>3, <2>1, <3>1, <3>2
  <2>2. CASE k # n
    <3>1. k \in 1 .. n - 1 /\ k + 1 \in 1 .. n
      BY <1>1, <2>2
    <3>2. Leg(line, path[k], at[k], path[k + 1], at[k + 1])
      BY <1>5, <3>1
    <3> QED BY <1>2, <1>3, <3>1, <3>2
  <2> QED BY <2>1, <2>2
<1>8. LastOf(route) = q
  BY <1>2 DEF LastOf
<1>9. Turn(line, LastOf(route), by[Len(route)], i)
  BY <1>2, <1>3, <1>8 DEF Turn
<1>10. \A j \in 1 .. i : \E k \in 1 .. n + 1 : route[k] = line[j]
  <2> SUFFICES ASSUME NEW j \in 1 .. i PROVE \E k \in 1 .. n + 1 : route[k] = line[j]
    OBVIOUS
  <2>1. PICK k \in 1 .. n : path[k] = line[j]
    BY <1>5
  <2>2. k \in 1 .. n + 1 /\ route[k] = line[j]
    BY <1>1, <1>2, <2>1
  <2> QED BY <2>2
<1>11. Trail(line, route, by, i)
  <2>1. Len(route) = n + 1 /\ Len(route) - 1 = n /\ route[1] = line[1] /\ by[1] = 1
    <3>1. 1 \in 1 .. n
      BY <1>1
    <3> QED BY <1>1, <1>2, <1>3, <1>5, <3>1
  <2> QED BY <1>6, <1>7, <1>9, <1>10, <2>1 DEF Trail
<1> QED
  BY <1>4, <1>8, <1>11 DEF route, sides, by, SideOn, StepOn

\* One step of the walk along segment i, from p to q.
LEMMA StepExtend ==
    ASSUME NEW tile, NEW line, NEW i \in 1 .. Len(line) - 1, Len(line) \in Nat,
           NEW p, NEW w, NEW solid, Underway(tile, line, i, w, p, solid), NEW q \in Point,
           Between(p, line[i], line[i + 1]), Between(q, p, line[i + 1]),
           q = p \/ Fits(tile, Side(w), p, q),
           NEW t, t = 1 => solid = 1 \/ (q # p /\ Side(w) = 1)
    PROVE  /\ Underway(tile, line, i, Extend(w, q), q, t) /\ Side(Extend(w, q)) = Side(w)
<1>1. PICK path, side, off, at :
          /\ Laid(Whole(w), w.crossings, path, side, off)
          /\ Sorted(tile, path, side) /\ Trail(line, path, at, i) /\ LastOf(path) = p
          /\ Marks(solid, path, side)
  BY DEF Underway
<1>2. w \in Walking
  BY DEF Underway
<1>3. CASE q = p
  <2>1. Extend(w, q) = w
    BY <1>1, <1>2, <1>3, ExtendStays
  <2>2. Marks(t, path, side)
    BY <1>1, <1>3 DEF Marks
  <2>3. Underway(tile, line, i, w, q, t)
    BY <1>1, <1>2, <1>3, <2>2 DEF Underway
  <2> QED BY <2>1, <2>3
<1>4. CASE q # p
  <2> DEFINE v == Extend(w, q)
             n == Len(path)
             further == SideOn(side, path, Side(w))
             ends == [off EXCEPT ![Len(w.runs) + 1] = n]
             by == StepOn(at, path, i)
  <2>1. /\ v \in Walking /\ Side(v) = Side(w)
        /\ Laid(Whole(v), v.crossings, Append(path, q), further, ends)
    BY <1>1, <1>2, <1>4, ExtendIs DEF SideOn
  <2>2. /\ Sorted(tile, Append(path, q), further)
        /\ Trail(line, Append(path, q), by, i)
        /\ LastOf(Append(path, q)) = q
    <3>1. Plain(path)
      BY <1>1, LaidIs
    <3>2. Fits(tile, Side(w), LastOf(path), q)
      BY <1>1, <1>4
    <3>3. Between(LastOf(path), line[i], line[i + 1]) /\ Between(q, LastOf(path), line[i + 1])
      BY <1>1
    <3> DEFINE r == Append(path, q)
    <3>4. r = Append(path, q)
      OBVIOUS
    <3>5. Sorted(tile, path, side) /\ Trail(line, path, at, i)
      BY <1>1
    <3> HIDE DEF r
    <3>6. /\ Sorted(tile, r, further) /\ Trail(line, r, by, i) /\ LastOf(r) = q
      <4> SUFFICES /\ Sorted(tile, r, SideOn(side, path, Side(w)))
                   /\ Trail(line, r, StepOn(at, path, i), i) /\ LastOf(r) = q
        OBVIOUS
      <4>1. Sorted(tile, r, SideOn(side, path, Side(w)))
        BY <3>1, <3>2, <3>3, <3>4, <3>5, PathGrows
      <4>2. Trail(line, r, StepOn(at, path, i), i)
        BY <3>1, <3>2, <3>3, <3>4, <3>5, PathGrows
      <4>3. LastOf(r) = q
        <5>1. path \in Seq(Point)
          BY <3>1, PlainFacts
        <5> QED BY <3>4, <5>1, AppendProperties DEF LastOf
      <4> QED BY <4>1, <4>2, <4>3
    <3> QED BY <3>6 DEF r
  <2>4. Marks(t, Append(path, q), further)
    <3> DEFINE r == Append(path, q)
    <3>1. r = Append(path, q)
      OBVIOUS
    <3>2. Plain(path) /\ Marks(solid, path, side)
      BY <1>1, LaidIs
    <3>3. t = 1 => solid = 1 \/ Side(w) = 1
      OBVIOUS
    <3> HIDE DEF r
    <3>4. Marks(t, r, SideOn(side, path, Side(w)))
      BY <3>1, <3>2, <3>3, MarksGrow
    <3> QED BY <3>4 DEF r
  <2> HIDE DEF v, further, ends, by
  <2>3. Underway(tile, line, i, v, q, t)
    BY <2>1, <2>2, <2>4 DEF Underway
  <2> QED BY <2>1, <2>3 DEF v
<1> QED
  BY <1>3, <1>4

\* A cut is such a step too, and changes sides.
LEMMA StepCut ==
    ASSUME NEW tile, NEW line, NEW i \in 1 .. Len(line) - 1, Len(line) \in Nat,
           NEW p, NEW w, NEW solid, Underway(tile, line, i, w, p, solid), NEW q \in Point,
           Between(p, line[i], line[i + 1]), Between(q, p, line[i + 1]),
           q = p \/ Fits(tile, Side(w), p, q),
           NEW t, t = 1 => solid = 1 \/ (q # p /\ Side(w) = 1)
    PROVE  /\ Underway(tile, line, i, Cut(w, q), q, t) /\ Side(Cut(w, q)) = 1 - Side(w)
<1> DEFINE u == Extend(w, q)
           v == Cut(w, q)
<1>1. Underway(tile, line, i, u, q, t) /\ Side(u) = Side(w)
  BY StepExtend
<1>2. w \in Walking /\ u \in Walking
  BY <1>1 DEF Underway
<1> HIDE DEF u
<1>3. PICK path, side, off, at :
          /\ Laid(Whole(u), u.crossings, path, side, off)
          /\ Sorted(tile, path, side) /\ Trail(line, path, at, i) /\ LastOf(path) = q
          /\ Marks(t, path, side)
  BY <1>1 DEF Underway
<1> DEFINE ends == CutOff(v, path, off)
<1>4. /\ v \in Walking /\ Side(v) = 1 - Side(w)
      /\ Laid(Whole(v), v.crossings, path, side, ends)
  <2>1. u = Extend(w, q)
    BY DEF u
  <2>2. Laid(Whole(u), u.crossings, path, side, off) /\ LastOf(path) = q
    BY <1>3
  <2>3. Side(u) = Side(w)
    BY <1>1
  <2>7. v = Cut(w, q)
    OBVIOUS
  <2> HIDE DEF v
  <2>4. v \in Walking
    BY <1>2, <2>1, <2>2, <2>3, <2>7, CutIs
  <2>5. Side(v) = 1 - Side(w)
    BY <1>2, <2>1, <2>2, <2>3, <2>7, CutIs
  <2>6. Laid(Whole(v), v.crossings, path, side, ends)
    BY <1>2, <2>1, <2>2, <2>3, <2>7, CutIs
  <2> QED BY <2>4, <2>5, <2>6
<1> HIDE DEF v, ends
<1>5. Underway(tile, line, i, v, q, t)
  BY <1>3, <1>4 DEF Underway
<1> QED
  BY <1>4, <1>5 DEF v

\* At the end of segment i the walk is at the begin of the next one.
LEMMA Arrives ==
    ASSUME NEW tile, NEW line, NEW i \in 1 .. Len(line) - 1, Len(line) \in Nat,
           NEW w, NEW solid, Underway(tile, line, i, w, line[i + 1], solid)
    PROVE  Underway(tile, line, i + 1, w, line[i + 1], solid)
<1>1. w \in Walking
  BY DEF Underway
<1>2. PICK path, side, off, at :
          /\ Laid(Whole(w), w.crossings, path, side, off) /\ Sorted(tile, path, side)
          /\ Trail(line, path, at, i) /\ LastOf(path) = line[i + 1]
          /\ Marks(solid, path, side)
  BY DEF Underway
<1>3. Len(path) \in Nat /\ Len(path) >= 1
  BY <1>2, LaidIs
<1>4. Turn(line, LastOf(path), at[Len(path)], i + 1)
  <2>1. at[Len(path)] \in Int
    <3>1. at \in [1 .. Len(path) -> 1 .. Len(line) - 1] /\ Len(path) \in 1 .. Len(path)
      BY <1>2, <1>3 DEF Trail
    <3> QED BY <3>1
  <2>2. Turn(line, LastOf(path), at[Len(path)], i)
    BY <1>2 DEF Trail
  <2> DEFINE m == at[Len(path)]
  <2> HIDE DEF m
  <2>3. m \in Int /\ m <= i /\ \A j \in m + 1 .. i : line[j] = LastOf(path)
    BY <2>1, <2>2 DEF Turn, m
  <2>4. m <= i + 1 /\ \A j \in m + 1 .. i + 1 : j \in m + 1 .. i \/ j = i + 1
    BY <2>3
  <2>5. Turn(line, LastOf(path), m, i + 1)
    BY <1>2, <2>3, <2>4 DEF Turn
  <2> QED BY <2>5 DEF m
<1>5. \A j \in 1 .. i + 1 : \E k \in 1 .. Len(path) : path[k] = line[j]
  <2> SUFFICES ASSUME NEW j \in 1 .. i + 1 PROVE \E k \in 1 .. Len(path) : path[k] = line[j]
    OBVIOUS
  <2>1. CASE j \in 1 .. i
    BY <1>2, <2>1 DEF Trail
  <2>2. CASE j = i + 1
    <3>1. Len(path) \in 1 .. Len(path) /\ path[Len(path)] = line[j]
      BY <1>2, <1>3, <2>2 DEF LastOf
    <3> QED BY <3>1
  <2> QED BY <2>1, <2>2
<1>6. Trail(line, path, at, i + 1)
  BY <1>2, <1>4, <1>5 DEF Trail
<1> QED
  BY <1>1, <1>2, <1>6 DEF Underway

\* The walk begins at the first vertex, on its side.
LEMMA Starts ==
    ASSUME NEW tile, NEW line \in Seq(Point), Len(line) >= 2
    PROVE  /\ Underway(tile, line, 1, Start(line, tile), line[1], 0)
           /\ Side(Start(line, tile)) = IF Inside(tile, line[1]) THEN 1 ELSE 0
<1> DEFINE w == Start(line, tile)
           path == <<line[1]>>
           side == <<>>
           off == [i \in 0 .. 1 |-> 0]
           at == [k \in 1 .. 1 |-> 1]
<1>1. Len(line) \in Nat /\ line[1] \in Point
  <2>1. Len(line) \in Nat
    BY LenProperties
  <2>2. 1 \in 1 .. Len(line)
    BY <2>1
  <2> QED BY <2>1, <2>2, ElementOfSeq
<1>2. Plain(path) /\ Len(path) = 1 /\ path[1] = line[1] /\ LastOf(path) = line[1] /\ path \in Seq(Point)
  BY <1>1, OneVertex, PlainFacts
<1>3. /\ w.runs = <<>> /\ w.crossings = <<>> /\ w.line = path
      /\ w.inside = Inside(tile, line[1])
  BY DEF Start
<1>4. w \in Walking
  <2>1. w = [runs |-> <<>>, crossings |-> <<>>, line |-> path, inside |-> Inside(tile, line[1])]
    BY DEF Start
  <2>2. Inside(tile, line[1]) \in BOOLEAN
    BY DEF Inside
  <2>3. <<>> \in Seq(Run) /\ <<>> \in Seq(Point)
    OBVIOUS
  <2> HIDE DEF path
  <2> QED BY <1>2, <2>1, <2>2, <2>3 DEF Walking
<1>5. Side(w) = IF Inside(tile, line[1]) THEN 1 ELSE 0
  BY <1>3 DEF Side
<1> HIDE DEF w, path
<1>6. /\ Whole(w) \in Seq(Run) /\ Len(Whole(w)) = 1 /\ Whole(w)[1] = Current(w)
      /\ Current(w).line = path
  <2>1. Len(w.runs) = 0
    BY <1>3, EmptySeq
  <2>2. Whole(w) \in Seq(Run) /\ Len(Whole(w)) = Len(w.runs) + 1
        /\ Whole(w)[Len(w.runs) + 1] = Current(w) /\ Current(w).line = w.line
    BY <1>4, WholeIs
  <2> QED BY <1>3, <2>1, <2>2
<1>7. off \in [0 .. 1 -> 0 .. 0] /\ off[0] = 0 /\ off[1] = 0
  OBVIOUS
<1> HIDE DEF off
<1>8. Block(Current(w), path, side, 0, 0)
  <2> HIDE DEF side
  <2>1. \A k \in 1 .. 0 - 0 + 1 : path[k] = path[0 + k]
    OBVIOUS
  <2>2. \A j \in 0 + 1 .. 0 : FALSE
    OBVIOUS
  <2> QED BY <1>2, <1>6, <2>1, <2>2 DEF Block
<1>9. Laid(Whole(w), w.crossings, path, side, off)
  <2>1. side \in [1 .. Len(path) - 1 -> {0, 1}]
    BY <1>2
  <2> HIDE DEF side
  <2>2. off \in [0 .. Len(Whole(w)) -> 0 .. Len(path) - 1] /\ off[Len(Whole(w))] = Len(path) - 1
    BY <1>2, <1>6, <1>7
  <2>3. \A i \in 1 .. Len(Whole(w)) : Block(Whole(w)[i], path, side, off[i - 1], off[i])
    BY <1>6, <1>7, <1>8
  <2>4. w.crossings \in Seq(Point) /\ Len(w.crossings) = 0
    BY <1>3, EmptySeq
  <2>5. Len(w.crossings) = IF Len(Whole(w)) = 0 THEN 0 ELSE Len(Whole(w)) - 1
    BY <1>6, <2>4
  <2>6. \A i \in 1 .. Len(Whole(w)) - 1 : FALSE
    BY <1>6
  <2> QED BY <1>2, <1>6, <1>7, <2>1, <2>2, <2>3, <2>4, <2>5, <2>6 DEF Laid
<1>10. Sorted(tile, path, side)
  <2>1. \A j \in 1 .. Len(path) - 1 : FALSE
    BY <1>2
  <2> QED BY <2>1 DEF Sorted
<1>11. Trail(line, path, at, 1)
  <2>1. at \in [1 .. Len(path) -> 1 .. Len(line) - 1] /\ at[1] = 1
    BY <1>1, <1>2
  <2> HIDE DEF at
  <2>2. Turn(line, LastOf(path), at[Len(path)], 1)
    <3>1. \A j \in 1 + 1 .. 1 : FALSE
      OBVIOUS
    <3> QED BY <1>2, <2>1, <3>1 DEF Turn
  <2>3. \A j \in 1 .. 1 : \E k \in 1 .. Len(path) : path[k] = line[j]
    BY <1>2
  <2>4. \A k \in 1 .. Len(path) - 1 : FALSE
    BY <1>2
  <2> QED BY <1>2, <2>1, <2>2, <2>3, <2>4 DEF Trail
<1>12. Underway(tile, line, 1, w, line[1], 0)
  <2>1. Marks(0, path, side)
    BY DEF Marks
  <2> QED BY <1>2, <1>4, <1>9, <1>10, <1>11, <2>1 DEF Underway
<1> QED
  BY <1>5, <1>12 DEF w

-----------------------------------------------------------------------------
(* The order of the points of a segment                                    *)

\* The extents of tiles.
Extent == [west : Int, east : Int, south : Int, north : Int]

\* What slab_interval makes of the sides across one axis: how far ahead of a
\* they are, in units of the parameter.
Met(s, d, n) == Magnitude(s) * n * (IF s * d < 0 THEN -1 ELSE 1)

\* The parameter of a side is its distance ahead of a.
LEMMA MeetIs ==
    ASSUME NEW d \in Int, NEW s \in Int, NEW n \in Int
    PROVE  /\ d > 0 => Met(s, d, n) = s * n
           /\ d < 0 => Met(s, d, n) = (0 - s) * n
<1>1. CASE d > 0 /\ s >= 0
  <2>1. s * d >= 0
    BY <1>1
  <2> QED BY <1>1, <2>1 DEF Met, Magnitude
<1>2. CASE d > 0 /\ s < 0
  <2>1. s * d < 0
    BY <1>2
  <2> QED BY <1>2, <2>1 DEF Met, Magnitude
<1>3. CASE d < 0 /\ s > 0
  <2>1. s * d < 0
    BY <1>3
  <2> QED BY <1>3, <2>1 DEF Met, Magnitude
<1>4. CASE d < 0 /\ s <= 0
  <2>1. s * d >= 0
    BY <1>4
  <2> QED BY <1>4, <2>1 DEF Met, Magnitude
<1> QED
  BY <1>1, <1>2, <1>3, <1>4

\* The near and the far side across the x axis, for either direction.
LEMMA SidesXIs ==
    ASSUME NEW tile \in Extent, NEW a \in Point, NEW b \in Point,
           NEW n, n = Span(b.y - a.y)
    PROVE  /\ b.x > a.x =>
                SidesX(tile, a, b) =
                  [near |-> [t |-> (tile.west - a.x) * n, axis |-> "x", pin |-> tile.west],
                   far |-> [t |-> (tile.east - a.x) * n, axis |-> "x", pin |-> tile.east]]
           /\ b.x < a.x =>
                SidesX(tile, a, b) =
                  [near |-> [t |-> (a.x - tile.east) * n, axis |-> "x", pin |-> tile.east],
                   far |-> [t |-> (a.x - tile.west) * n, axis |-> "x", pin |-> tile.west]]
<1> DEFINE d == b.x - a.x
           T(side) == Magnitude(side - a.x) * n * (IF (side - a.x) * d < 0 THEN -1 ELSE 1)
<1>1. d \in Int /\ n \in Int /\ a.x \in Int /\ b.x \in Int
      /\ tile.west \in Int /\ tile.east \in Int
  BY DEF Span, Magnitude, Point, Extent
<1>2. SidesX(tile, a, b) =
        IF d > 0
        THEN [near |-> [t |-> T(tile.west), axis |-> "x", pin |-> tile.west],
              far |-> [t |-> T(tile.east), axis |-> "x", pin |-> tile.east]]
        ELSE [near |-> [t |-> T(tile.east), axis |-> "x", pin |-> tile.east],
              far |-> [t |-> T(tile.west), axis |-> "x", pin |-> tile.west]]
  BY DEF SidesX
<1>3. ASSUME NEW side \in Int
      PROVE  /\ d > 0 => T(side) = (side - a.x) * n
             /\ d < 0 => T(side) = (a.x - side) * n
  <2>1. side - a.x \in Int /\ 0 - (side - a.x) = a.x - side
    BY <1>1
  <2>2. T(side) = Met(side - a.x, d, n)
    BY DEF Met
  <2>3. /\ d > 0 => Met(side - a.x, d, n) = (side - a.x) * n
        /\ d < 0 => Met(side - a.x, d, n) = (0 - (side - a.x)) * n
    <3> DEFINE offset == side - a.x
    <3>1. offset \in Int /\ d \in Int /\ n \in Int
      BY <1>1, <2>1
    <3>2. /\ d > 0 => Met(offset, d, n) = offset * n
          /\ d < 0 => Met(offset, d, n) = (0 - offset) * n
      <4> HIDE DEF offset, d
      <4> QED BY <3>1, MeetIs
    <3> QED BY <3>2
  <2> QED BY <2>1, <2>2, <2>3
<1> HIDE DEF T
<1>4. ASSUME b.x > a.x
      PROVE  /\ d > 0 /\ T(tile.west) = (tile.west - a.x) * n
             /\ T(tile.east) = (tile.east - a.x) * n
  BY <1>1, <1>3, <1>4
<1>5. ASSUME b.x < a.x
      PROVE  /\ ~(d > 0) /\ T(tile.west) = (a.x - tile.west) * n
             /\ T(tile.east) = (a.x - tile.east) * n
  BY <1>1, <1>3, <1>5
<1> HIDE DEF d
<1> QED
  BY <1>2, <1>4, <1>5

\* The same across the y axis.
LEMMA SidesYIs ==
    ASSUME NEW tile \in Extent, NEW a \in Point, NEW b \in Point,
           NEW n, n = Span(b.x - a.x)
    PROVE  /\ b.y > a.y =>
                SidesY(tile, a, b) =
                  [near |-> [t |-> (tile.south - a.y) * n, axis |-> "y", pin |-> tile.south],
                   far |-> [t |-> (tile.north - a.y) * n, axis |-> "y", pin |-> tile.north]]
           /\ b.y < a.y =>
                SidesY(tile, a, b) =
                  [near |-> [t |-> (a.y - tile.north) * n, axis |-> "y", pin |-> tile.north],
                   far |-> [t |-> (a.y - tile.south) * n, axis |-> "y", pin |-> tile.south]]
<1> DEFINE d == b.y - a.y
           T(side) == Magnitude(side - a.y) * n * (IF (side - a.y) * d < 0 THEN -1 ELSE 1)
<1>1. d \in Int /\ n \in Int /\ a.y \in Int /\ b.y \in Int
      /\ tile.south \in Int /\ tile.north \in Int
  BY DEF Span, Magnitude, Point, Extent
<1>2. SidesY(tile, a, b) =
        IF d > 0
        THEN [near |-> [t |-> T(tile.south), axis |-> "y", pin |-> tile.south],
              far |-> [t |-> T(tile.north), axis |-> "y", pin |-> tile.north]]
        ELSE [near |-> [t |-> T(tile.north), axis |-> "y", pin |-> tile.north],
              far |-> [t |-> T(tile.south), axis |-> "y", pin |-> tile.south]]
  BY DEF SidesY
<1>3. ASSUME NEW side \in Int
      PROVE  /\ d > 0 => T(side) = (side - a.y) * n
             /\ d < 0 => T(side) = (a.y - side) * n
  <2>1. side - a.y \in Int /\ 0 - (side - a.y) = a.y - side
    BY <1>1
  <2>2. T(side) = Met(side - a.y, d, n)
    BY DEF Met
  <2>3. /\ d > 0 => Met(side - a.y, d, n) = (side - a.y) * n
        /\ d < 0 => Met(side - a.y, d, n) = (0 - (side - a.y)) * n
    <3> DEFINE offset == side - a.y
    <3>1. offset \in Int /\ d \in Int /\ n \in Int
      BY <1>1, <2>1
    <3>2. /\ d > 0 => Met(offset, d, n) = offset * n
          /\ d < 0 => Met(offset, d, n) = (0 - offset) * n
      <4> HIDE DEF offset, d
      <4> QED BY <3>1, MeetIs
    <3> QED BY <3>2
  <2> QED BY <2>1, <2>2, <2>3
<1> HIDE DEF T
<1>4. ASSUME b.y > a.y
      PROVE  /\ d > 0 /\ T(tile.south) = (tile.south - a.y) * n
             /\ T(tile.north) = (tile.north - a.y) * n
  BY <1>1, <1>3, <1>4
<1>5. ASSUME b.y < a.y
      PROVE  /\ ~(d > 0) /\ T(tile.south) = (a.y - tile.south) * n
             /\ T(tile.north) = (a.y - tile.north) * n
  BY <1>1, <1>3, <1>5
<1> HIDE DEF d
<1> QED
  BY <1>2, <1>4, <1>5

\* A positive factor keeps order.
LEMMA Cancel ==
    ASSUME NEW x \in Int, NEW y \in Int, NEW n \in Int, n > 0
    PROVE  /\ x * n \in Int /\ y * n \in Int
           /\ x <= y <=> x * n <= y * n
           /\ x = y <=> x * n = y * n
<1>1. CASE x = y
  BY <1>1
<1>2. CASE x < y
  <2>1. (y - x) * n > 0
    BY <1>2
  <2>2. (y - x) * n = y * n - x * n
    OBVIOUS
  <2>3. x * n < y * n
    BY <2>1, <2>2
  <2> QED BY <1>2, <2>3
<1>3. CASE y < x
  <2>1. (x - y) * n > 0
    BY <1>3
  <2>2. (x - y) * n = x * n - y * n
    OBVIOUS
  <2>3. y * n < x * n
    BY <2>1, <2>2
  <2> QED BY <1>3, <2>3
<1> QED
  BY <1>1, <1>2, <1>3

\* Two directions that are parallel to a third are parallel.
Same(x1, y1, x2, y2) == x1 * y2 = y1 * x2

\* A vector that is not zero passes parallelism on.
LEMMA ParallelIs ==
    ASSUME NEW x1 \in Int, NEW y1 \in Int, NEW x2 \in Int, NEW y2 \in Int,
           NEW c \in Int, NEW d \in Int, c # 0 \/ d # 0,
           Same(x1, y1, c, d), Same(x2, y2, c, d)
    PROVE  Same(x1, y1, x2, y2)
<1>4. x1 * d = y1 * c /\ x2 * d = y2 * c
  BY DEF Same
<1>0. ASSUME NEW k \in Int, NEW m \in Int, NEW n \in Int, n # 0, k * n = m * n
      PROVE  k = m
  <2>1. CASE n > 0
    BY <1>0, <2>1, Cancel
  <2>2. CASE n < 0
    <3> DEFINE o == 0 - n
    <3>1. o \in Int /\ o > 0 /\ k * o = 0 - k * n /\ m * o = 0 - m * n
      BY <2>2
    <3> HIDE DEF o
    <3>2. k * o = m * o
      BY <1>0, <3>1
    <3> QED BY <3>1, <3>2, Cancel
  <2> QED BY <1>0, <2>1, <2>2
<1>1. CASE c # 0
  <2>1. (x1 * y2) * c = x1 * (y2 * c) /\ (y1 * x2) * c = (y1 * c) * x2
    OBVIOUS
  <2>2. x1 * (y2 * c) = x1 * (x2 * d) /\ (y1 * c) * x2 = (x1 * d) * x2
    BY <1>4
  <2>3. x1 * (x2 * d) = (x1 * d) * x2
    OBVIOUS
  <2>4. (x1 * y2) * c = (y1 * x2) * c
    BY <2>1, <2>2, <2>3
  <2>5. x1 * y2 \in Int /\ y1 * x2 \in Int
    OBVIOUS
  <2> QED BY <1>0, <1>1, <2>4, <2>5 DEF Same
<1>2. CASE d # 0
  <2>1. (x1 * y2) * d = (x1 * d) * y2 /\ (y1 * x2) * d = y1 * (x2 * d)
    OBVIOUS
  <2>2. (x1 * d) * y2 = (y1 * c) * y2 /\ y1 * (x2 * d) = y1 * (y2 * c)
    BY <1>4
  <2>3. (y1 * c) * y2 = y1 * (y2 * c)
    OBVIOUS
  <2>4. (x1 * y2) * d = (y1 * x2) * d
    BY <2>1, <2>2, <2>3
  <2>5. x1 * y2 \in Int /\ y1 * x2 \in Int
    OBVIOUS
  <2> QED BY <1>0, <1>2, <2>4, <2>5 DEF Same
<1> QED
  BY <1>1, <1>2 DEF Same

\* How far c is on the way from c0 to c1.
Off(c, c0, c1) == IF c1 > c0 THEN c - c0 ELSE c0 - c

\* Off keeps the order of coordinates, whatever the direction.
LEMMA OffIs ==
    ASSUME NEW c0 \in Int, NEW c1 \in Int, NEW c \in Int, NEW d \in Int, NEW e \in Int
    PROVE  /\ Off(c, c0, c1) \in Int /\ Off(c0, c0, c1) = 0
           /\ Off(c1, c0, c1) = Magnitude(c1 - c0) /\ Off(c1, c0, c1) >= 0
           /\ Off(c1, c0, c1) = 0 <=> c0 = c1
           /\ Within(c, c0, c1) <=> 0 <= Off(c, c0, c1) /\ Off(c, c0, c1) <= Off(c1, c0, c1)
           /\ Within(c, d, e) <=> Within(Off(c, c0, c1), Off(d, c0, c1), Off(e, c0, c1))
           /\ Off(c, c0, c1) = Off(d, c0, c1) <=> c = d
BY DEF Off, Within, Magnitude

\* The lattice points of a segment, and where each of them is on it, in units of
\* the parameter.
On(p, a, b) == p \in Point /\ Between(p, a, b)
Place(p, a, b) ==
    IF a.x # b.x THEN Off(p.x, a.x, b.x) * Span(b.y - a.y)
    ELSE Off(p.y, a.y, b.y) * Span(b.x - a.x)

\* A place is a parameter of the segment, whichever axis it is measured on.
LEMMA PlaceIs ==
    ASSUME NEW a \in Point, NEW b \in Point, NEW p, On(p, a, b)
    PROVE  /\ Place(p, a, b) \in Int /\ Scale(a, b) \in Int
           /\ 0 <= Place(p, a, b) /\ Place(p, a, b) <= Scale(a, b)
           /\ a.x # b.x => Place(p, a, b) = Off(p.x, a.x, b.x) * Span(b.y - a.y)
           /\ a.y # b.y => Place(p, a, b) = Off(p.y, a.y, b.y) * Span(b.x - a.x)
           /\ a.x = b.x => p.x = a.x
           /\ a.y = b.y => p.y = a.y
<1> DEFINE u == Off(p.x, a.x, b.x)
           w == Off(p.y, a.y, b.y)
           k == Off(b.x, a.x, b.x)
           l == Off(b.y, a.y, b.y)
           m == Span(b.x - a.x)
           n == Span(b.y - a.y)
<1>1. /\ a.x \in Int /\ a.y \in Int /\ b.x \in Int /\ b.y \in Int
      /\ p.x \in Int /\ p.y \in Int
      /\ Within(p.x, a.x, b.x) /\ Within(p.y, a.y, b.y)
      /\ (p.x - a.x) * (b.y - a.y) = (p.y - a.y) * (b.x - a.x)
  BY DEF On, Point, Between
<1>0. a.x \in Int /\ a.y \in Int /\ b.x \in Int /\ b.y \in Int /\ p.x \in Int /\ p.y \in Int
  BY <1>1
<1>2. /\ u \in Int /\ k \in Int /\ 0 <= u /\ u <= k
      /\ (k = 0) <=> (a.x = b.x)
      /\ k = Magnitude(b.x - a.x)
  <2> DEFINE x == p.x
             x0 == a.x
             x1 == b.x
  <2>1. x \in Int /\ x0 \in Int /\ x1 \in Int /\ Within(x, x0, x1)
    BY <1>1
  <2> HIDE DEF x, x0, x1
  <2>2. /\ Off(x, x0, x1) \in Int /\ Off(x1, x0, x1) \in Int
        /\ 0 <= Off(x, x0, x1) /\ Off(x, x0, x1) <= Off(x1, x0, x1)
        /\ (Off(x1, x0, x1) = 0) <=> (x0 = x1)
        /\ Off(x1, x0, x1) = Magnitude(x1 - x0)
    BY <2>1 DEF Off, Within, Magnitude
  <2> QED BY <2>2 DEF x, x0, x1
<1>3. /\ w \in Int /\ l \in Int /\ 0 <= w /\ w <= l
      /\ (l = 0) <=> (a.y = b.y)
      /\ l = Magnitude(b.y - a.y)
  <2> DEFINE y == p.y
             y0 == a.y
             y1 == b.y
  <2>1. y \in Int /\ y0 \in Int /\ y1 \in Int /\ Within(y, y0, y1)
    BY <1>1
  <2> HIDE DEF y, y0, y1
  <2>2. /\ Off(y, y0, y1) \in Int /\ Off(y1, y0, y1) \in Int
        /\ 0 <= Off(y, y0, y1) /\ Off(y, y0, y1) <= Off(y1, y0, y1)
        /\ (Off(y1, y0, y1) = 0) <=> (y0 = y1)
        /\ Off(y1, y0, y1) = Magnitude(y1 - y0)
    BY <2>1 DEF Off, Within, Magnitude
  <2> QED BY <2>2 DEF y, y0, y1
<1>4. m = (IF k = 0 THEN 1 ELSE k) /\ n = (IF l = 0 THEN 1 ELSE l)
  <2>1. (b.x - a.x = 0) <=> (a.x = b.x)
    BY <1>0
  <2>2. (b.y - a.y = 0) <=> (a.y = b.y)
    BY <1>0
  <2> HIDE DEF u, w, k, l
  <2> QED BY <1>2, <1>3, <2>1, <2>2 DEF Span
<1>5. u * l = w * k
  <2>1. (p.x - a.x) * (b.y - a.y) = (p.y - a.y) * (b.x - a.x)
    BY <1>1
  <2> DEFINE c == p.x - a.x
             d == p.y - a.y
             e == b.x - a.x
             f == b.y - a.y
  <2>2. c \in Int /\ d \in Int /\ e \in Int /\ f \in Int /\ c * f = d * e
    BY <1>1, <2>1
  <2>3. (u = c /\ k = e) \/ (u = 0 - c /\ k = 0 - e)
    <3>1. 0 - (p.x - a.x) = a.x - p.x /\ 0 - (b.x - a.x) = a.x - b.x
      BY <1>0
    <3> QED BY <3>1 DEF Off
  <2>5. (w = d /\ l = f) \/ (w = 0 - d /\ l = 0 - f)
    <3>1. 0 - (p.y - a.y) = a.y - p.y /\ 0 - (b.y - a.y) = a.y - b.y
      BY <1>0
    <3> QED BY <3>1 DEF Off
  <2> HIDE DEF c, d, e, f, u, w, k, l
  <2>4. /\ (0 - c) * f = 0 - c * f /\ c * (0 - f) = 0 - c * f /\ (0 - c) * (0 - f) = c * f
        /\ (0 - d) * e = 0 - d * e /\ d * (0 - e) = 0 - d * e /\ (0 - d) * (0 - e) = d * e
    BY <2>2
  <2> QED BY <2>2, <2>3, <2>4, <2>5
<1>6. Scale(a, b) = m * n
  BY DEF Scale
<1>7. Place(p, a, b) = IF a.x # b.x THEN u * n ELSE w * m
  BY DEF Place
<1>8. (a.x = b.x => p.x = a.x) /\ (a.y = b.y => p.y = a.y)
  BY <1>1 DEF Within
<1> HIDE DEF u, w, k, l, m, n
<1>9. CASE k # 0 /\ l # 0
  <2>1. m = k /\ n = l /\ k > 0 /\ l > 0
    BY <1>2, <1>3, <1>4, <1>9
  <2>2. u * n \in Int /\ m * n \in Int /\ 0 <= u * n /\ u * n <= k * n
    <3>1. 0 * n <= u * n /\ u * n <= k * n /\ u * n \in Int /\ k * n \in Int
      BY <1>2, <1>3, <2>1, Cancel
    <3> QED BY <1>3, <2>1, <3>1
  <2>3. Place(p, a, b) = u * n /\ u * n = w * m
    BY <1>2, <1>5, <1>7, <1>9, <2>1
  <2> QED BY <1>6, <1>8, <2>1, <2>2, <2>3 DEF u, w, m, n
<1>10. CASE k # 0 /\ l = 0
  <2>1. m = k /\ n = 1 /\ Place(p, a, b) = u /\ Scale(a, b) = k /\ u * n = u
    BY <1>2, <1>4, <1>6, <1>7, <1>10
  <2> QED BY <1>2, <1>3, <1>8, <1>10, <2>1 DEF u, n
<1>11. CASE k = 0
  <2>1. m = 1 /\ w * m = w /\ m * n = n /\ n \in Int /\ w <= n
    BY <1>3, <1>4, <1>11
  <2>2. Place(p, a, b) = w /\ Scale(a, b) = n
    BY <1>2, <1>6, <1>7, <1>11, <2>1
  <2> QED BY <1>2, <1>3, <1>8, <1>11, <2>1, <2>2 DEF w, m
<1> QED
  BY <1>9, <1>10, <1>11

\* Places order the points of a segment by both coordinates, and tell them apart.
LEMMA PlaceOrder ==
    ASSUME NEW a \in Point, NEW b \in Point, NEW p, On(p, a, b), NEW q, On(q, a, b)
    PROVE  /\ Place(p, a, b) <= Place(q, a, b) <=>
                 /\ Off(p.x, a.x, b.x) <= Off(q.x, a.x, b.x)
                 /\ Off(p.y, a.y, b.y) <= Off(q.y, a.y, b.y)
           /\ Place(p, a, b) = Place(q, a, b) <=> p = q
<1> DEFINE u == Off(p.x, a.x, b.x)
           w == Off(p.y, a.y, b.y)
           k == Off(q.x, a.x, b.x)
           l == Off(q.y, a.y, b.y)
           m == Span(b.x - a.x)
           n == Span(b.y - a.y)
           s == Place(p, a, b)
           t == Place(q, a, b)
<1>1. /\ a.x \in Int /\ a.y \in Int /\ b.x \in Int /\ b.y \in Int
      /\ p.x \in Int /\ p.y \in Int /\ q.x \in Int /\ q.y \in Int
  BY DEF On, Point
<1>2. /\ u \in Int /\ k \in Int /\ w \in Int /\ l \in Int
      /\ u = k <=> p.x = q.x
      /\ w = l <=> p.y = q.y
  BY <1>1 DEF Off
<1>3. m \in Int /\ n \in Int /\ m > 0 /\ n > 0
  <2>1. m \in Int /\ m > 0
    BY <1>1 DEF Span, Magnitude
  <2>2. n \in Int /\ n > 0
    BY <1>1 DEF Span, Magnitude
  <2> QED BY <2>1, <2>2
<1>4. p = q <=> p.x = q.x /\ p.y = q.y
  BY DEF On, Point
<1>5. /\ a.x # b.x => s = u * n /\ t = k * n
      /\ a.y # b.y => s = w * m /\ t = l * m
      /\ a.x = b.x => p.x = a.x /\ q.x = a.x
      /\ a.y = b.y => p.y = a.y /\ q.y = a.y
  BY PlaceIs
<1>6. a.x = b.x => s = w * m /\ t = l * m
  BY DEF Place
<1> HIDE DEF u, w, k, l, m, n, s, t
<1>7. a.x # b.x => /\ s <= t <=> u <= k
                   /\ s = t <=> u = k
  BY <1>2, <1>3, <1>5, Cancel
<1>8. a.y # b.y \/ a.x = b.x => /\ s <= t <=> w <= l
                                /\ s = t <=> w = l
  BY <1>2, <1>3, <1>5, <1>6, Cancel
<1>9. a.x = b.x => u = k
  BY <1>2, <1>5
<1>10. a.y = b.y => w = l
  BY <1>2, <1>5
<1>11. /\ s <= t <=> u <= k /\ w <= l
       /\ s = t <=> u = k /\ w = l
  BY <1>2, <1>7, <1>8, <1>9, <1>10
<1> QED
  BY <1>2, <1>4, <1>11 DEF u, w, k, l, s, t

\* Two points of a segment are aligned with it.
LEMMA Aligned ==
    ASSUME NEW a \in Point, NEW b \in Point, NEW p, On(p, a, b), NEW q, On(q, a, b)
    PROVE  (q.x - p.x) * (b.y - a.y) = (q.y - p.y) * (b.x - a.x)
<1> DEFINE e == b.x - a.x
           f == b.y - a.y
<1>1. /\ a.x \in Int /\ a.y \in Int /\ e \in Int /\ f \in Int
      /\ p.x \in Int /\ p.y \in Int /\ q.x \in Int /\ q.y \in Int
  BY DEF On, Point
<1>2. (p.x - a.x) * f = (p.y - a.y) * e /\ (q.x - a.x) * f = (q.y - a.y) * e
  BY DEF On, Between
<1> HIDE DEF e, f
<1>3. /\ (q.x - p.x) * f = (q.x - a.x) * f - (p.x - a.x) * f
      /\ (q.y - p.y) * e = (q.y - a.y) * e - (p.y - a.y) * e
  BY <1>1
<1>4. (q.x - p.x) * f = (q.y - p.y) * e
  BY <1>2, <1>3
<1> QED
  BY <1>4 DEF e, f

\* What lies between two points of a segment is what has a place between theirs.
LEMMA PlaceBetween ==
    ASSUME NEW a \in Point, NEW b \in Point, NEW p, On(p, a, b), NEW q, On(q, a, b),
           Place(p, a, b) <= Place(q, a, b), NEW v \in Point
    PROVE  Between(v, p, q) <=> /\ On(v, a, b)
                                /\ Place(p, a, b) <= Place(v, a, b)
                                /\ Place(v, a, b) <= Place(q, a, b)
<1>1. /\ a.x \in Int /\ a.y \in Int /\ b.x \in Int /\ b.y \in Int
      /\ p.x \in Int /\ p.y \in Int /\ q.x \in Int /\ q.y \in Int
      /\ v.x \in Int /\ v.y \in Int
  BY DEF On, Point
<1>2. /\ Within(p.x, a.x, b.x) /\ Within(p.y, a.y, b.y)
      /\ Within(q.x, a.x, b.x) /\ Within(q.y, a.y, b.y)
  BY DEF On, Between
<1>3. (q.x - p.x) * (b.y - a.y) = (q.y - p.y) * (b.x - a.x)
  BY Aligned
<1>4. /\ Off(p.x, a.x, b.x) <= Off(q.x, a.x, b.x)
      /\ Off(p.y, a.y, b.y) <= Off(q.y, a.y, b.y)
  BY PlaceOrder
<1>5. p = q <=> p.x = q.x /\ p.y = q.y
  BY DEF On, Point
<1>6. v = p <=> v.x = p.x /\ v.y = p.y
  BY DEF On, Point
<1>7. a = b <=> a.x = b.x /\ a.y = b.y
  BY DEF Point
<1>8. ASSUME NEW c0 \in Int, NEW c1 \in Int, NEW c \in Int, NEW d \in Int, NEW e \in Int,
             Off(d, c0, c1) <= Off(e, c0, c1)
      PROVE  Within(c, d, e) <=> /\ Off(d, c0, c1) <= Off(c, c0, c1)
                                 /\ Off(c, c0, c1) <= Off(e, c0, c1)
  BY <1>8 DEF Off, Within
<1>9. /\ Within(v.x, p.x, q.x) <=> /\ Off(p.x, a.x, b.x) <= Off(v.x, a.x, b.x)
                                   /\ Off(v.x, a.x, b.x) <= Off(q.x, a.x, b.x)
      /\ Within(v.y, p.y, q.y) <=> /\ Off(p.y, a.y, b.y) <= Off(v.y, a.y, b.y)
                                   /\ Off(v.y, a.y, b.y) <= Off(q.y, a.y, b.y)
  <2>1. Within(v.x, p.x, q.x) <=> /\ Off(p.x, a.x, b.x) <= Off(v.x, a.x, b.x)
                                   /\ Off(v.x, a.x, b.x) <= Off(q.x, a.x, b.x)
    BY <1>1, <1>4, <1>8
  <2>2. Within(v.y, p.y, q.y) <=> /\ Off(p.y, a.y, b.y) <= Off(v.y, a.y, b.y)
                                   /\ Off(v.y, a.y, b.y) <= Off(q.y, a.y, b.y)
    BY <1>1, <1>4, <1>8
  <2> QED BY <2>1, <2>2
<1>10. ASSUME On(v, a, b)
       PROVE  /\ Place(p, a, b) <= Place(v, a, b) <=> /\ Off(p.x, a.x, b.x) <= Off(v.x, a.x, b.x)
                                                      /\ Off(p.y, a.y, b.y) <= Off(v.y, a.y, b.y)
              /\ Place(v, a, b) <= Place(q, a, b) <=> /\ Off(v.x, a.x, b.x) <= Off(q.x, a.x, b.x)
                                                      /\ Off(v.y, a.y, b.y) <= Off(q.y, a.y, b.y)
  BY <1>10, PlaceOrder
<1>11. ASSUME Between(v, p, q) PROVE On(v, a, b)
  <2>1. CASE p = q
    <3>1. v = p
      BY <1>1, <1>5, <1>6, <1>11, <2>1 DEF Between, Within
    <3> QED BY <3>1
  <2>2. CASE p # q
    <3> DEFINE c == q.x - p.x
               d == q.y - p.y
               x1 == v.x - p.x
               y1 == v.y - p.y
               x2 == b.x - a.x
               y2 == b.y - a.y
    <3>1. /\ c \in Int /\ d \in Int /\ x1 \in Int /\ y1 \in Int /\ x2 \in Int /\ y2 \in Int
          /\ c # 0 \/ d # 0
      <4>1. p.x # q.x \/ p.y # q.y
        BY <1>5, <2>2
      <4>2. /\ p.x \in Int /\ p.y \in Int /\ q.x \in Int /\ q.y \in Int
            /\ v.x \in Int /\ v.y \in Int
            /\ a.x \in Int /\ a.y \in Int /\ b.x \in Int /\ b.y \in Int
        BY <1>1
      <4> QED BY <4>1, <4>2
    <3>2. x1 * d = y1 * c
      BY <1>11 DEF Between
    <3>3. c * y2 = d * x2
      BY <1>3
    <3> HIDE DEF c, d, x1, y1, x2, y2
    <3>4. x2 * d = y2 * c
      BY <3>1, <3>3
    <3>5. x1 * y2 = y1 * x2
      <4>1. Same(x1, y1, c, d) /\ Same(x2, y2, c, d)
        BY <3>2, <3>4 DEF Same
      <4>2. Same(x1, y1, x2, y2)
        BY <3>1, <4>1, ParallelIs
      <4> QED BY <4>2 DEF Same
    <3>6. (p.x - a.x) * y2 = (p.y - a.y) * x2
      BY DEF On, Between, x2, y2
    <3>7. (v.x - a.x) * y2 = (v.y - a.y) * x2
      <4>1. v.x - a.x = x1 + (p.x - a.x) /\ v.y - a.y = y1 + (p.y - a.y)
        BY <1>1 DEF x1, y1
      <4> DEFINE g == p.x - a.x
                 h == p.y - a.y
      <4>2. g \in Int /\ h \in Int
        BY <1>1
      <4> HIDE DEF g, h
      <4>3. (x1 + g) * y2 = x1 * y2 + g * y2 /\ (y1 + h) * x2 = y1 * x2 + h * x2
        BY <3>1, <4>2
      <4> USE DEF g, h
      <4> QED BY <3>5, <3>6, <4>1, <4>3
    <3>8. Within(v.x, a.x, b.x) /\ Within(v.y, a.y, b.y)
      <4>1. Within(v.x, p.x, q.x) /\ Within(v.y, p.y, q.y)
        BY <1>11 DEF Between
      <4>2. /\ a.x \in Int /\ b.x \in Int /\ p.x \in Int /\ q.x \in Int /\ v.x \in Int
            /\ a.y \in Int /\ b.y \in Int /\ p.y \in Int /\ q.y \in Int /\ v.y \in Int
        BY <1>1
      <4>3. Within(v.x, a.x, b.x)
        BY <1>2, <4>1, <4>2 DEF Within
      <4>4. Within(v.y, a.y, b.y)
        BY <1>2, <4>1, <4>2 DEF Within
      <4> QED BY <4>3, <4>4
    <3> QED BY <3>7, <3>8 DEF On, Between, x2, y2
  <2> QED BY <2>1, <2>2
<1>12. ASSUME On(v, a, b), Within(v.x, p.x, q.x), Within(v.y, p.y, q.y)
       PROVE  Between(v, p, q)
  <2>1. (v.x - p.x) * (q.y - p.y) = (v.y - p.y) * (q.x - p.x)
    <3>1. CASE a = b
      <4>1. p = a /\ q = a /\ v = a
        <5>1. ASSUME NEW r, On(r, a, b) PROVE r = a
          <6>1. r.x = a.x /\ r.y = a.y
            BY <3>1, <5>1, PlaceIs
          <6> QED BY <5>1, <6>1 DEF On, Point
        <5> QED BY <1>12, <5>1
      <4>2. v.x - p.x = 0 /\ v.y - p.y = 0 /\ q.x - p.x = 0 /\ q.y - p.y = 0
        BY <1>1, <4>1
      <4> QED BY <4>2
    <3>2. CASE a # b
      <4> DEFINE c == b.x - a.x
                 d == b.y - a.y
                 x1 == v.x - p.x
                 y1 == v.y - p.y
                 x2 == q.x - p.x
                 y2 == q.y - p.y
      <4>1. /\ c \in Int /\ d \in Int /\ x1 \in Int /\ y1 \in Int /\ x2 \in Int /\ y2 \in Int
            /\ c # 0 \/ d # 0
        <5>1. a.x # b.x \/ a.y # b.y
          BY <1>7, <3>2
        <5>2. /\ p.x \in Int /\ p.y \in Int /\ q.x \in Int /\ q.y \in Int
              /\ v.x \in Int /\ v.y \in Int
              /\ a.x \in Int /\ a.y \in Int /\ b.x \in Int /\ b.y \in Int
          BY <1>1
        <5>3. c \in Int /\ d \in Int
          BY <5>2
        <5>4. x1 \in Int /\ y1 \in Int
          BY <5>2
        <5>5. x2 \in Int /\ y2 \in Int
          BY <5>2
        <5>6. c # 0 \/ d # 0
          BY <5>1, <5>2
        <5> QED BY <5>3, <5>4, <5>5, <5>6
      <4>2. x1 * d = y1 * c /\ x2 * d = y2 * c
        BY <1>12, <1>3, Aligned
      <4> HIDE DEF c, d, x1, y1, x2, y2
      <4>3. x1 * y2 = y1 * x2
        <5>1. Same(x1, y1, c, d) /\ Same(x2, y2, c, d)
          BY <4>2 DEF Same
        <5>2. Same(x1, y1, x2, y2)
          BY <4>1, <5>1, ParallelIs
        <5> QED BY <5>2 DEF Same
      <4> QED BY <4>3 DEF x1, y1, x2, y2
    <3> QED BY <3>1, <3>2
  <2> QED BY <1>12, <2>1 DEF Between
<1>13. Between(v, p, q) => Within(v.x, p.x, q.x) /\ Within(v.y, p.y, q.y)
  BY DEF Between
<1> QED
  BY <1>9, <1>10, <1>11, <1>12, <1>13

-----------------------------------------------------------------------------
(* The slab interval                                                       *)

\* Max and Min of a set of up to three numbers.
LEMMA Extremes ==
    ASSUME NEW u \in Int, NEW v \in Int, NEW w \in Int, NEW T, T \subseteq {u, v, w}, T # {}
    PROVE  /\ Max(T) \in T /\ \A k \in T : k <= Max(T)
           /\ Min(T) \in T /\ \A k \in T : Min(T) <= k
<1>0. (\A k \in T : k = u \/ k = v \/ k = w) /\ (u \in T \/ v \in T \/ w \in T)
  OBVIOUS
<1>1. \E m \in T : \A k \in T : m >= k
  <2>1. \/ u \in T /\ \A k \in T : u >= k
        \/ v \in T /\ \A k \in T : v >= k
        \/ w \in T /\ \A k \in T : w >= k
    BY <1>0
  <2> QED BY <2>1
<1>2. \E m \in T : \A k \in T : m =< k
  <2>1. \/ u \in T /\ \A k \in T : u =< k
        \/ v \in T /\ \A k \in T : v =< k
        \/ w \in T /\ \A k \in T : w =< k
    BY <1>0
  <2> QED BY <2>1
<1>3. Max(T) \in T /\ \A k \in T : Max(T) >= k
  BY <1>1 DEF Max
<1>4. Min(T) \in T /\ \A k \in T : Min(T) =< k
  BY <1>2 DEF Min
<1>5. T \subseteq Int
  OBVIOUS
<1> QED
  BY <1>3, <1>4, <1>5

\* OnSegment has the lattice points of a segment, all of them.
LEMMA OnSegmentIs ==
    ASSUME NEW a \in Point, NEW b \in Point, NEW p
    PROVE  p \in OnSegment(a, b) <=> On(p, a, b)
<1>1. a.x \in Int /\ a.y \in Int /\ b.x \in Int /\ b.y \in Int
  BY DEF Point
<1>2. ASSUME NEW c \in Int, NEW d \in Int
      PROVE  /\ Min({c, d}) .. Max({c, d}) \subseteq Int
             /\ \A e \in Int : Within(e, c, d) => e \in Min({c, d}) .. Max({c, d})
  <2>1. /\ Max({c, d}) \in {c, d} /\ \A k \in {c, d} : k <= Max({c, d})
        /\ Min({c, d}) \in {c, d} /\ \A k \in {c, d} : Min({c, d}) <= k
    <3> DEFINE T == {c, d}
    <3>1. T \subseteq {c, d, d} /\ T # {}
      OBVIOUS
    <3> HIDE DEF T
    <3>2. /\ Max(T) \in T /\ \A k \in T : k <= Max(T)
          /\ Min(T) \in T /\ \A k \in T : Min(T) <= k
      BY <3>1, Extremes
    <3> QED BY <3>2 DEF T
  <2> DEFINE m == Min({c, d})
             n == Max({c, d})
  <2>2. m \in Int /\ n \in Int /\ m <= c /\ m <= d /\ c <= n /\ d <= n
    BY <2>1
  <2> HIDE DEF m, n
  <2>3. m .. n \subseteq Int /\ \A e \in Int : Within(e, c, d) => e \in m .. n
    BY <2>2 DEF Within
  <2> QED BY <2>3 DEF m, n
<1>3. OnSegment(a, b) = {q \in Box(a, b) : Between(q, a, b)}
  BY DEF OnSegment
<1> DEFINE X == Min({a.x, b.x}) .. Max({a.x, b.x})
           Y == Min({a.y, b.y}) .. Max({a.y, b.y})
<1>4. /\ X \subseteq Int /\ \A e \in Int : Within(e, a.x, b.x) => e \in X
      /\ Y \subseteq Int /\ \A e \in Int : Within(e, a.y, b.y) => e \in Y
  BY <1>1, <1>2
<1>5. Box(a, b) = [x : X, y : Y]
  BY DEF Box
<1> HIDE DEF X, Y
<1>6. p \in Box(a, b) => p \in Point
  <2>1. [x : X, y : Y] \subseteq [x : Int, y : Int]
    BY <1>4
  <2> QED BY <1>5, <2>1 DEF Point
<1>7. p \in Point /\ Between(p, a, b) => p \in Box(a, b)
  BY <1>4, <1>5 DEF Point, Between
<1> QED
  BY <1>3, <1>6, <1>7 DEF On

\* The tile spans x where the offset is between those of the near and the far side.
LEMMA SideXIs ==
    ASSUME NEW tile \in Extent, NEW a \in Point, NEW b \in Point, a.x # b.x,
           NEW s, s = SidesX(tile, a, b)
    PROVE  /\ s.near.axis = "x" /\ s.far.axis = "x"
           /\ s.near.pin \in {tile.west, tile.east} /\ s.far.pin \in {tile.west, tile.east}
           /\ s.near.t = Off(s.near.pin, a.x, b.x) * Span(b.y - a.y)
           /\ s.far.t = Off(s.far.pin, a.x, b.x) * Span(b.y - a.y)
           /\ \A c \in Int : tile.west <= c /\ c <= tile.east <=>
                  /\ Off(s.near.pin, a.x, b.x) <= Off(c, a.x, b.x)
                  /\ Off(c, a.x, b.x) <= Off(s.far.pin, a.x, b.x)
<1> DEFINE n == Span(b.y - a.y)
<1>1. a.x \in Int /\ b.x \in Int /\ tile.west \in Int /\ tile.east \in Int
  BY DEF Point, Extent
<1>2. CASE b.x > a.x
  <2>1. s = [near |-> [t |-> (tile.west - a.x) * n, axis |-> "x", pin |-> tile.west],
             far |-> [t |-> (tile.east - a.x) * n, axis |-> "x", pin |-> tile.east]]
    BY <1>2, SidesXIs
  <2> HIDE DEF n
  <2>2. \A c : Off(c, a.x, b.x) = c - a.x
    BY <1>2 DEF Off
  <2>3. \A c \in Int : tile.west <= c /\ c <= tile.east <=>
              tile.west - a.x <= c - a.x /\ c - a.x <= tile.east - a.x
    BY <1>1
  <2> QED BY <2>1, <2>2, <2>3 DEF n
<1>3. CASE b.x < a.x
  <2>1. s = [near |-> [t |-> (a.x - tile.east) * n, axis |-> "x", pin |-> tile.east],
             far |-> [t |-> (a.x - tile.west) * n, axis |-> "x", pin |-> tile.west]]
    BY <1>3, SidesXIs
  <2> HIDE DEF n
  <2>2. \A c : Off(c, a.x, b.x) = a.x - c
    BY <1>1, <1>3 DEF Off
  <2>3. \A c \in Int : tile.west <= c /\ c <= tile.east <=>
              a.x - tile.east <= a.x - c /\ a.x - c <= a.x - tile.west
    BY <1>1
  <2> QED BY <2>1, <2>2, <2>3 DEF n
<1> QED
  BY <1>1, <1>2, <1>3

\* The same for y.
LEMMA SideYIs ==
    ASSUME NEW tile \in Extent, NEW a \in Point, NEW b \in Point, a.y # b.y,
           NEW s, s = SidesY(tile, a, b)
    PROVE  /\ s.near.axis = "y" /\ s.far.axis = "y"
           /\ s.near.pin \in {tile.south, tile.north} /\ s.far.pin \in {tile.south, tile.north}
           /\ s.near.t = Off(s.near.pin, a.y, b.y) * Span(b.x - a.x)
           /\ s.far.t = Off(s.far.pin, a.y, b.y) * Span(b.x - a.x)
           /\ \A c \in Int : tile.south <= c /\ c <= tile.north <=>
                  /\ Off(s.near.pin, a.y, b.y) <= Off(c, a.y, b.y)
                  /\ Off(c, a.y, b.y) <= Off(s.far.pin, a.y, b.y)
<1> DEFINE n == Span(b.x - a.x)
<1>1. a.y \in Int /\ b.y \in Int /\ tile.south \in Int /\ tile.north \in Int
  BY DEF Point, Extent
<1>2. CASE b.y > a.y
  <2>1. s = [near |-> [t |-> (tile.south - a.y) * n, axis |-> "y", pin |-> tile.south],
             far |-> [t |-> (tile.north - a.y) * n, axis |-> "y", pin |-> tile.north]]
    BY <1>2, SidesYIs
  <2> HIDE DEF n
  <2>2. \A c : Off(c, a.y, b.y) = c - a.y
    BY <1>2 DEF Off
  <2>3. \A c \in Int : tile.south <= c /\ c <= tile.north <=>
              tile.south - a.y <= c - a.y /\ c - a.y <= tile.north - a.y
    BY <1>1
  <2> QED BY <2>1, <2>2, <2>3 DEF n
<1>3. CASE b.y < a.y
  <2>1. s = [near |-> [t |-> (a.y - tile.north) * n, axis |-> "y", pin |-> tile.north],
             far |-> [t |-> (a.y - tile.south) * n, axis |-> "y", pin |-> tile.south]]
    BY <1>3, SidesYIs
  <2> HIDE DEF n
  <2>2. \A c : Off(c, a.y, b.y) = a.y - c
    BY <1>1, <1>3 DEF Off
  <2>3. \A c \in Int : tile.south <= c /\ c <= tile.north <=>
              a.y - tile.north <= a.y - c /\ a.y - c <= a.y - tile.south
    BY <1>1
  <2> QED BY <2>1, <2>2, <2>3 DEF n
<1> QED
  BY <1>1, <1>2, <1>3

\* Where two lines of the sides are met bound the slab interval.
LEMMA SlabIs ==
    ASSUME NEW tile \in Extent, NEW a \in Point, NEW b \in Point,
           NEW E, E = Enter(tile, a, b), NEW X, X = Exit(tile, a, b),
           NEW sx, sx = SidesX(tile, a, b), NEW sy, sy = SidesY(tile, a, b)
    PROVE  /\ E \in Int /\ X \in Int /\ 0 <= E /\ X <= Scale(a, b)
           /\ a.x # b.x => sx.near.t <= E /\ X <= sx.far.t
           /\ a.y # b.y => sy.near.t <= E /\ X <= sy.far.t
           /\ \/ E = 0
              \/ a.x # b.x /\ E = sx.near.t
              \/ a.y # b.y /\ E = sy.near.t
           /\ \/ X = Scale(a, b)
              \/ a.x # b.x /\ X = sx.far.t
              \/ a.y # b.y /\ X = sy.far.t
           /\ a.x # b.x => sx.near.t \in Int /\ sx.far.t \in Int
           /\ a.y # b.y => sy.near.t \in Int /\ sy.far.t \in Int
<1> DEFINE S == Sides(tile, a, b)
           c == Scale(a, b)
<1>0. S = (IF a.x = b.x THEN {} ELSE {sx}) \cup (IF a.y = b.y THEN {} ELSE {sy})
  BY DEF Sides
<1>1. c \in Int
  BY PlaceIs DEF Scale, Span, Magnitude, Point
<1>2. /\ a.x # b.x => sx.near.t \in Int /\ sx.far.t \in Int
      /\ a.y # b.y => sy.near.t \in Int /\ sy.far.t \in Int
  <2>1. ASSUME a.x # b.x PROVE sx.near.t \in Int /\ sx.far.t \in Int
    <3>1. Span(b.y - a.y) \in Int /\ a.x \in Int /\ b.x \in Int /\ tile.west \in Int /\ tile.east \in Int
      BY DEF Span, Magnitude, Point, Extent
    <3>2. Off(sx.near.pin, a.x, b.x) \in Int /\ Off(sx.far.pin, a.x, b.x) \in Int
      BY <2>1, <3>1, SideXIs DEF Off
    <3>3. \A k \in Int, n \in Int : k * n \in Int
      OBVIOUS
    <3> QED BY <2>1, <3>1, <3>2, <3>3, SideXIs
  <2>2. ASSUME a.y # b.y PROVE sy.near.t \in Int /\ sy.far.t \in Int
    <3>1. Span(b.x - a.x) \in Int /\ a.y \in Int /\ b.y \in Int /\ tile.south \in Int /\ tile.north \in Int
      BY DEF Span, Magnitude, Point, Extent
    <3>2. Off(sy.near.pin, a.y, b.y) \in Int /\ Off(sy.far.pin, a.y, b.y) \in Int
      BY <2>2, <3>1, SideYIs DEF Off
    <3>3. \A k \in Int, n \in Int : k * n \in Int
      OBVIOUS
    <3> QED BY <2>2, <3>1, <3>2, <3>3, SideYIs
  <2> QED BY <2>1, <2>2
<1> DEFINE N == {0} \cup {s.near.t : s \in S}
           F == {c} \cup {s.far.t : s \in S}
<1>3. E = Max(N) /\ X = Min(F)
  BY DEF Enter, Exit
<1> DEFINE u == IF a.x = b.x THEN 0 ELSE sx.near.t
           v == IF a.y = b.y THEN 0 ELSE sy.near.t
           k == IF a.x = b.x THEN c ELSE sx.far.t
           l == IF a.y = b.y THEN c ELSE sy.far.t
<1>4. /\ N = {0} \cup (IF a.x = b.x THEN {} ELSE {sx.near.t})
                  \cup (IF a.y = b.y THEN {} ELSE {sy.near.t})
      /\ F = {c} \cup (IF a.x = b.x THEN {} ELSE {sx.far.t})
                  \cup (IF a.y = b.y THEN {} ELSE {sy.far.t})
  <2> HIDE DEF S, c
  <2>1. N = {0} \cup (IF a.x = b.x THEN {} ELSE {sx.near.t})
                  \cup (IF a.y = b.y THEN {} ELSE {sy.near.t})
    BY <1>0
  <2>2. F = {c} \cup (IF a.x = b.x THEN {} ELSE {sx.far.t})
                  \cup (IF a.y = b.y THEN {} ELSE {sy.far.t})
    BY <1>0
  <2> QED BY <2>1, <2>2
<1>5. u \in Int /\ v \in Int /\ k \in Int /\ l \in Int
  BY <1>1, <1>2
<1>6. N = {0, u, v} /\ F = {c, k, l}
  <2> HIDE DEF S, c, N, F
  <2> QED BY <1>4
<1> HIDE DEF S, c, N, F, u, v, k, l
<1>7. /\ E \in {0, u, v} /\ 0 <= E /\ u <= E /\ v <= E
  <2> DEFINE z == 0
  <2>1. z \in Int /\ N = {z, u, v}
    BY <1>6
  <2> HIDE DEF z
  <2>2. Max(N) \in N /\ \A i \in N : i <= Max(N)
    <3>1. N \subseteq {z, u, v} /\ N # {}
      BY <2>1
    <3> QED BY <1>5, <2>1, <3>1, Extremes
  <2>3. E \in {z, u, v} /\ z <= E /\ u <= E /\ v <= E
    BY <1>3, <2>1, <2>2
  <2> QED BY <2>3 DEF z
<1>8. /\ X \in {c, k, l} /\ X <= c /\ X <= k /\ X <= l
  <2>2. Min(F) \in F /\ \A i \in F : Min(F) <= i
    <3>1. F \subseteq {c, k, l} /\ F # {}
      BY <1>6
    <3> QED BY <1>1, <1>5, <3>1, Extremes
  <2> QED BY <1>3, <1>6, <2>2
<1> QED
  BY <1>1, <1>2, <1>5, <1>7, <1>8 DEF u, v, k, l, c

-----------------------------------------------------------------------------
(* The points of a segment in the tile                                     *)

\* The points of a segment that are in the tile are those of the slab interval.
LEMMA InsideIs ==
    ASSUME NEW tile \in Extent, NEW a \in Point, NEW b \in Point, NEW p, On(p, a, b)
    PROVE  Inside(tile, p) <=> /\ ~Beside(tile, a, b)
                               /\ Enter(tile, a, b) <= Place(p, a, b)
                               /\ Place(p, a, b) <= Exit(tile, a, b)
<1> DEFINE t == Place(p, a, b)
           E == Enter(tile, a, b)
           X == Exit(tile, a, b)
           sx == SidesX(tile, a, b)
           sy == SidesY(tile, a, b)
           inx == tile.west <= p.x /\ p.x <= tile.east
           iny == tile.south <= p.y /\ p.y <= tile.north
<1>1. /\ p.x \in Int /\ p.y \in Int /\ a.x \in Int /\ a.y \in Int /\ b.x \in Int /\ b.y \in Int
      /\ tile.west \in Int /\ tile.east \in Int /\ tile.south \in Int /\ tile.north \in Int
  BY DEF On, Point, Extent
<1>2. /\ t \in Int /\ 0 <= t /\ t <= Scale(a, b)
      /\ a.x # b.x => t = Off(p.x, a.x, b.x) * Span(b.y - a.y)
      /\ a.y # b.y => t = Off(p.y, a.y, b.y) * Span(b.x - a.x)
      /\ a.x = b.x => p.x = a.x
      /\ a.y = b.y => p.y = a.y
  BY PlaceIs
<1>3. a.x # b.x => (inx <=> sx.near.t <= t /\ t <= sx.far.t)
  <2> SUFFICES ASSUME a.x # b.x PROVE inx <=> sx.near.t <= t /\ t <= sx.far.t
    OBVIOUS
  <2> DEFINE n == Span(b.y - a.y)
             near == Off(sx.near.pin, a.x, b.x)
             far == Off(sx.far.pin, a.x, b.x)
             u == Off(p.x, a.x, b.x)
  <2>1. n \in Int /\ n > 0
    BY <1>1 DEF Span, Magnitude
  <2>2. /\ sx.near.pin \in {tile.west, tile.east} /\ sx.far.pin \in {tile.west, tile.east}
        /\ sx.near.t = near * n /\ sx.far.t = far * n
        /\ inx <=> near <= u /\ u <= far
    BY <1>1, SideXIs
  <2>3. near \in Int /\ far \in Int /\ u \in Int
    BY <1>1, <2>2 DEF Off
  <2> HIDE DEF sx, near, far, n, u, inx, t
  <2>4. /\ near <= u <=> near * n <= u * n
        /\ u <= far <=> u * n <= far * n
    BY <2>1, <2>3, Cancel
  <2>5. t = u * n
    BY <1>2 DEF t, u, n
  <2> QED BY <2>2, <2>4, <2>5
<1>4. a.y # b.y => (iny <=> sy.near.t <= t /\ t <= sy.far.t)
  <2> SUFFICES ASSUME a.y # b.y PROVE iny <=> sy.near.t <= t /\ t <= sy.far.t
    OBVIOUS
  <2> DEFINE n == Span(b.x - a.x)
             near == Off(sy.near.pin, a.y, b.y)
             far == Off(sy.far.pin, a.y, b.y)
             u == Off(p.y, a.y, b.y)
  <2>1. n \in Int /\ n > 0
    BY <1>1 DEF Span, Magnitude
  <2>2. /\ sy.near.pin \in {tile.south, tile.north} /\ sy.far.pin \in {tile.south, tile.north}
        /\ sy.near.t = near * n /\ sy.far.t = far * n
        /\ iny <=> near <= u /\ u <= far
    BY <1>1, SideYIs
  <2>3. near \in Int /\ far \in Int /\ u \in Int
    BY <1>1, <2>2 DEF Off
  <2> HIDE DEF sy, near, far, n, u, iny, t
  <2>4. /\ near <= u <=> near * n <= u * n
        /\ u <= far <=> u * n <= far * n
    BY <2>1, <2>3, Cancel
  <2>5. t = u * n
    BY <1>2 DEF t, u, n
  <2> QED BY <2>2, <2>4, <2>5
<1>5. Beside(tile, a, b) <=> (a.x = b.x /\ ~inx) \/ (a.y = b.y /\ ~iny)
  BY <1>2 DEF Beside
<1>6. Inside(tile, p) <=> inx /\ iny
  BY DEF Inside
<1>7. /\ a.x # b.x => sx.near.t \in Int /\ sx.far.t \in Int
      /\ a.y # b.y => sy.near.t \in Int /\ sy.far.t \in Int
  BY SlabIs
<1>8. /\ E \in Int /\ X \in Int /\ 0 <= E /\ X <= Scale(a, b)
      /\ a.x # b.x => sx.near.t <= E /\ X <= sx.far.t
      /\ a.y # b.y => sy.near.t <= E /\ X <= sy.far.t
      /\ \/ E = 0
         \/ a.x # b.x /\ E = sx.near.t
         \/ a.y # b.y /\ E = sy.near.t
      /\ \/ X = Scale(a, b)
         \/ a.x # b.x /\ X = sx.far.t
         \/ a.y # b.y /\ X = sy.far.t
  BY SlabIs
<1>9. Scale(a, b) \in Int
  BY PlaceIs
<1> HIDE DEF t, E, X, sx, sy, inx, iny
<1>10. E <= t <=> /\ a.x # b.x => sx.near.t <= t
                  /\ a.y # b.y => sy.near.t <= t
  BY <1>2, <1>7, <1>8
<1>11. t <= X <=> /\ a.x # b.x => t <= sx.far.t
                  /\ a.y # b.y => t <= sy.far.t
  BY <1>2, <1>7, <1>8, <1>9
<1>12. (inx /\ iny) <=> ~Beside(tile, a, b) /\ E <= t /\ t <= X
  BY <1>3, <1>4, <1>5, <1>10, <1>11
<1> QED
  BY <1>6, <1>12 DEF t, E, X

\* A multiple is divided without a remainder.
LEMMA DivExact ==
    ASSUME NEW c \in Int, NEW s \in Int, s > 0
    PROVE  (c * s) \div s = c
<1> DEFINE n == c * s
<1>1. n \in Int
  OBVIOUS
<1>2. n \div s \in Int /\ s * (n \div s) <= n /\ n < s * (n \div s) + s
  <2> HIDE DEF n
  <2> QED BY <1>1
<1> DEFINE d == n \div s
<1> HIDE DEF d
<1>3. d \in Int /\ s * d <= c * s /\ c * s < s * d + s
  BY <1>2 DEF d
<1>4. d * s = s * d /\ (d + 1) * s = s * d + s
  BY <1>3
<1>5. d <= c
  BY <1>3, <1>4, Cancel
<1>6. ~(d + 1 <= c)
  <2> DEFINE e == d + 1
  <2>1. e \in Int /\ ~(e * s <= c * s)
    BY <1>3, <1>4
  <2> HIDE DEF e
  <2>2. ~(e <= c)
    BY <2>1, Cancel
  <2> QED BY <2>2 DEF e
<1>7. d = c
  BY <1>3, <1>5, <1>6
<1> QED
  BY <1>7 DEF d

\* point_at gives the lattice point at a place: where sides are pinned their
\* coordinate is its own, and elsewhere the division is exact.
LEMMA PointAtIs ==
    ASSUME NEW a \in Point, NEW b \in Point, NEW p, On(p, a, b),
           NEW pins, \A m \in pins : (m.axis = "x" /\ m.pin = p.x) \/ (m.axis = "y" /\ m.pin = p.y)
    PROVE  PointAt(a, b, Place(p, a, b), pins) = p
<1> DEFINE t == Place(p, a, b)
           m == Span(b.x - a.x)
           n == Span(b.y - a.y)
<1>1. /\ p.x \in Int /\ p.y \in Int /\ a.x \in Int /\ a.y \in Int /\ b.x \in Int /\ b.y \in Int
  BY DEF On, Point
<1>2. m \in Int /\ m > 0
  BY <1>1 DEF Span, Magnitude
<1>3. n \in Int /\ n > 0
  BY <1>1 DEF Span, Magnitude
<1>4. /\ t \in Int
      /\ a.x # b.x => t = Off(p.x, a.x, b.x) * n
      /\ a.y # b.y => t = Off(p.y, a.y, b.y) * m
      /\ a.x = b.x => p.x = a.x
      /\ a.y = b.y => p.y = a.y
  BY PlaceIs
<1>5. Scale(a, b) = m * n /\ m * n \in Int /\ m * n > 0
  <2>1. Scale(a, b) = m * n
    BY DEF Scale
  <2> HIDE DEF m, n
  <2> QED BY <1>2, <1>3, <2>1
<1>6. /\ b.x > a.x => m = b.x - a.x
      /\ b.x < a.x => m = a.x - b.x
      /\ b.y > a.y => n = b.y - a.y
      /\ b.y < a.y => n = a.y - b.y
  BY <1>1 DEF Span, Magnitude
<1>7. p.x = a.x + (t * (b.x - a.x)) \div Scale(a, b)
  <2>1. CASE a.x = b.x
    <3>1. t * (b.x - a.x) = 0 * Scale(a, b)
      <4> HIDE DEF t, m, n
      <4>1. b.x - a.x = 0
        BY <1>1, <2>1
      <4> QED BY <1>4, <1>5, <4>1
    <3>2. (t * (b.x - a.x)) \div Scale(a, b) = 0
      <4> DEFINE s == Scale(a, b)
                 z == 0
      <4>1. s \in Int /\ s > 0 /\ z \in Int
        BY <1>5
      <4> HIDE DEF s, z
      <4>2. (z * s) \div s = z
        BY <4>1, DivExact
      <4> QED BY <3>1, <4>2 DEF s, z
    <3> QED BY <1>1, <1>4, <2>1, <3>2
  <2>2. CASE a.x # b.x
    <3> DEFINE c == p.x - a.x
    <3>1. c \in Int
      BY <1>1
    <3>2. t * (b.x - a.x) = c * Scale(a, b)
      <4> DEFINE u == Off(p.x, a.x, b.x)
      <4>1. t = u * n
        BY <1>4, <2>2
      <4>2. (b.x - a.x = m /\ u = c) \/ (b.x - a.x = 0 - m /\ u = 0 - c)
        <5>1. CASE b.x > a.x
          BY <1>6, <5>1 DEF Off
        <5>2. CASE b.x < a.x
          <6>1. b.x - a.x = 0 - (a.x - b.x) /\ a.x - p.x = 0 - (p.x - a.x) /\ ~(b.x > a.x)
            BY <1>1, <5>2
          <6> QED BY <1>6, <5>2, <6>1 DEF Off
        <5> QED BY <1>1, <2>2, <5>1, <5>2
      <4> HIDE DEF t, u, m, n, c
      <4>3. (c * n) * m = c * (m * n) /\ ((0 - c) * n) * (0 - m) = c * (m * n)
        BY <1>2, <1>3, <3>1
      <4> QED BY <1>5, <4>1, <4>2, <4>3
    <3>3. (t * (b.x - a.x)) \div Scale(a, b) = c
      <4> DEFINE s == Scale(a, b)
      <4>1. s \in Int /\ s > 0
        BY <1>5
      <4> HIDE DEF s, c
      <4>2. (c * s) \div s = c
        BY <3>1, <4>1, DivExact
      <4> QED BY <3>2, <4>2 DEF s
    <3>4. p.x = a.x + c
      BY <1>1
    <3> QED BY <3>3, <3>4
  <2> QED BY <2>1, <2>2
<1>8. p.y = a.y + (t * (b.y - a.y)) \div Scale(a, b)
  <2>1. CASE a.y = b.y
    <3>1. t * (b.y - a.y) = 0 * Scale(a, b)
      <4> HIDE DEF t, m, n
      <4>1. b.y - a.y = 0
        BY <1>1, <2>1
      <4> QED BY <1>4, <1>5, <4>1
    <3>2. (t * (b.y - a.y)) \div Scale(a, b) = 0
      <4> DEFINE s == Scale(a, b)
                 z == 0
      <4>1. s \in Int /\ s > 0 /\ z \in Int
        BY <1>5
      <4> HIDE DEF s, z
      <4>2. (z * s) \div s = z
        BY <4>1, DivExact
      <4> QED BY <3>1, <4>2 DEF s, z
    <3> QED BY <1>1, <1>4, <2>1, <3>2
  <2>2. CASE a.y # b.y
    <3> DEFINE c == p.y - a.y
    <3>1. c \in Int
      BY <1>1
    <3>2. t * (b.y - a.y) = c * Scale(a, b)
      <4> DEFINE u == Off(p.y, a.y, b.y)
      <4>1. t = u * m
        BY <1>4, <2>2
      <4>2. (b.y - a.y = n /\ u = c) \/ (b.y - a.y = 0 - n /\ u = 0 - c)
        <5>1. CASE b.y > a.y
          BY <1>6, <5>1 DEF Off
        <5>2. CASE b.y < a.y
          <6>1. b.y - a.y = 0 - (a.y - b.y) /\ a.y - p.y = 0 - (p.y - a.y) /\ ~(b.y > a.y)
            BY <1>1, <5>2
          <6> QED BY <1>6, <5>2, <6>1 DEF Off
        <5> QED BY <1>1, <2>2, <5>1, <5>2
      <4> HIDE DEF t, u, m, n, c
      <4>3. (c * m) * n = c * (m * n) /\ ((0 - c) * m) * (0 - n) = c * (m * n)
        BY <1>2, <1>3, <3>1
      <4> QED BY <1>5, <4>1, <4>2, <4>3
    <3>3. (t * (b.y - a.y)) \div Scale(a, b) = c
      <4> DEFINE s == Scale(a, b)
      <4>1. s \in Int /\ s > 0
        BY <1>5
      <4> HIDE DEF s, c
      <4>2. (c * s) \div s = c
        BY <3>1, <4>1, DivExact
      <4> QED BY <3>2, <4>2 DEF s
    <3>4. p.y = a.y + c
      BY <1>1
    <3> QED BY <3>3, <3>4
  <2> QED BY <2>1, <2>2
<1> HIDE DEF t
<1>9. "x" # "y"
  OBVIOUS
<1>10. /\ (\E k \in pins : k.axis = "x") => (CHOOSE k \in pins : k.axis = "x").pin = p.x
       /\ (\E k \in pins : k.axis = "y") => (CHOOSE k \in pins : k.axis = "y").pin = p.y
  BY <1>9
<1>11. PointAt(a, b, t, pins) = [x |-> p.x, y |-> p.y]
  BY <1>7, <1>8, <1>10 DEF PointAt
<1>12. p = [x |-> p.x, y |-> p.y]
  BY DEF On, Point
<1> QED
  BY <1>11, <1>12 DEF t

-----------------------------------------------------------------------------
(* The points at the ends of the slab interval                             *)

\* The ends of a segment are on it.
LEMMA EndsOn ==
    ASSUME NEW a \in Point, NEW b \in Point
    PROVE  /\ On(a, a, b) /\ On(b, a, b)
           /\ Place(a, a, b) = 0
           /\ a # b => Place(b, a, b) = Scale(a, b)
<1>1. a.x \in Int /\ a.y \in Int /\ b.x \in Int /\ b.y \in Int
  BY DEF Point
<1>2. On(a, a, b)
  <2>1. a.x - a.x = 0 /\ a.y - a.y = 0
    BY <1>1
  <2>2. (a.x - a.x) * (b.y - a.y) = 0 /\ (a.y - a.y) * (b.x - a.x) = 0
    BY <1>1, <2>1
  <2>3. Within(a.x, a.x, b.x) /\ Within(a.y, a.y, b.y)
    BY <1>1 DEF Within
  <2> QED BY <2>2, <2>3 DEF On, Between
<1>3. On(b, a, b)
  <2> DEFINE c == b.x - a.x
             d == b.y - a.y
  <2>1. c * d = d * c
    <3>1. c \in Int /\ d \in Int
      BY <1>1
    <3> HIDE DEF c, d
    <3> QED BY <3>1
  <2>3. Within(b.x, a.x, b.x) /\ Within(b.y, a.y, b.y)
    BY <1>1 DEF Within
  <2> QED BY <2>1, <2>3 DEF On, Between
<1>4. Place(a, a, b) = 0
  <2>1. Off(a.x, a.x, b.x) = 0 /\ Off(a.y, a.y, b.y) = 0
    BY <1>1 DEF Off
  <2>2. Span(b.x - a.x) \in Int
    BY <1>1 DEF Span, Magnitude
  <2>3. Span(b.y - a.y) \in Int
    BY <1>1 DEF Span, Magnitude
  <2>4. \A n \in Int : 0 * n = 0
    OBVIOUS
  <2> QED BY <2>1, <2>2, <2>3, <2>4 DEF Place
<1>5. ASSUME a # b PROVE Place(b, a, b) = Scale(a, b)
  <2>1. a.x # b.x \/ a.y # b.y
    BY <1>5 DEF Point
  <2>2. a.x # b.x => Off(b.x, a.x, b.x) = Span(b.x - a.x)
    BY <1>1 DEF Off, Span, Magnitude
  <2>3. a.y # b.y => Off(b.y, a.y, b.y) = Span(b.y - a.y)
    BY <1>1 DEF Off, Span, Magnitude
  <2> DEFINE m == Span(b.x - a.x)
             n == Span(b.y - a.y)
  <2>4. m \in Int
    BY <1>1 DEF Span, Magnitude
  <2>5. n \in Int
    BY <1>1 DEF Span, Magnitude
  <2>6. Place(b, a, b) = IF a.x # b.x THEN m * n ELSE n * m
    BY <2>1, <2>2, <2>3 DEF Place
  <2>7. Scale(a, b) = m * n
    BY DEF Scale
  <2> HIDE DEF m, n
  <2> QED BY <2>4, <2>5, <2>6, <2>7
<1> QED
  BY <1>2, <1>3, <1>4, <1>5

\* Where the segment meets the line of a side there is a lattice point.
LEMMA MeetingX ==
    ASSUME NEW tile \in Extent, NEW a \in Point, NEW b \in Point, Fine(tile, a, b), a.x # b.x,
           NEW side \in {tile.west, tile.east},
           NEW t \in Int, t = Off(side, a.x, b.x) * Span(b.y - a.y), 0 <= t, t <= Scale(a, b)
    PROVE  \E p : On(p, a, b) /\ Place(p, a, b) = t
<1>1. /\ a.x \in Int /\ a.y \in Int /\ b.x \in Int /\ b.y \in Int /\ side \in Int
  BY DEF Point, Extent
<1> DEFINE u == Off(side, a.x, b.x)
           k == Off(b.x, a.x, b.x)
           n == Span(b.y - a.y)
           m == Span(b.x - a.x)
<1>2. n \in Int /\ n > 0
  BY <1>1 DEF Span, Magnitude
<1>3. u \in Int /\ k \in Int /\ m = k
  BY <1>1 DEF Off, Span, Magnitude
<1>4. t = u * n /\ Scale(a, b) = m * n
  BY DEF Scale
<1> HIDE DEF u, k, m, n
<1>5. 0 <= u
  <2> DEFINE z == 0
  <2>1. z \in Int /\ z * n <= u * n
    BY <1>2, <1>4
  <2> HIDE DEF z
  <2>2. z <= u
    BY <1>2, <1>3, <2>1, Cancel
  <2> QED BY <2>2 DEF z
<1>6. u <= k
  BY <1>2, <1>3, <1>4, Cancel
<1>7. Within(side, a.x, b.x)
  BY <1>1, <1>5, <1>6 DEF Within, Off, u, k
<1>8. PICK p \in OnSegment(a, b) : p.x = side
  BY <1>7 DEF Fine
<1>9. On(p, a, b)
  BY OnSegmentIs
<1>10. Place(p, a, b) = u * n
  BY <1>8, <1>9, PlaceIs DEF u, n
<1> QED
  BY <1>4, <1>9, <1>10

\* The same for a side across the y axis.
LEMMA MeetingY ==
    ASSUME NEW tile \in Extent, NEW a \in Point, NEW b \in Point, Fine(tile, a, b), a.y # b.y,
           NEW side \in {tile.south, tile.north},
           NEW t \in Int, t = Off(side, a.y, b.y) * Span(b.x - a.x), 0 <= t, t <= Scale(a, b)
    PROVE  \E p : On(p, a, b) /\ Place(p, a, b) = t
<1>1. /\ a.x \in Int /\ a.y \in Int /\ b.x \in Int /\ b.y \in Int /\ side \in Int
  BY DEF Point, Extent
<1> DEFINE u == Off(side, a.y, b.y)
           k == Off(b.y, a.y, b.y)
           n == Span(b.x - a.x)
           m == Span(b.y - a.y)
<1>2. n \in Int /\ n > 0
  BY <1>1 DEF Span, Magnitude
<1>3. u \in Int /\ k \in Int /\ m = k
  <2>1. u \in Int /\ k \in Int
    BY <1>1 DEF Off
  <2>2. m = k
    BY <1>1 DEF Off, Span, Magnitude
  <2> QED BY <2>1, <2>2
<1>4. t = u * n /\ Scale(a, b) = n * m
  BY DEF Scale
<1> HIDE DEF u, k, m, n
<1>5. 0 <= u
  <2> DEFINE z == 0
  <2>1. z \in Int /\ z * n <= u * n
    BY <1>2, <1>4
  <2> HIDE DEF z
  <2>2. z <= u
    BY <1>2, <1>3, <2>1, Cancel
  <2> QED BY <2>2 DEF z
<1>6. u <= k
  <2>1. u * n <= k * n
    BY <1>2, <1>3, <1>4
  <2> QED BY <1>2, <1>3, <2>1, Cancel
<1>7. Within(side, a.y, b.y)
  BY <1>1, <1>5, <1>6 DEF Within, Off, u, k
<1>8. PICK p \in OnSegment(a, b) : p.y = side
  BY <1>7 DEF Fine
<1>9. On(p, a, b)
  BY OnSegmentIs
<1>10. Place(p, a, b) = u * n
  BY <1>8, <1>9, PlaceIs DEF u, n
<1> QED
  BY <1>4, <1>9, <1>10

\* A side that is met where p is has p on its line.
LEMMA PinIs ==
    ASSUME NEW tile \in Extent, NEW a \in Point, NEW b \in Point, NEW p, On(p, a, b),
           NEW m, \/ a.x # b.x /\ m \in {SidesX(tile, a, b).near, SidesX(tile, a, b).far}
                  \/ a.y # b.y /\ m \in {SidesY(tile, a, b).near, SidesY(tile, a, b).far},
           m.t = Place(p, a, b)
    PROVE  (m.axis = "x" /\ m.pin = p.x) \/ (m.axis = "y" /\ m.pin = p.y)
<1>1. /\ p.x \in Int /\ p.y \in Int /\ a.x \in Int /\ a.y \in Int /\ b.x \in Int /\ b.y \in Int
      /\ tile.west \in Int /\ tile.east \in Int /\ tile.south \in Int /\ tile.north \in Int
  BY DEF On, Point, Extent
<1>2. CASE a.x # b.x /\ m \in {SidesX(tile, a, b).near, SidesX(tile, a, b).far}
  <2> DEFINE n == Span(b.y - a.y)
             u == Off(m.pin, a.x, b.x)
             v == Off(p.x, a.x, b.x)
  <2>1. n \in Int /\ n > 0
    BY <1>1 DEF Span, Magnitude
  <2>2. m.axis = "x" /\ m.pin \in Int /\ m.t = u * n
    BY <1>1, <1>2, SideXIs
  <2>3. Place(p, a, b) = v * n
    BY <1>2, PlaceIs
  <2>4. u \in Int /\ v \in Int
    BY <1>1, <2>2 DEF Off
  <2>5. u = v
    <3>1. u * n = v * n
      BY <2>2, <2>3
    <3> HIDE DEF u, v, n
    <3> QED BY <2>1, <2>4, <3>1, Cancel
  <2>6. m.pin = p.x
    <3> DEFINE c == m.pin
               d == p.x
               c0 == a.x
               c1 == b.x
    <3>1. c \in Int /\ d \in Int /\ c0 \in Int /\ c1 \in Int
      BY <1>1, <2>2
    <3>2. Off(c, c0, c1) = Off(d, c0, c1)
      BY <2>5
    <3> HIDE DEF c, d, c0, c1
    <3>3. c = d
      BY <3>1, <3>2 DEF Off
    <3> QED BY <3>3 DEF c, d
  <2>7. m.axis = "x"
    BY <2>2
  <2> QED BY <2>6, <2>7
<1>3. CASE a.y # b.y /\ m \in {SidesY(tile, a, b).near, SidesY(tile, a, b).far}
  <2> DEFINE n == Span(b.x - a.x)
             u == Off(m.pin, a.y, b.y)
             v == Off(p.y, a.y, b.y)
  <2>1. n \in Int /\ n > 0
    BY <1>1 DEF Span, Magnitude
  <2>2. m.axis = "y" /\ m.pin \in Int /\ m.t = u * n
    BY <1>1, <1>3, SideYIs
  <2>3. Place(p, a, b) = v * n
    BY <1>3, PlaceIs
  <2>4. u \in Int /\ v \in Int
    BY <1>1, <2>2 DEF Off
  <2>5. u = v
    <3>1. u * n = v * n
      BY <2>2, <2>3
    <3> HIDE DEF u, v, n
    <3> QED BY <2>1, <2>4, <3>1, Cancel
  <2>6. m.pin = p.y
    <3> DEFINE c == m.pin
               d == p.y
               c0 == a.y
               c1 == b.y
    <3>1. c \in Int /\ d \in Int /\ c0 \in Int /\ c1 \in Int
      BY <1>1, <2>2
    <3>2. Off(c, c0, c1) = Off(d, c0, c1)
      BY <2>5
    <3> HIDE DEF c, d, c0, c1
    <3>3. c = d
      BY <3>1, <3>2 DEF Off
    <3> QED BY <3>3 DEF c, d
  <2>7. m.axis = "y"
    BY <2>2
  <2> QED BY <2>6, <2>7
<1> QED
  BY <1>2, <1>3

\* point_at finds the lattice points at the ends of the slab interval.
LEMMA EnterPointIs ==
    ASSUME NEW tile \in Extent, NEW a \in Point, NEW b \in Point, Fine(tile, a, b),
           Hits(tile, a, b)
    PROVE  /\ On(EnterPoint(tile, a, b), a, b)
           /\ Place(EnterPoint(tile, a, b), a, b) = Enter(tile, a, b)
<1> DEFINE t == Enter(tile, a, b)
           sx == SidesX(tile, a, b)
           sy == SidesY(tile, a, b)
<1>1. /\ t \in Int /\ Exit(tile, a, b) \in Int /\ 0 <= t /\ Exit(tile, a, b) <= Scale(a, b)
      /\ \/ t = 0
         \/ a.x # b.x /\ t = sx.near.t
         \/ a.y # b.y /\ t = sy.near.t
  BY SlabIs
<1>2. Scale(a, b) \in Int
  BY EndsOn, PlaceIs
<1>3. t <= Exit(tile, a, b)
  BY DEF Hits
<1>4. t <= Scale(a, b)
  <2> HIDE DEF t
  <2> QED BY <1>1, <1>2, <1>3
<1>5. \E p : On(p, a, b) /\ Place(p, a, b) = t
  <2> HIDE DEF t
  <2>1. CASE t = 0
    BY <2>1, EndsOn
  <2>2. CASE a.x # b.x /\ t = sx.near.t
    <3>1. sx.near.pin \in {tile.west, tile.east} /\ t = Off(sx.near.pin, a.x, b.x) * Span(b.y - a.y)
      BY <2>2, SideXIs
    <3> HIDE DEF sx
    <3> QED BY <1>1, <1>4, <2>2, <3>1, MeetingX
  <2>3. CASE a.y # b.y /\ t = sy.near.t
    <3>1. sy.near.pin \in {tile.south, tile.north} /\ t = Off(sy.near.pin, a.y, b.y) * Span(b.x - a.x)
      BY <2>3, SideYIs
    <3> HIDE DEF sy
    <3> QED BY <1>1, <1>4, <2>3, <3>1, MeetingY
  <2> QED BY <1>1, <2>1, <2>2, <2>3
<1>6. PICK p : On(p, a, b) /\ Place(p, a, b) = t
  BY <1>5
<1> DEFINE pins == {s.near : s \in {u \in Sides(tile, a, b) : u.near.t = t}}
<1>7. \A m \in pins : (m.axis = "x" /\ m.pin = p.x) \/ (m.axis = "y" /\ m.pin = p.y)
  <2> SUFFICES ASSUME NEW m \in pins
               PROVE  (m.axis = "x" /\ m.pin = p.x) \/ (m.axis = "y" /\ m.pin = p.y)
    OBVIOUS
  <2>1. /\ \/ a.x # b.x /\ m \in {sx.near, sx.far}
           \/ a.y # b.y /\ m \in {sy.near, sy.far}
        /\ m.t = t
    BY DEF Sides
  <2> QED BY <1>6, <2>1, PinIs
<1>8. PointAt(a, b, t, pins) = p
  <2> HIDE DEF pins
  <2>1. PointAt(a, b, Place(p, a, b), pins) = p
    BY <1>6, <1>7, PointAtIs
  <2> QED BY <1>6, <2>1
<1>9. EnterPoint(tile, a, b) = PointAt(a, b, t, pins)
  BY DEF EnterPoint
<1> QED
  BY <1>6, <1>8, <1>9

\* The same for the point at which the tile is left.
LEMMA ExitPointIs ==
    ASSUME NEW tile \in Extent, NEW a \in Point, NEW b \in Point, Fine(tile, a, b), a # b,
           Hits(tile, a, b)
    PROVE  /\ On(ExitPoint(tile, a, b), a, b)
           /\ Place(ExitPoint(tile, a, b), a, b) = Exit(tile, a, b)
<1> DEFINE t == Exit(tile, a, b)
           sx == SidesX(tile, a, b)
           sy == SidesY(tile, a, b)
<1>1. /\ t \in Int /\ Enter(tile, a, b) \in Int /\ 0 <= Enter(tile, a, b) /\ t <= Scale(a, b)
      /\ \/ t = Scale(a, b)
         \/ a.x # b.x /\ t = sx.far.t
         \/ a.y # b.y /\ t = sy.far.t
  BY SlabIs
<1>3. Enter(tile, a, b) <= t
  BY DEF Hits
<1>4. 0 <= t
  <2> HIDE DEF t
  <2> QED BY <1>1, <1>3
<1>5. \E p : On(p, a, b) /\ Place(p, a, b) = t
  <2> HIDE DEF t
  <2>1. CASE t = Scale(a, b)
    BY <2>1, EndsOn
  <2>2. CASE a.x # b.x /\ t = sx.far.t
    <3>1. sx.far.pin \in {tile.west, tile.east} /\ t = Off(sx.far.pin, a.x, b.x) * Span(b.y - a.y)
      BY <2>2, SideXIs
    <3> HIDE DEF sx
    <3> QED BY <1>1, <1>4, <2>2, <3>1, MeetingX
  <2>3. CASE a.y # b.y /\ t = sy.far.t
    <3>1. sy.far.pin \in {tile.south, tile.north} /\ t = Off(sy.far.pin, a.y, b.y) * Span(b.x - a.x)
      BY <2>3, SideYIs
    <3> HIDE DEF sy
    <3> QED BY <1>1, <1>4, <2>3, <3>1, MeetingY
  <2> QED BY <1>1, <2>1, <2>2, <2>3
<1>6. PICK p : On(p, a, b) /\ Place(p, a, b) = t
  BY <1>5
<1> DEFINE pins == {s.far : s \in {u \in Sides(tile, a, b) : u.far.t = t}}
<1>7. \A m \in pins : (m.axis = "x" /\ m.pin = p.x) \/ (m.axis = "y" /\ m.pin = p.y)
  <2> SUFFICES ASSUME NEW m \in pins
               PROVE  (m.axis = "x" /\ m.pin = p.x) \/ (m.axis = "y" /\ m.pin = p.y)
    OBVIOUS
  <2>1. /\ \/ a.x # b.x /\ m \in {sx.near, sx.far}
           \/ a.y # b.y /\ m \in {sy.near, sy.far}
        /\ m.t = t
    BY DEF Sides
  <2> QED BY <1>6, <2>1, PinIs
<1>8. PointAt(a, b, t, pins) = p
  <2> HIDE DEF pins
  <2>1. PointAt(a, b, Place(p, a, b), pins) = p
    BY <1>6, <1>7, PointAtIs
  <2> QED BY <1>6, <2>1
<1>9. ExitPoint(tile, a, b) = PointAt(a, b, t, pins)
  BY DEF ExitPoint
<1> QED
  BY <1>6, <1>8, <1>9

-----------------------------------------------------------------------------
(* How a segment meets a tile                                              *)

\* A stretch of a segment before the slab interval, behind it, or of a segment
\* that has no more than a point in it, has at most one point in the tile.
LEMMA GrazesIs ==
    ASSUME NEW tile \in Extent, NEW a \in Point, NEW b \in Point,
           NEW p, On(p, a, b), NEW q, On(q, a, b), Place(p, a, b) <= Place(q, a, b),
           \/ Exit(tile, a, b) <= Place(p, a, b)
           \/ Place(q, a, b) <= Enter(tile, a, b)
           \/ Exit(tile, a, b) <= Enter(tile, a, b)
           \/ Beside(tile, a, b)
    PROVE  Grazes(tile, p, q)
<1> SUFFICES ASSUME NEW u \in Point, NEW v \in Point,
                    Between(u, p, q), Inside(tile, u), Between(v, p, q), Inside(tile, v)
             PROVE  u = v
  BY DEF Grazes
<1>1. On(u, a, b) /\ Place(p, a, b) <= Place(u, a, b) /\ Place(u, a, b) <= Place(q, a, b)
  BY PlaceBetween
<1>2. On(v, a, b) /\ Place(p, a, b) <= Place(v, a, b) /\ Place(v, a, b) <= Place(q, a, b)
  BY PlaceBetween
<1>3. /\ ~Beside(tile, a, b)
      /\ Enter(tile, a, b) <= Place(u, a, b) /\ Place(u, a, b) <= Exit(tile, a, b)
  BY <1>1, InsideIs
<1>4. Enter(tile, a, b) <= Place(v, a, b) /\ Place(v, a, b) <= Exit(tile, a, b)
  BY <1>2, InsideIs
<1>5. /\ Place(u, a, b) \in Int /\ Place(v, a, b) \in Int
      /\ Place(p, a, b) \in Int /\ Place(q, a, b) \in Int
  BY <1>1, <1>2, PlaceIs
<1>6. Enter(tile, a, b) \in Int /\ Exit(tile, a, b) \in Int
  BY SlabIs
<1> DEFINE j == Place(u, a, b)
           k == Place(v, a, b)
           m == Place(p, a, b)
           n == Place(q, a, b)
           e == Enter(tile, a, b)
           x == Exit(tile, a, b)
<1>7. j = k
  <2>1. /\ j \in Int /\ k \in Int /\ m \in Int /\ n \in Int /\ e \in Int /\ x \in Int
        /\ m <= j /\ m <= k /\ j <= n /\ k <= n /\ e <= j /\ e <= k /\ j <= x /\ k <= x
        /\ x <= m \/ n <= e \/ x <= e
    BY <1>1, <1>2, <1>3, <1>4, <1>5, <1>6
  <2> HIDE DEF j, k, m, n, e, x
  <2> QED BY <2>1
<1> QED
  BY <1>1, <1>2, <1>7, PlaceOrder

\* A segment that leaves the tile does so at its exit point.
LEMMA SegmentLeaves ==
    ASSUME NEW tile \in Extent, NEW a \in Point, NEW b \in Point, Fine(tile, a, b),
           Inside(tile, a), ~Inside(tile, b), NEW x, x = ExitPoint(tile, a, b)
    PROVE  /\ x \in Point /\ Between(x, a, b) /\ Inside(tile, x)
           /\ Grazes(tile, x, b)
<1>1. a # b
  OBVIOUS
<1>2. /\ On(a, a, b) /\ On(b, a, b) /\ Place(a, a, b) = 0 /\ Place(b, a, b) = Scale(a, b)
  BY <1>1, EndsOn
<1>3. ~Beside(tile, a, b) /\ Enter(tile, a, b) <= 0 /\ 0 <= Exit(tile, a, b)
  BY <1>2, InsideIs
<1>4. /\ Enter(tile, a, b) \in Int /\ Exit(tile, a, b) \in Int /\ 0 <= Enter(tile, a, b)
      /\ Exit(tile, a, b) <= Scale(a, b)
  BY SlabIs
<1>5. Enter(tile, a, b) <= Exit(tile, a, b)
  BY <1>3, <1>4
<1>6. On(x, a, b) /\ Place(x, a, b) = Exit(tile, a, b)
  BY <1>1, <1>3, <1>5, ExitPointIs DEF Hits
<1>7. Exit(tile, a, b) <= Exit(tile, a, b)
  BY <1>4
<1>8. Inside(tile, x)
  BY <1>3, <1>5, <1>6, <1>7, InsideIs
<1>9. Grazes(tile, x, b)
  BY <1>2, <1>4, <1>6, <1>7, GrazesIs
<1> QED
  BY <1>6, <1>8, <1>9 DEF On

\* A segment that comes into the tile does so at its entry point.
LEMMA SegmentArrives ==
    ASSUME NEW tile \in Extent, NEW a \in Point, NEW b \in Point, Fine(tile, a, b),
           ~Inside(tile, a), Inside(tile, b), NEW e, e = EnterPoint(tile, a, b)
    PROVE  /\ e \in Point /\ Between(e, a, b) /\ Inside(tile, e)
           /\ Grazes(tile, a, e)
<1>1. a # b
  OBVIOUS
<1>2. /\ On(a, a, b) /\ On(b, a, b) /\ Place(a, a, b) = 0 /\ Place(b, a, b) = Scale(a, b)
  BY <1>1, EndsOn
<1>3. ~Beside(tile, a, b) /\ Enter(tile, a, b) <= Scale(a, b) /\ Scale(a, b) <= Exit(tile, a, b)
  BY <1>2, InsideIs
<1>4. /\ Enter(tile, a, b) \in Int /\ Exit(tile, a, b) \in Int /\ 0 <= Enter(tile, a, b)
      /\ Exit(tile, a, b) <= Scale(a, b) /\ Scale(a, b) \in Int
  BY <1>2, SlabIs, PlaceIs
<1>5. Enter(tile, a, b) <= Exit(tile, a, b)
  BY <1>3, <1>4
<1>6. On(e, a, b) /\ Place(e, a, b) = Enter(tile, a, b)
  BY <1>3, <1>5, EnterPointIs DEF Hits
<1>7. Enter(tile, a, b) <= Enter(tile, a, b)
  BY <1>4
<1>8. Inside(tile, e)
  BY <1>3, <1>5, <1>6, <1>7, InsideIs
<1>9. Grazes(tile, a, e)
  BY <1>2, <1>4, <1>6, <1>7, GrazesIs
<1> QED
  BY <1>6, <1>8, <1>9 DEF On

\* A segment between two vertices outside runs through the tile from its entry
\* point to its exit point, or has at most one point in it.
LEMMA SegmentPasses ==
    ASSUME NEW tile \in Extent, NEW a \in Point, NEW b \in Point, Fine(tile, a, b),
           Through(tile, a, b),
           NEW e, e = EnterPoint(tile, a, b), NEW x, x = ExitPoint(tile, a, b)
    PROVE  /\ e \in Point /\ x \in Point /\ e # x
           /\ Between(e, a, b) /\ Between(x, a, b) /\ Between(x, e, b)
           /\ Inside(tile, e) /\ Inside(tile, x)
           /\ Grazes(tile, a, e) /\ Grazes(tile, x, b)
<1>1. a # b
  <2> SUFFICES ASSUME a = b PROVE FALSE
    OBVIOUS
  <2>1. Sides(tile, a, b) = {}
    BY DEF Sides
  <2>2. ASSUME NEW t \in Int PROVE PointAt(a, b, t, {}) = a
    <3>1. a.x \in Int /\ a.y \in Int
      BY DEF Point
    <3>2. Scale(a, b) \in Int /\ Scale(a, b) > 0
      <4>1. b.x - a.x = 0 /\ b.y - a.y = 0
        BY <3>1
      <4>2. Span(b.x - a.x) = 1 /\ Span(b.y - a.y) = 1
        BY <4>1 DEF Span
      <4> QED BY <4>2 DEF Scale
    <3>3. t * (b.x - a.x) = 0 * Scale(a, b) /\ t * (b.y - a.y) = 0 * Scale(a, b)
      <4>1. b.x - a.x = 0 /\ b.y - a.y = 0
        BY <3>1
      <4> QED BY <3>2, <4>1
    <3>4. (0 * Scale(a, b)) \div Scale(a, b) = 0
      <4> DEFINE z == 0
                 s == Scale(a, b)
      <4>1. z \in Int /\ s \in Int /\ s > 0
        BY <3>2
      <4> HIDE DEF z, s
      <4>2. (z * s) \div s = z
        BY <4>1, DivExact
      <4> QED BY <4>2 DEF z, s
    <3>5. PointAt(a, b, t, {}) = [x |-> a.x + 0, y |-> a.y + 0]
      BY <3>3, <3>4 DEF PointAt
    <3>6. a = [x |-> a.x, y |-> a.y]
      BY DEF Point
    <3> QED BY <3>1, <3>5, <3>6
  <2>3. Enter(tile, a, b) \in Int /\ Exit(tile, a, b) \in Int
    BY SlabIs
  <2>4. e = a /\ x = a
    BY <2>1, <2>2, <2>3 DEF EnterPoint, ExitPoint
  <2> QED BY <2>4 DEF Through
<1>2. /\ On(a, a, b) /\ On(b, a, b) /\ Place(a, a, b) = 0 /\ Place(b, a, b) = Scale(a, b)
  BY <1>1, EndsOn
<1>3. /\ Hits(tile, a, b) /\ ~Beside(tile, a, b) /\ Enter(tile, a, b) <= Exit(tile, a, b)
      /\ e # x
  BY DEF Through, Hits
<1>4. /\ Enter(tile, a, b) \in Int /\ Exit(tile, a, b) \in Int /\ 0 <= Enter(tile, a, b)
      /\ Exit(tile, a, b) <= Scale(a, b) /\ Scale(a, b) \in Int
  BY <1>2, SlabIs, PlaceIs
<1>5. On(e, a, b) /\ Place(e, a, b) = Enter(tile, a, b)
  BY <1>3, EnterPointIs
<1>6. On(x, a, b) /\ Place(x, a, b) = Exit(tile, a, b)
  BY <1>1, <1>3, ExitPointIs
<1>7. Enter(tile, a, b) <= Enter(tile, a, b) /\ Exit(tile, a, b) <= Exit(tile, a, b)
  BY <1>4
<1>8. Inside(tile, e) /\ Inside(tile, x)
  BY <1>3, <1>5, <1>6, <1>7, InsideIs
<1>9. Grazes(tile, a, e)
  BY <1>2, <1>4, <1>5, <1>7, GrazesIs
<1>10. Grazes(tile, x, b)
  BY <1>2, <1>4, <1>6, <1>7, GrazesIs
<1>11. Between(x, e, b)
  <2>1. Enter(tile, a, b) <= Scale(a, b)
    BY <1>3, <1>4
  <2>2. Place(e, a, b) <= Place(b, a, b)
    BY <1>2, <1>5, <2>1
  <2>3. Place(e, a, b) <= Place(x, a, b) /\ Place(x, a, b) <= Place(b, a, b)
    BY <1>2, <1>3, <1>4, <1>5, <1>6
  <2> QED BY <1>2, <1>5, <1>6, <2>2, <2>3, PlaceBetween DEF On
<1> QED
  BY <1>3, <1>5, <1>6, <1>8, <1>9, <1>10, <1>11 DEF On

\* A segment that comes from outside and does not run through the tile has at most
\* a point in it, or it ends there.
LEMMA SegmentMisses ==
    ASSUME NEW tile \in Extent, NEW a \in Point, NEW b \in Point, Fine(tile, a, b),
           ~Inside(tile, a), ~Through(tile, a, b)
    PROVE  Grazes(tile, a, b)
<1>1. CASE a = b
  <2>1. \A u \in Point : Between(u, a, b) => u = a
    <3> SUFFICES ASSUME NEW u \in Point, Between(u, a, b) PROVE u = a
      OBVIOUS
    <3>1. u.x = a.x /\ u.y = a.y
      BY <1>1, PlaceIs DEF On
    <3> QED BY <3>1 DEF Point
  <2> QED BY <2>1 DEF Grazes
<1>2. CASE a # b
  <2>1. /\ On(a, a, b) /\ On(b, a, b) /\ Place(a, a, b) = 0 /\ Place(b, a, b) = Scale(a, b)
    BY <1>2, EndsOn
  <2>2. /\ Enter(tile, a, b) \in Int /\ Exit(tile, a, b) \in Int /\ 0 <= Enter(tile, a, b)
        /\ Exit(tile, a, b) <= Scale(a, b) /\ Scale(a, b) \in Int
        /\ 0 <= Scale(a, b)
    BY <2>1, SlabIs, PlaceIs
  <2>3. Beside(tile, a, b) \/ Exit(tile, a, b) <= Enter(tile, a, b)
    <3> SUFFICES ASSUME ~Beside(tile, a, b), ~(Exit(tile, a, b) <= Enter(tile, a, b)) PROVE FALSE
      OBVIOUS
    <3>1. Enter(tile, a, b) < Exit(tile, a, b) /\ Enter(tile, a, b) <= Exit(tile, a, b)
      BY <2>2
    <3>2. Hits(tile, a, b)
      BY <3>1 DEF Hits
    <3>3. EnterPoint(tile, a, b) = ExitPoint(tile, a, b)
      BY <3>1, <3>2 DEF Through
    <3>4. Enter(tile, a, b) = Exit(tile, a, b)
      BY <1>2, <3>2, <3>3, EnterPointIs, ExitPointIs
    <3> QED BY <2>2, <3>1, <3>4
  <2> QED BY <2>1, <2>2, <2>3, GrazesIs
<1> QED
  BY <1>1, <1>2

-----------------------------------------------------------------------------
(* The walk of one segment                                                 *)

\* The side that a point is on.
Class(tile, p) == IF Inside(tile, p) THEN 1 ELSE 0

\* The ends of a segment are between them.
LEMMA PassEnd ==
    ASSUME NEW tile, NEW a \in Point, NEW b \in Point
    PROVE  Between(a, a, b) /\ Between(b, a, b)
BY EndsOn DEF On

\* A single point is no more than a point in the tile.
LEMMA PointGrazes ==
    ASSUME NEW tile, NEW p \in Point
    PROVE  Grazes(tile, p, p)
<1>1. ASSUME NEW u \in Point, Between(u, p, p) PROVE u = p
  <2>1. u.x = p.x /\ u.y = p.y
    BY <1>1, PlaceIs DEF On
  <2> QED BY <2>1 DEF Point
<1> QED
  BY <1>1 DEF Grazes

\* A cut changes sides.
LEMMA CutFlips ==
    ASSUME NEW w \in Walking, NEW q
    PROVE  Side(Cut(w, q)) = 1 - Side(w)
<1>1. w.inside \in BOOLEAN /\ Cut(w, q).inside = ~w.inside
  BY DEF Cut, Walking
<1>2. (Cut(w, q).inside /\ ~w.inside) \/ (~Cut(w, q).inside /\ w.inside)
  BY <1>1, Zenon
<1> QED
  BY <1>2 DEF Side

\* What holds of the walk at the end of segment i.
Reaches(tile, line, i, w, solid) ==
    /\ Underway(tile, line, i + 1, w, line[i + 1], solid)
    /\ Side(w) = Class(tile, line[i + 1])

\* The walk of one segment goes on from its first vertex to its last, and cuts
\* wherever the line changes sides.
LEMMA SegmentWalks ==
    ASSUME NEW tile \in Extent, NEW line, Len(line) \in Nat, NEW i \in 1 .. Len(line) - 1,
           line[i] \in Point, line[i + 1] \in Point, Fine(tile, line[i], line[i + 1]),
           NEW w, NEW solid, Underway(tile, line, i, w, line[i], solid),
           Side(w) = Class(tile, line[i]),
           NEW v, v = WalkSegment(tile, line[i], line[i + 1], w),
           NEW t, t = 1 => solid = 1 \/ ~Grazes(tile, line[i], line[i + 1])
    PROVE  Reaches(tile, line, i, v, t)
<1> DEFINE a == line[i]
           b == line[i + 1]
           e == EnterPoint(tile, a, b)
           x == ExitPoint(tile, a, b)
<1>1. a \in Point /\ b \in Point /\ Fine(tile, a, b) /\ Between(a, a, b) /\ Between(b, a, b)
  BY PassEnd
<1>2. /\ Underway(tile, line, i, w, a, solid) /\ Side(w) = Class(tile, a)
      /\ t = 1 => solid = 1 \/ ~Grazes(tile, a, b)
  OBVIOUS
<1>3. SUFFICES Underway(tile, line, i, v, b, t) /\ Side(v) = Class(tile, b)
  BY Arrives DEF Reaches
<1>4. CASE Inside(tile, a) /\ Inside(tile, b)
  <2>1. v = Extend(w, b)
    BY <1>4 DEF WalkSegment
  <2>2. Fits(tile, Side(w), a, b) /\ Class(tile, a) = 1 /\ Class(tile, b) = 1
    BY <1>2, <1>4 DEF Fits, Class
  <2>3. Underway(tile, line, i, Extend(w, b), b, t) /\ Side(Extend(w, b)) = Side(w)
    <3>1. b = a \/ Fits(tile, Side(w), a, b)
      BY <2>2
    <3>2. t = 1 => solid = 1 \/ (b # a /\ Side(w) = 1)
      <4>1. b = a => Grazes(tile, a, b)
        BY <1>1, PointGrazes
      <4> QED BY <1>2, <2>2, <4>1
    <3> QED BY <1>1, <1>2, <3>1, <3>2, StepExtend
  <2> QED BY <1>2, <2>1, <2>2, <2>3
<1>5. CASE Inside(tile, a) /\ ~Inside(tile, b)
  <2>1. v = Extend(Cut(w, x), b)
    BY <1>5 DEF WalkSegment
  <2>2. x \in Point /\ Between(x, a, b) /\ Inside(tile, x) /\ Grazes(tile, x, b)
    BY <1>1, <1>5, SegmentLeaves
  <2>3. Fits(tile, Side(w), a, x) /\ Side(w) = 1 /\ Class(tile, b) = 0
    BY <1>2, <1>5, <2>2 DEF Fits, Class
  <2> DEFINE u == Cut(w, x)
  <2>4. Underway(tile, line, i, u, x, t) /\ Side(u) = 0
    <3>1. x = a \/ Fits(tile, Side(w), a, x)
      BY <2>3
    <3>3. t = 1 => solid = 1 \/ (x # a /\ Side(w) = 1)
      BY <1>2, <2>2, <2>3
    <3>2. Underway(tile, line, i, Cut(w, x), x, t) /\ Side(Cut(w, x)) = 1 - Side(w)
      BY <1>1, <1>2, <2>2, <3>1, <3>3, StepCut
    <3> QED BY <2>3, <3>2
  <2> HIDE DEF u, x
  <2>5. Between(b, x, b)
    BY <1>1, <2>2, PassEnd
  <2>6. Underway(tile, line, i, Extend(u, b), b, t) /\ Side(Extend(u, b)) = Side(u)
    <3>1. b = x \/ Fits(tile, Side(u), x, b)
      BY <2>2, <2>4 DEF Fits
    <3>2. t = 1 => t = 1 \/ (b # x /\ Side(u) = 1)
      OBVIOUS
    <3> QED BY <1>1, <2>2, <2>4, <2>5, <3>1, <3>2, StepExtend
  <2> QED BY <2>1, <2>3, <2>4, <2>6 DEF u
<1>6. CASE ~Inside(tile, a) /\ Inside(tile, b)
  <2>1. v = Extend(Cut(w, e), b)
    BY <1>6 DEF WalkSegment
  <2>2. e \in Point /\ Between(e, a, b) /\ Inside(tile, e) /\ Grazes(tile, a, e)
    BY <1>1, <1>6, SegmentArrives
  <2>3. Fits(tile, Side(w), a, e) /\ Side(w) = 0 /\ Class(tile, b) = 1
    BY <1>2, <1>6, <2>2 DEF Fits, Class
  <2> DEFINE u == Cut(w, e)
  <2>4. Underway(tile, line, i, u, e, solid) /\ Side(u) = 1
    <3>1. e = a \/ Fits(tile, Side(w), a, e)
      BY <2>3
    <3>3. solid = 1 => solid = 1 \/ (e # a /\ Side(w) = 1)
      OBVIOUS
    <3>2. Underway(tile, line, i, Cut(w, e), e, solid) /\ Side(Cut(w, e)) = 1 - Side(w)
      BY <1>1, <1>2, <2>2, <3>1, <3>3, StepCut
    <3> QED BY <2>3, <3>2
  <2> HIDE DEF u, e
  <2>5. Between(b, e, b)
    BY <1>1, <2>2, PassEnd
  <2>6. Underway(tile, line, i, Extend(u, b), b, t) /\ Side(Extend(u, b)) = Side(u)
    <3>1. b = e \/ Fits(tile, Side(u), e, b)
      BY <1>6, <2>2, <2>4 DEF Fits
    <3>2. t = 1 => solid = 1 \/ (b # e /\ Side(u) = 1)
      BY <1>2, <2>2, <2>4
    <3> QED BY <1>1, <2>2, <2>4, <2>5, <3>1, <3>2, StepExtend
  <2> QED BY <2>1, <2>3, <2>4, <2>6 DEF u
<1>7. CASE ~Inside(tile, a) /\ ~Inside(tile, b)
  <2>0. Side(w) = 0 /\ Class(tile, b) = 0
    BY <1>2, <1>7 DEF Class
  <2>1. CASE Through(tile, a, b)
    <3>1. v = Extend(Cut(Cut(w, e), x), b)
      BY <1>7, <2>1 DEF WalkSegment
    <3>2. /\ e \in Point /\ x \in Point /\ e # x
          /\ Between(e, a, b) /\ Between(x, a, b) /\ Between(x, e, b)
          /\ Inside(tile, e) /\ Inside(tile, x)
          /\ Grazes(tile, a, e) /\ Grazes(tile, x, b)
      BY <1>1, <2>1, SegmentPasses
    <3> DEFINE u == Cut(w, e)
               z == Cut(u, x)
    <3>3. Underway(tile, line, i, u, e, solid) /\ Side(u) = 1
      <4>1. e = a \/ Fits(tile, Side(w), a, e)
        BY <2>0, <3>2 DEF Fits
      <4>3. solid = 1 => solid = 1 \/ (e # a /\ Side(w) = 1)
        OBVIOUS
      <4>2. Underway(tile, line, i, Cut(w, e), e, solid) /\ Side(Cut(w, e)) = 1 - Side(w)
        BY <1>1, <1>2, <3>2, <4>1, <4>3, StepCut
      <4> QED BY <2>0, <4>2
    <3> HIDE DEF u
    <3>4. Underway(tile, line, i, z, x, t) /\ Side(z) = 0
      <4>1. x = e \/ Fits(tile, Side(u), e, x)
        BY <3>2, <3>3 DEF Fits
      <4>2. Underway(tile, line, i, Cut(u, x), x, t) /\ Side(Cut(u, x)) = 1 - Side(u)
        <5> HIDE DEF e, x
        <5>1. /\ Underway(tile, line, i, u, e, solid) /\ x \in Point
              /\ Between(e, line[i], line[i + 1]) /\ Between(x, e, line[i + 1])
          BY <3>2, <3>3
        <5>2. x = e \/ Fits(tile, Side(u), e, x)
          BY <4>1
        <5>3. t = 1 => solid = 1 \/ (x # e /\ Side(u) = 1)
          BY <3>2, <3>3
        <5>4. Underway(tile, line, i, Cut(u, x), x, t)
          BY <5>1, <5>2, <5>3, StepCut
        <5>5. u \in Walking
          BY <5>1 DEF Underway
        <5>6. Side(Cut(u, x)) = 1 - Side(u)
          BY <5>5, CutFlips
        <5> QED BY <5>4, <5>6
      <4> QED BY <3>3, <4>2
    <3> HIDE DEF z, x, e
    <3>5. Between(b, x, b)
      BY <1>1, <3>2, PassEnd
    <3>6. Underway(tile, line, i, Extend(z, b), b, t) /\ Side(Extend(z, b)) = Side(z)
      <4>1. b = x \/ Fits(tile, Side(z), x, b)
        BY <3>2, <3>4 DEF Fits
      <4>2. t = 1 => t = 1 \/ (b # x /\ Side(z) = 1)
        OBVIOUS
      <4> QED BY <1>1, <3>2, <3>4, <3>5, <4>1, <4>2, StepExtend
    <3> QED BY <2>0, <3>1, <3>4, <3>6 DEF u, z
  <2>2. CASE ~Through(tile, a, b)
    <3>1. v = Extend(w, b)
      BY <1>7, <2>2 DEF WalkSegment
    <3>2. Grazes(tile, a, b)
      BY <1>1, <1>7, <2>2, SegmentMisses
    <3>3. b = a \/ Fits(tile, Side(w), a, b)
      BY <2>0, <3>2 DEF Fits
    <3>5. t = 1 => solid = 1 \/ (b # a /\ Side(w) = 1)
      BY <1>2, <3>2
    <3>4. Underway(tile, line, i, Extend(w, b), b, t) /\ Side(Extend(w, b)) = Side(w)
      BY <1>1, <1>2, <3>3, <3>5, StepExtend
    <3> QED BY <2>0, <3>1, <3>4
  <2> QED BY <2>1, <2>2
<1> QED
  BY <1>4, <1>5, <1>6, <1>7

-----------------------------------------------------------------------------
(* The walk of the line                                                    *)

\* Whether the line has had more than a point of a segment in the tile.
Solid(tile, line, i) ==
    IF \E n \in 1 .. i - 1 : ~Grazes(tile, line[n], line[n + 1]) THEN 1 ELSE 0

\* What holds of the walk at vertex i.
Stands(tile, line, i, w) ==
    /\ Underway(tile, line, i, w, line[i], Solid(tile, line, i))
    /\ Side(w) = Class(tile, line[i])

\* The lattice is fine enough for the line and the tile.
FineLine(tile, line) ==
    \A k \in 1 .. Len(line) - 1 : Fine(tile, line[k], line[k + 1])

\* It holds from vertex to vertex.
LEMMA StandsOn ==
    ASSUME NEW tile \in Extent, NEW line \in Seq(Point), FineLine(tile, line),
           NEW i \in 1 .. Len(line) - 1, NEW w, Stands(tile, line, i, w),
           NEW v, v = WalkSegment(tile, line[i], line[i + 1], w)
    PROVE  Stands(tile, line, i + 1, v)
<1>1. Len(line) \in Nat /\ line[i] \in Point /\ line[i + 1] \in Point
  <2>1. Len(line) \in Nat
    BY LenProperties
  <2>2. i \in 1 .. Len(line) /\ i + 1 \in 1 .. Len(line)
    BY <2>1
  <2> QED BY <2>1, <2>2, ElementOfSeq
<1>2. Fine(tile, line[i], line[i + 1])
  BY DEF FineLine
<1> DEFINE s == Solid(tile, line, i)
           t == Solid(tile, line, i + 1)
<1>3. t = 1 => s = 1 \/ ~Grazes(tile, line[i], line[i + 1])
  <2> SUFFICES ASSUME t = 1, Grazes(tile, line[i], line[i + 1]) PROVE s = 1
    OBVIOUS
  <2>1. PICK n \in 1 .. i + 1 - 1 : ~Grazes(tile, line[n], line[n + 1])
    BY DEF Solid
  <2>2. n \in 1 .. i - 1
    <3>1. n # i
      BY <2>1
    <3> QED BY <2>1, <3>1
  <2> QED BY <2>1, <2>2 DEF Solid
<1>4. Underway(tile, line, i, w, line[i], s) /\ Side(w) = Class(tile, line[i])
  BY DEF Stands
<1> HIDE DEF s, t
<1>5. Reaches(tile, line, i, v, t)
  BY <1>1, <1>2, <1>3, <1>4, SegmentWalks
<1> QED
  BY <1>5 DEF Stands, Reaches, t

\* It holds at every vertex of the line.
LEMMA WalkStands ==
    ASSUME NEW tile \in Extent, NEW line \in Seq(Point), Len(line) >= 2, FineLine(tile, line)
    PROVE  \A i \in 1 .. Len(line) : Stands(tile, line, i, Walked(line, tile)[i])
<1> DEFINE f == Walked(line, tile)
           T == {i \in 1 .. Len(line) : ~Stands(tile, line, i, f[i])}
<1>1. Len(line) \in Nat
  BY LenProperties
<1>2. f = [i \in 1 .. Len(line) |-> IF i = 1 THEN Start(line, tile)
                          ELSE WalkSegment(tile, line[i - 1], line[i], f[i - 1])]
  BY <1>1, WalkedIs DEF Along
<1> HIDE DEF f
<1> SUFFICES ASSUME T # {} PROVE FALSE
  BY DEF f
<1>3. T \subseteq Nat
  BY <1>1
<1>4. PICK m \in T : \A k \in T : m <= k
  <2> HIDE DEF T
  <2> QED BY <1>3, Least
<1>5. m \in 1 .. Len(line) /\ ~Stands(tile, line, m, f[m])
  BY <1>4
<1>6. CASE m = 1
  <2>1. f[1] = Start(line, tile)
    BY <1>2, <1>5, <1>6
  <2>2. /\ Underway(tile, line, 1, Start(line, tile), line[1], 0)
        /\ Side(Start(line, tile)) = Class(tile, line[1])
    BY Starts DEF Class
  <2>3. Solid(tile, line, 1) = 0
    BY DEF Solid
  <2> QED BY <1>5, <1>6, <2>1, <2>2, <2>3 DEF Stands
<1>7. CASE m # 1
  <2> DEFINE k == m - 1
  <2>1. k \in 1 .. Len(line) - 1 /\ k \in 1 .. Len(line) /\ k + 1 = m /\ ~(m <= k)
    BY <1>1, <1>5, <1>7
  <2>2. f[m] = WalkSegment(tile, line[k], line[m], f[k])
    BY <1>2, <1>5, <1>7
  <2> HIDE DEF k
  <2>3. Stands(tile, line, k, f[k])
    BY <1>4, <2>1
  <2>4. Stands(tile, line, k + 1, f[m])
    <3>1. f[m] = WalkSegment(tile, line[k], line[k + 1], f[k])
      BY <2>1, <2>2
    <3> QED BY <2>1, <2>3, <3>1, StandsOn
  <2> QED BY <1>5, <2>1, <2>4
<1> QED
  BY <1>6, <1>7

\* The runs that clip_edge_to_tile is left with are the line, cut where it
\* changes sides.
Parted(tile, line, walk, path, side, off, at) ==
    /\ Laid(walk.runs, walk.crossings, path, side, off)
    /\ \A i \in 1 .. Len(walk.runs) : Len(walk.runs[i].line) >= 2
    /\ Sorted(tile, path, side) /\ Trail(line, path, at, Len(line))
    /\ LastOf(path) = line[Len(line)]
    /\ Marks(Solid(tile, line, Len(line)), path, side)

\* The walk, rid of its touches, is such a one.
LEMMA WalkParts ==
    ASSUME NEW tile \in Extent, NEW line \in Seq(Point), Len(line) >= 2, FineLine(tile, line),
           NEW walk, walk = WithoutTouches(Walk(line, tile))
    PROVE  \E path, side, off, at : Parted(tile, line, walk, path, side, off, at)
<1> DEFINE n == Len(line)
           done == Walked(line, tile)[n]
           first == Walk(line, tile)
<1>1. n \in 1 .. Len(line)
  <2>1. Len(line) \in Nat
    BY LenProperties
  <2> QED BY <2>1
<1>2. Stands(tile, line, n, done)
  BY <1>1, WalkStands
<1>3. first = [runs |-> Whole(done), crossings |-> done.crossings]
  BY DEF Walk, Whole, Current
<1>4. PICK path, side, off, at :
          /\ Laid(Whole(done), done.crossings, path, side, off)
          /\ Sorted(tile, path, side) /\ Trail(line, path, at, n) /\ LastOf(path) = line[n]
          /\ Marks(Solid(tile, line, n), path, side)
  BY <1>2 DEF Stands, Underway
<1>5. walk = WithoutTouches(first)
  OBVIOUS
<1> HIDE DEF first
<1>6. PICK ends : /\ Laid(walk.runs, walk.crossings, path, side, ends)
                  /\ \A i \in 1 .. Len(walk.runs) : Len(walk.runs[i].line) >= 2
  BY <1>3, <1>4, <1>5, WithoutTouchesIs
<1>7. Parted(tile, line, walk, path, side, ends, at)
  BY <1>4, <1>6 DEF Parted
<1> QED
  BY <1>7

-----------------------------------------------------------------------------
(* The side of the tile that a line is on                                  *)

\* A point between p and the end of a segment is on the segment, not before p.
LEMMA SubOn ==
    ASSUME NEW a \in Point, NEW b \in Point, NEW p, On(p, a, b), NEW q, On(q, p, b)
    PROVE  On(q, a, b) /\ Place(p, a, b) <= Place(q, a, b)
<1>1. On(b, a, b) /\ Place(b, a, b) \in Int /\ Place(p, a, b) \in Int
  BY EndsOn, PlaceIs
<1>2. Place(p, a, b) <= Place(b, a, b)
  <2>1. CASE a = b
    <3>1. p = b
      <4>1. p.x = a.x /\ p.y = a.y
        BY <2>1, PlaceIs
      <4> QED BY <2>1, <4>1 DEF On, Point
    <3> QED BY <1>1, <3>1
  <2>2. CASE a # b
    BY <2>2, EndsOn, PlaceIs
  <2> QED BY <2>1, <2>2
<1>3. q \in Point /\ Between(q, p, b)
  BY DEF On
<1> QED
  BY <1>1, <1>2, <1>3, PlaceBetween

\* What lies between two points in the tile is in it.
LEMMA InsideConvex ==
    ASSUME NEW tile \in Extent, NEW p \in Point, NEW q \in Point, Inside(tile, p), Inside(tile, q),
           NEW v, On(v, p, q)
    PROVE  Inside(tile, v)
<1>1. /\ p.x \in Int /\ p.y \in Int /\ q.x \in Int /\ q.y \in Int /\ v.x \in Int /\ v.y \in Int
      /\ tile.west \in Int /\ tile.east \in Int /\ tile.south \in Int /\ tile.north \in Int
  BY DEF On, Point, Extent
<1>2. Within(v.x, p.x, q.x) /\ Within(v.y, p.y, q.y)
  BY DEF On, Between
<1> QED
  BY <1>1, <1>2 DEF Within, Inside

\* A segment with both ends in the tile, and no more than a point, is a point.
LEMMA InsideRuns ==
    ASSUME NEW tile, NEW p \in Point, NEW q \in Point, Inside(tile, p), Inside(tile, q),
           Grazes(tile, p, q)
    PROVE  p = q
BY PassEnd DEF Grazes

\* Where a segment of the path lies on the line.
LEMMA TrailOn ==
    ASSUME NEW line \in Seq(Point), NEW path \in Seq(Point), NEW at, NEW i, Trail(line, path, at, i),
           NEW k \in 1 .. Len(path) - 1, NEW n, n = at[k + 1]
    PROVE  /\ n \in 1 .. Len(line) - 1 /\ line[n] \in Point /\ line[n + 1] \in Point
           /\ On(path[k], line[n], line[n + 1]) /\ On(path[k + 1], line[n], line[n + 1])
           /\ Place(path[k], line[n], line[n + 1]) <= Place(path[k + 1], line[n], line[n + 1])
<1>1. Len(path) \in Nat /\ Len(line) \in Nat
  BY LenProperties
<1>2. k \in 1 .. Len(path) /\ k + 1 \in 1 .. Len(path)
  BY <1>1
<1>3. path[k] \in Point /\ path[k + 1] \in Point
  BY <1>2, ElementOfSeq
<1>4. n \in 1 .. Len(line) - 1
  BY <1>2 DEF Trail
<1>5. n \in 1 .. Len(line) /\ n + 1 \in 1 .. Len(line)
  BY <1>1, <1>4
<1>6. line[n] \in Point /\ line[n + 1] \in Point
  BY <1>5, ElementOfSeq
<1>7. Leg(line, path[k], at[k], path[k + 1], n)
  BY DEF Trail
<1>8. On(path[k], line[n], line[n + 1]) /\ On(path[k + 1], path[k], line[n + 1])
  BY <1>3, <1>7 DEF Leg, On
<1>9. /\ On(path[k + 1], line[n], line[n + 1])
      /\ Place(path[k], line[n], line[n + 1]) <= Place(path[k + 1], line[n], line[n + 1])
  BY <1>6, <1>8, SubOn
<1> QED
  BY <1>4, <1>6, <1>8, <1>9

\* A line in the tile; a line outside, with a vertex to show for it; and a line on
\* side s.
InLine(tile, line) == \A k \in 1 .. Len(line) : Inside(tile, line[k])
OutLine(tile, line) ==
    /\ \A k \in 1 .. Len(line) - 1 : Grazes(tile, line[k], line[k + 1])
    /\ \E k \in 1 .. Len(line) : ~Inside(tile, line[k])
Filed(tile, line, s) == (s = 1 => InLine(tile, line)) /\ (s = 0 => OutLine(tile, line))

\* A run of the path whose segments are on one side.
LEMMA RunFiled ==
    ASSUME NEW tile, NEW path, Plain(path), NEW side, Sorted(tile, path, side),
           NEW run, run.line \in Seq(Point), Side(run) \in {0, 1}, Len(run.line) >= 2,
           NEW s \in Nat, NEW e \in 0 .. Len(path) - 1, Block(run, path, side, s, e)
    PROVE  /\ Plain(run.line) /\ Filed(tile, run.line, Side(run))
<1> DEFINE line == run.line
<1>1. /\ Len(path) \in Nat /\ Len(line) \in Nat /\ e \in Nat /\ s <= e /\ Len(line) = e - s + 1
      /\ e <= Len(path) - 1
      /\ \A k \in 1 .. Len(line) : line[k] = path[s + k]
      /\ \A j \in s + 1 .. e : side[j] = Side(run)
  BY PlainFacts, LenProperties DEF Block
<1> HIDE DEF line
<1>2. ASSUME NEW k \in 1 .. Len(line) - 1
      PROVE  /\ s + k \in 1 .. Len(path) - 1 /\ side[s + k] = Side(run)
             /\ line[k] = path[s + k] /\ line[k + 1] = path[s + k + 1]
             /\ Fits(tile, Side(run), line[k], line[k + 1]) /\ line[k] # line[k + 1]
  <2>1. /\ s + k \in 1 .. Len(path) - 1 /\ s + k \in s + 1 .. e
        /\ k \in 1 .. Len(line) /\ k + 1 \in 1 .. Len(line) /\ s + (k + 1) = s + k + 1
    BY <1>1
  <2>2. line[k] = path[s + k] /\ line[k + 1] = path[s + k + 1] /\ side[s + k] = Side(run)
    BY <1>1, <2>1
  <2>3. Fits(tile, side[s + k], path[s + k], path[s + k + 1])
    BY <2>1 DEF Sorted
  <2>4. path[s + k] # path[s + k + 1]
    BY <2>1 DEF Plain
  <2> QED BY <2>1, <2>2, <2>3, <2>4
<1>3. Plain(line)
  BY <1>2 DEF Plain, line
<1>4. Len(line) >= 2
  BY DEF line
<1>5. CASE Side(run) = 1
  <2>1. ASSUME NEW k \in 1 .. Len(line) PROVE Inside(tile, line[k])
    <3>1. CASE k \in 1 .. Len(line) - 1
      BY <1>2, <1>5, <3>1 DEF Fits
    <3>2. CASE k \notin 1 .. Len(line) - 1
      <4> DEFINE j == k - 1
      <4>1. j \in 1 .. Len(line) - 1 /\ j + 1 = k
        BY <1>1, <1>4, <3>2
      <4> HIDE DEF j
      <4>2. Inside(tile, line[j + 1])
        BY <1>2, <1>5, <4>1 DEF Fits
      <4> QED BY <4>1, <4>2
    <3> QED BY <3>1, <3>2
  <2> QED BY <1>3, <1>5, <2>1 DEF Filed, InLine, line
<1>6. CASE Side(run) = 0
  <2>1. \A k \in 1 .. Len(line) - 1 : Grazes(tile, line[k], line[k + 1])
    BY <1>2, <1>6 DEF Fits
  <2>2. 1 \in 1 .. Len(line) - 1 /\ 1 \in 1 .. Len(line) /\ 1 + 1 \in 1 .. Len(line)
    BY <1>1, <1>4
  <2>3. ~Inside(tile, line[1]) \/ ~Inside(tile, line[1 + 1])
    <3>1. line[1] \in Point /\ line[1 + 1] \in Point
      BY <1>3, <2>2, PlainFacts
    <3>2. line[1] # line[1 + 1] /\ Grazes(tile, line[1], line[1 + 1])
      BY <1>2, <2>1, <2>2
    <3> QED BY <3>1, <3>2, InsideRuns
  <2>4. \E k \in 1 .. Len(line) : ~Inside(tile, line[k])
    BY <2>2, <2>3
  <2> QED BY <1>3, <1>6, <2>1, <2>4 DEF Filed, OutLine, line
<1> QED
  BY <1>5, <1>6

-----------------------------------------------------------------------------
(* Lines that are not cut                                                  *)

\* None or one.
LEMMA UpToOne ==
    ASSUME NEW n \in Nat, n <= 1
    PROVE  n = 0 \/ n = 1
OBVIOUS

\* One element is not none.
LEMMA NotEmpty ==
    ASSUME NEW r, Len(r) = 1
    PROVE  r # <<>>
OBVIOUS

\* What the number of runs says of the sides of the path.
Visits(line, path) == \A k \in 1 .. Len(line) : \E m \in 1 .. Len(path) : path[m] = line[k]
OneSided(runs, path, side) ==
    /\ runs # <<>> /\ runs[1] \in Run /\ Len(path) >= 2
    /\ \A j \in 1 .. Len(path) - 1 : side[j] = Side(runs[1])
TwoSided(path, side) == \E j, k \in 1 .. Len(path) - 1 : side[j] # side[k]
NoRun(runs, path) == runs = <<>> /\ Len(path) = 1
Facts(line, runs, path, side) ==
    /\ Len(runs) \in Nat /\ runs \in Seq(Run) /\ Plain(path)
    /\ Len(path) \in Nat /\ Len(path) >= 1 /\ path \in Seq(Point)
    /\ side \in [1 .. Len(path) - 1 -> {0, 1}]
    /\ Visits(line, path) /\ path[1] = line[1]
Counts(runs, path, side) ==
    /\ (Len(runs) = 0 => NoRun(runs, path))
    /\ (Len(runs) = 1 => OneSided(runs, path, side))
    /\ (Len(runs) >= 2 => TwoSided(path, side))

\* None are a path of a vertex, one is a path on one side, and two or more are a
\* path with both.
LEMMA PartedIs ==
    ASSUME NEW tile, NEW line \in Seq(Point), Len(line) >= 2,
           NEW walk, NEW path, NEW side, NEW off, NEW at,
           Parted(tile, line, walk, path, side, off, at)
    PROVE  Facts(line, walk.runs, path, side) /\ Counts(walk.runs, path, side)
<1> DEFINE runs == walk.runs
<1>1. /\ Len(runs) \in Nat /\ runs \in Seq(Run) /\ Plain(path)
      /\ path \in Seq(Point) /\ Len(path) \in Nat /\ Len(path) >= 1
      /\ side \in [1 .. Len(path) - 1 -> {0, 1}]
      /\ off \in [0 .. Len(runs) -> 0 .. Len(path) - 1]
      /\ off[0] = 0 /\ off[Len(runs)] = Len(path) - 1
      /\ \A i \in 1 .. Len(runs) : Block(runs[i], path, side, off[i - 1], off[i])
      /\ \A i \in 1 .. Len(runs) - 1 : Side(runs[i + 1]) = 1 - Side(runs[i])
  BY LaidIs DEF Parted
<1>2. \A i \in 1 .. Len(runs) : Len(runs[i].line) >= 2
  BY DEF Parted
<1>3. Len(line) \in Nat
  BY LenProperties
<1>4. Visits(line, path) /\ path[1] = line[1]
  BY DEF Parted, Trail, Visits
<1>5. ASSUME NEW i \in 1 .. Len(runs)
      PROVE  /\ off[i - 1] \in 0 .. Len(path) - 1 /\ off[i] \in 0 .. Len(path) - 1
             /\ off[i - 1] + 1 <= off[i]
             /\ \A j \in off[i - 1] + 1 .. off[i] : side[j] = Side(runs[i])
  <2>1. i - 1 \in 0 .. Len(runs) /\ i \in 0 .. Len(runs)
    BY <1>1
  <2>2. off[i - 1] \in 0 .. Len(path) - 1 /\ off[i] \in 0 .. Len(path) - 1
    BY <1>1, <2>1
  <2>3. /\ off[i - 1] <= off[i] /\ Len(runs[i].line) = off[i] - off[i - 1] + 1
        /\ \A j \in off[i - 1] + 1 .. off[i] : side[j] = Side(runs[i])
    BY <1>1 DEF Block
  <2> DEFINE s == off[i - 1]
             e == off[i]
  <2>4. s \in Int /\ e \in Int /\ e - s + 1 >= 2
    BY <1>2, <2>2, <2>3
  <2> HIDE DEF s, e
  <2>5. s + 1 <= e
    BY <2>4
  <2> QED BY <2>2, <2>3, <2>5 DEF s, e
<1> HIDE DEF runs
<1>6. ASSUME Len(runs) = 0 PROVE NoRun(runs, path)
  <2>1. 0 = Len(path) - 1 /\ Len(path) \in Nat
    BY <1>1, <1>6
  <2>2. Len(path) = 1
    BY <2>1
  <2>3. runs = <<>>
    BY <1>1, <1>6, EmptySeq
  <2> QED BY <2>2, <2>3 DEF NoRun
<1>7. ASSUME Len(runs) = 1 PROVE OneSided(runs, path, side)
  <2>1. 1 \in 1 .. Len(runs) /\ 1 - 1 = 0
    BY <1>7
  <2>2. off[0] + 1 <= off[1] /\ \A j \in off[0] + 1 .. off[1] : side[j] = Side(runs[1])
    BY <1>5, <2>1
  <2>3. off[0] = 0 /\ off[1] = Len(path) - 1 /\ 0 + 1 = 1
    BY <1>1, <1>7
  <2>4. runs[1] \in Run
    BY <1>1, <2>1, ElementOfSeq
  <2>5. runs # <<>>
    BY <1>7, NotEmpty
  <2>6. Len(path) >= 2 /\ \A j \in 1 .. Len(path) - 1 : side[j] = Side(runs[1])
    BY <1>1, <2>2, <2>3
  <2> QED BY <2>4, <2>5, <2>6 DEF OneSided
<1>8. ASSUME Len(runs) >= 2 PROVE TwoSided(path, side)
  <2>1. 1 \in 1 .. Len(runs) /\ 2 \in 1 .. Len(runs) /\ 1 \in 1 .. Len(runs) - 1
        /\ 2 - 1 = 1 /\ 1 - 1 = 0 /\ 1 + 1 = 2
    BY <1>1, <1>8
  <2>2. Side(runs[2]) = 1 - Side(runs[1])
    BY <1>1, <2>1
  <2>3. /\ off[0] \in 0 .. Len(path) - 1 /\ off[1] \in 0 .. Len(path) - 1
        /\ off[0] + 1 <= off[1]
        /\ \A j \in off[0] + 1 .. off[1] : side[j] = Side(runs[1])
    BY <1>5, <2>1
  <2>4. /\ off[2] \in 0 .. Len(path) - 1 /\ off[1] + 1 <= off[2]
        /\ \A j \in off[1] + 1 .. off[2] : side[j] = Side(runs[2])
    BY <1>5, <2>1
  <2> DEFINE j == off[0] + 1
             k == off[1] + 1
  <2>5. /\ j \in 1 .. Len(path) - 1 /\ j \in off[0] + 1 .. off[1]
        /\ k \in 1 .. Len(path) - 1 /\ k \in off[1] + 1 .. off[2]
    BY <1>1, <2>3, <2>4
  <2>6. side[j] = Side(runs[1]) /\ side[k] = Side(runs[2])
    BY <2>3, <2>4, <2>5
  <2>7. Side(runs[1]) \in {0, 1}
    BY DEF Side
  <2> HIDE DEF j, k
  <2>8. side[j] # side[k]
    BY <2>2, <2>6, <2>7
  <2> QED BY <2>5, <2>8 DEF TwoSided
<1>9. Facts(line, runs, path, side)
  BY <1>1, <1>4 DEF Facts
<1>10. Counts(runs, path, side)
  BY <1>6, <1>7, <1>8 DEF Counts
<1> QED
  BY <1>9, <1>10 DEF runs

\* The flag of a line that is not cut.
Flag(tile, line, walk) ==
    IF walk.runs = <<>> THEN Class(tile, line[1]) ELSE Side(walk.runs[1])

\* A line whose walk is left with one run, or none, is on the side of its flag.
LEMMA OneRun ==
    ASSUME NEW tile \in Extent, NEW line \in Seq(Point), Len(line) >= 2,
           NEW walk, NEW path, NEW side, NEW off, NEW at,
           Parted(tile, line, walk, path, side, off, at), Len(walk.runs) <= 1
    PROVE  Filed(tile, line, Flag(tile, line, walk))
<1>0. Counts(walk.runs, path, side)
  BY PartedIs
<1>1. /\ Len(walk.runs) \in Nat /\ walk.runs \in Seq(Run) /\ Plain(path)
      /\ Len(path) \in Nat /\ Len(path) >= 1 /\ path \in Seq(Point)
      /\ Visits(line, path) /\ path[1] = line[1]
  <2>1. Facts(line, walk.runs, path, side)
    BY PartedIs
  <2> QED BY <2>1 DEF Facts
<1>2. Len(line) \in Nat /\ \A k \in 1 .. Len(line) : line[k] \in Point
  BY LenProperties, ElementOfSeq
<1>3. Sorted(tile, path, side) /\ Trail(line, path, at, Len(line))
      /\ Marks(Solid(tile, line, Len(line)), path, side)
  BY DEF Parted
<1>4. CASE Len(walk.runs) = 0
  <2>1. walk.runs = <<>> /\ Len(path) = 1
    BY <1>4, <1>0 DEF Counts, NoRun
  <2>2. \A k \in 1 .. Len(line) : line[k] = line[1]
    <3>1. \A m \in 1 .. Len(path) : path[m] = line[1]
      BY <1>1, <2>1
    <3> QED BY <1>1, <3>1 DEF Visits
  <2>3. 1 \in 1 .. Len(line)
    BY <1>2
  <2>4. CASE Inside(tile, line[1])
    <3>1. InLine(tile, line)
      BY <2>2, <2>4 DEF InLine
    <3>2. Flag(tile, line, walk) = 1
      BY <2>1, <2>4 DEF Flag, Class
    <3> QED BY <3>1, <3>2 DEF Filed
  <2>5. CASE ~Inside(tile, line[1])
    <3>1. \A k \in 1 .. Len(line) - 1 : Grazes(tile, line[k], line[k + 1])
      <4> SUFFICES ASSUME NEW k \in 1 .. Len(line) - 1 PROVE Grazes(tile, line[k], line[k + 1])
        OBVIOUS
      <4>1. k \in 1 .. Len(line) /\ k + 1 \in 1 .. Len(line)
        BY <1>2
      <4>2. line[k] = line[1] /\ line[k + 1] = line[1] /\ line[1] \in Point
        BY <1>2, <2>2, <2>3, <4>1
      <4> QED BY <4>2, PointGrazes
    <3>2. Flag(tile, line, walk) = 0
      BY <2>1, <2>5 DEF Flag, Class
    <3> QED BY <2>3, <2>5, <3>1, <3>2 DEF Filed, OutLine
  <2> QED BY <2>4, <2>5
<1>5. CASE Len(walk.runs) = 1
  <2>1. /\ walk.runs # <<>> /\ walk.runs[1] \in Run /\ Len(path) >= 2
        /\ \A j \in 1 .. Len(path) - 1 : side[j] = Side(walk.runs[1])
    BY <1>5, <1>0 DEF Counts, OneSided
  <2> DEFINE s == Side(walk.runs[1])
  <2>2. Flag(tile, line, walk) = s /\ s \in {0, 1}
    BY <2>1 DEF Flag, Side
  <2>3. \A j \in 1 .. Len(path) - 1 : Fits(tile, s, path[j], path[j + 1])
    <3> SUFFICES ASSUME NEW j \in 1 .. Len(path) - 1 PROVE Fits(tile, s, path[j], path[j + 1])
      OBVIOUS
    <3>1. Fits(tile, side[j], path[j], path[j + 1])
      BY <1>3 DEF Sorted
    <3>2. side[j] = s
      BY <2>1
    <3> QED BY <3>1, <3>2
  <2> HIDE DEF s
  <2>4. CASE s = 1
    <3>1. \A m \in 1 .. Len(path) : Inside(tile, path[m])
      <4> SUFFICES ASSUME NEW m \in 1 .. Len(path) PROVE Inside(tile, path[m])
        OBVIOUS
      <4>1. CASE m \in 1 .. Len(path) - 1
        BY <2>3, <2>4, <4>1 DEF Fits
      <4>2. CASE m \notin 1 .. Len(path) - 1
        <5> DEFINE j == m - 1
        <5>1. j \in 1 .. Len(path) - 1 /\ j + 1 = m
          BY <1>1, <2>1, <4>2
        <5> HIDE DEF j
        <5>2. Inside(tile, path[j + 1])
          BY <2>3, <2>4, <5>1 DEF Fits
        <5> QED BY <5>1, <5>2
      <4> QED BY <4>1, <4>2
    <3>2. InLine(tile, line)
      BY <1>1, <3>1 DEF InLine, Visits
    <3> QED BY <2>2, <2>4, <3>2 DEF Filed
  <2>5. CASE s = 0
    <3>1. \A k \in 1 .. Len(line) - 1 : Grazes(tile, line[k], line[k + 1])
      <4>1. ~ \E j \in 1 .. Len(path) - 1 : side[j] = 1
        BY <2>1, <2>5 DEF s
      <4>2. Solid(tile, line, Len(line)) # 1
        BY <1>3, <4>1 DEF Marks
      <4> QED BY <4>2 DEF Solid
    <3>2. \E k \in 1 .. Len(line) : ~Inside(tile, line[k])
      <4> SUFFICES ASSUME \A k \in 1 .. Len(line) : Inside(tile, line[k]) PROVE FALSE
        OBVIOUS
      <4>1. 1 \in 1 .. Len(path) - 1
        BY <1>1, <2>1
      <4> DEFINE n == at[1 + 1]
      <4>2. /\ n \in 1 .. Len(line) - 1 /\ line[n] \in Point /\ line[n + 1] \in Point
            /\ On(path[1], line[n], line[n + 1]) /\ On(path[1 + 1], line[n], line[n + 1])
        BY <1>1, <1>3, <4>1, TrailOn
      <4>3. Inside(tile, line[n]) /\ Inside(tile, line[n + 1])
        <5>1. n \in 1 .. Len(line) /\ n + 1 \in 1 .. Len(line)
          BY <1>2, <4>2
        <5> QED BY <5>1
      <4>4. Inside(tile, path[1]) /\ Inside(tile, path[1 + 1])
        BY <4>2, <4>3, InsideConvex
      <4>5. Grazes(tile, path[1], path[1 + 1])
        BY <2>3, <2>5, <4>1 DEF Fits
      <4>6. path[1] = path[1 + 1]
        BY <4>2, <4>4, <4>5, InsideRuns DEF On
      <4> QED BY <1>1, <4>1, <4>6 DEF Plain
    <3> QED BY <2>2, <2>5, <3>1, <3>2 DEF Filed, OutLine
  <2> QED BY <2>2, <2>4, <2>5
<1>6. Len(walk.runs) = 0 \/ Len(walk.runs) = 1
  <2>1. Len(walk.runs) \in Nat
    BY <1>1
  <2>2. Len(walk.runs) <= 1
    OBVIOUS
  <2> QED BY <2>1, <2>2, UpToOne
<1> QED
  BY <1>4, <1>5, <1>6

\* A line that is on one side has no more than one run, and keeps its flag.
LEMMA KeptWhole ==
    ASSUME NEW tile \in Extent, NEW line \in Seq(Point), Len(line) >= 2,
           NEW s \in {0, 1}, Filed(tile, line, s),
           NEW walk, NEW path, NEW side, NEW off, NEW at,
           Parted(tile, line, walk, path, side, off, at)
    PROVE  Len(walk.runs) <= 1 /\ Flag(tile, line, walk) = s
<1>0. Counts(walk.runs, path, side)
  BY PartedIs
<1>1. /\ Len(walk.runs) \in Nat /\ walk.runs \in Seq(Run) /\ Plain(path)
      /\ Len(path) \in Nat /\ Len(path) >= 1 /\ path \in Seq(Point)
      /\ side \in [1 .. Len(path) - 1 -> {0, 1}]
      /\ Visits(line, path) /\ path[1] = line[1]
  <2>1. Facts(line, walk.runs, path, side)
    BY PartedIs
  <2> QED BY <2>1 DEF Facts
<1>2. Len(line) \in Nat /\ \A k \in 1 .. Len(line) : line[k] \in Point
  BY LenProperties, ElementOfSeq
<1>3. Sorted(tile, path, side) /\ Trail(line, path, at, Len(line))
  BY DEF Parted
<1>4. \A j \in 1 .. Len(path) - 1 : side[j] = s
  <2> SUFFICES ASSUME NEW j \in 1 .. Len(path) - 1, side[j] # s PROVE FALSE
    OBVIOUS
  <2> DEFINE n == at[j + 1]
             p == path[j]
             q == path[j + 1]
  <2>1. /\ n \in 1 .. Len(line) - 1 /\ line[n] \in Point /\ line[n + 1] \in Point
        /\ On(p, line[n], line[n + 1]) /\ On(q, line[n], line[n + 1])
    BY <1>1, <1>3, TrailOn
  <2>2. Fits(tile, side[j], p, q)
    BY <1>3 DEF Sorted
  <2>3. p # q /\ p \in Point /\ q \in Point
    BY <1>1, <2>1 DEF Plain, On
  <2>4. side[j] \in {0, 1}
    BY <1>1
  <2> HIDE DEF p, q, n
  <2>5. CASE s = 1
    <3>1. Grazes(tile, p, q)
      BY <2>2, <2>4, <2>5 DEF Fits
    <3>2. Inside(tile, line[n]) /\ Inside(tile, line[n + 1])
      <4>1. n \in 1 .. Len(line) /\ n + 1 \in 1 .. Len(line)
        BY <1>2, <2>1
      <4> QED BY <2>5, <4>1 DEF Filed, InLine
    <3>3. Inside(tile, p) /\ Inside(tile, q)
      BY <2>1, <3>2, InsideConvex
    <3> QED BY <2>3, <3>1, <3>3, InsideRuns
  <2>6. CASE s = 0
    <3>1. Inside(tile, p) /\ Inside(tile, q)
      BY <2>2, <2>4, <2>6 DEF Fits
    <3>2. Grazes(tile, line[n], line[n + 1])
      BY <2>1, <2>6 DEF Filed, OutLine
    <3>3. p = q
      BY <2>1, <2>3, <3>1, <3>2 DEF Grazes, On
    <3> QED BY <2>3, <3>3
  <2> QED BY <2>5, <2>6
<1>5. Len(walk.runs) <= 1
  <2>1. CASE Len(walk.runs) >= 2
    <3>1. PICK j, k \in 1 .. Len(path) - 1 : side[j] # side[k]
      BY <2>1, <1>0 DEF Counts, TwoSided
    <3> QED BY <1>4, <3>1
  <2> QED BY <1>1, <2>1
<1>6. CASE Len(walk.runs) = 1
  <2>1. /\ walk.runs # <<>> /\ Len(path) >= 2
        /\ \A j \in 1 .. Len(path) - 1 : side[j] = Side(walk.runs[1])
    BY <1>6, <1>0 DEF Counts, OneSided
  <2>2. 1 \in 1 .. Len(path) - 1
    BY <1>1, <2>1
  <2>3. Side(walk.runs[1]) = s
    BY <1>4, <2>1, <2>2
  <2> QED BY <1>5, <2>1, <2>3 DEF Flag
<1>7. CASE Len(walk.runs) = 0
  <2>1. walk.runs = <<>> /\ Len(path) = 1
    BY <1>7, <1>0 DEF Counts, NoRun
  <2>2. \A k \in 1 .. Len(line) : line[k] = line[1]
    <3>1. \A m \in 1 .. Len(path) : path[m] = line[1]
      BY <1>1, <2>1
    <3> QED BY <1>1, <3>1 DEF Visits
  <2>3. 1 \in 1 .. Len(line)
    BY <1>2
  <2>4. CASE s = 1
    <3>1. Inside(tile, line[1])
      BY <2>3, <2>4 DEF Filed, InLine
    <3> QED BY <1>5, <2>1, <2>4, <3>1 DEF Flag, Class
  <2>5. CASE s = 0
    <3>1. ~Inside(tile, line[1])
      BY <2>2, <2>5 DEF Filed, OutLine
    <3> QED BY <1>5, <2>1, <2>5, <3>1 DEF Flag, Class
  <2> QED BY <2>4, <2>5
<1>8. Len(walk.runs) = 0 \/ Len(walk.runs) = 1
  <2>1. Len(walk.runs) \in Nat
    BY <1>1
  <2> QED BY <1>5, <2>1, UpToOne
<1> QED
  BY <1>6, <1>7, <1>8

-----------------------------------------------------------------------------
(* Segments of segments                                                    *)

\* Betweenness does not depend on the order of the ends.
LEMMA Swapped ==
    ASSUME NEW p \in Point, NEW q \in Point, NEW v \in Point, Between(v, p, q)
    PROVE  Between(v, q, p)
<1>1. /\ p.x \in Int /\ p.y \in Int /\ q.x \in Int /\ q.y \in Int /\ v.x \in Int /\ v.y \in Int
  BY DEF Point
<1>2. Within(v.x, q.x, p.x) /\ Within(v.y, q.y, p.y)
  BY DEF Between, Within
<1> DEFINE e == q.x - p.x
           f == q.y - p.y
           g == v.x - p.x
           h == v.y - p.y
<1>3. e \in Int /\ f \in Int /\ g \in Int /\ h \in Int
  BY <1>1
<1>4. g * f = h * e
  BY DEF Between
<1>5. /\ v.x - q.x = g - e /\ v.y - q.y = h - f /\ p.x - q.x = 0 - e /\ p.y - q.y = 0 - f
  BY <1>1
<1> HIDE DEF e, f, g, h
<1>6. (g - e) * (0 - f) = (h - f) * (0 - e)
  <2>1. (g - e) * (0 - f) = e * f - g * f
    BY <1>3
  <2>2. (h - f) * (0 - e) = e * f - h * e
    BY <1>3
  <2> QED BY <1>3, <1>4, <2>1, <2>2
<1> QED
  BY <1>2, <1>5, <1>6 DEF Between

\* Between two points of a segment is on the segment.
LEMMA MidOn ==
    ASSUME NEW a \in Point, NEW b \in Point, NEW p, On(p, a, b), NEW q, On(q, a, b),
           NEW v, On(v, p, q)
    PROVE  On(v, a, b)
<1>1. p \in Point /\ q \in Point /\ v \in Point /\ Between(v, p, q)
  BY DEF On
<1>2. Between(v, q, p)
  BY <1>1, Swapped
<1>3. Place(p, a, b) \in Int /\ Place(q, a, b) \in Int
  BY PlaceIs
<1>4. CASE Place(p, a, b) <= Place(q, a, b)
  BY <1>1, <1>4, PlaceBetween
<1>5. CASE Place(q, a, b) <= Place(p, a, b)
  BY <1>1, <1>2, <1>5, PlaceBetween
<1> QED
  BY <1>3, <1>4, <1>5

\* The end of a segment is the last of its points.
LEMMA PlaceLast ==
    ASSUME NEW a \in Point, NEW b \in Point, NEW p, On(p, a, b)
    PROVE  On(b, a, b) /\ Place(p, a, b) <= Place(b, a, b)
<1>1. p \in Point /\ On(b, p, b) /\ On(b, a, b)
  BY EndsOn DEF On
<1> QED
  BY <1>1, SubOn

\* A step inside a step is a step along the same segment.
LEMMA NestLeg ==
    ASSUME NEW a \in Point, NEW b \in Point, NEW p, On(p, a, b), NEW q, On(q, p, b),
           NEW u, On(u, p, q), NEW v, On(v, u, q)
    PROVE  On(u, a, b) /\ On(v, u, b)
<1>1. On(q, a, b) /\ Place(p, a, b) <= Place(q, a, b)
  BY SubOn
<1>2. u \in Point /\ v \in Point /\ Between(u, p, q) /\ Between(v, u, q)
  BY DEF On
<1>3. On(u, a, b) /\ Place(u, a, b) <= Place(q, a, b)
  BY <1>1, <1>2, PlaceBetween
<1>4. On(v, a, b) /\ Place(u, a, b) <= Place(v, a, b)
  BY <1>1, <1>2, <1>3, PlaceBetween
<1>5. On(b, a, b) /\ Place(u, a, b) <= Place(b, a, b) /\ Place(v, a, b) <= Place(b, a, b)
  BY <1>3, <1>4, PlaceLast
<1>6. Between(v, u, b)
  BY <1>2, <1>3, <1>4, <1>5, PlaceBetween
<1> QED
  BY <1>2, <1>3, <1>6 DEF On

\* A part of a segment that grazes the tile grazes it.
LEMMA GrazesSub ==
    ASSUME NEW tile, NEW a \in Point, NEW b \in Point, Grazes(tile, a, b),
           NEW p, On(p, a, b), NEW q, On(q, a, b)
    PROVE  Grazes(tile, p, q)
<1> SUFFICES ASSUME NEW u \in Point, NEW v \in Point, Between(u, p, q), Inside(tile, u),
                    Between(v, p, q), Inside(tile, v)
             PROVE  u = v
  BY DEF Grazes
<1>1. On(u, a, b) /\ On(v, a, b)
  BY MidOn DEF On
<1> QED
  BY <1>1 DEF Grazes, On

\* What lies between two points of a segment by one coordinate does by both.
LEMMA CrossX ==
    ASSUME NEW a \in Point, NEW b \in Point, NEW p, On(p, a, b), NEW q, On(q, a, b),
           NEW r, On(r, a, b), Within(r.x, p.x, q.x), p.x # q.x
    PROVE  On(r, p, q)
<1>1. /\ a.x \in Int /\ b.x \in Int /\ p.x \in Int /\ q.x \in Int /\ r.x \in Int
      /\ a.y \in Int /\ b.y \in Int /\ p \in Point /\ q \in Point /\ r \in Point
  BY DEF On, Point
<1> DEFINE n == Span(b.y - a.y)
           f(c) == Off(c, a.x, b.x)
<1>2. a.x # b.x
  <2>1. Within(p.x, a.x, b.x) /\ Within(q.x, a.x, b.x)
    BY DEF On, Between
  <2> QED BY <1>1, <2>1 DEF Within
<1>3. /\ f(p.x) \in Int /\ f(q.x) \in Int /\ f(r.x) \in Int /\ n \in Int /\ n >= 1
  <2>1. f(p.x) \in Int /\ f(q.x) \in Int /\ f(r.x) \in Int
    BY <1>1 DEF Off
  <2>2. b.y - a.y \in Int
    BY <1>1
  <2> DEFINE d == b.y - a.y
  <2> HIDE DEF d
  <2>3. Span(d) \in Int /\ Span(d) >= 1
    BY <2>2 DEF Span, Magnitude, d
  <2> QED BY <2>1, <2>3 DEF d
<1>4. Within(f(r.x), f(p.x), f(q.x))
  BY <1>1, OffIs
<1>5. /\ Place(p, a, b) = f(p.x) * n /\ Place(q, a, b) = f(q.x) * n
      /\ Place(r, a, b) = f(r.x) * n
  BY <1>2 DEF Place
<1> HIDE DEF n, f
<1>6. \/ Place(p, a, b) <= Place(r, a, b) /\ Place(r, a, b) <= Place(q, a, b)
      \/ Place(q, a, b) <= Place(r, a, b) /\ Place(r, a, b) <= Place(p, a, b)
  <2>1. ASSUME NEW c \in Int, NEW d \in Int, c <= d PROVE c * n <= d * n
    BY <1>3, <2>1
  <2> QED BY <1>3, <1>4, <1>5, <2>1 DEF Within
<1>7. Place(p, a, b) \in Int /\ Place(q, a, b) \in Int /\ Place(r, a, b) \in Int
  BY PlaceIs
<1>8. CASE Place(p, a, b) <= Place(r, a, b) /\ Place(r, a, b) <= Place(q, a, b)
  <2>1. Place(p, a, b) <= Place(q, a, b)
    BY <1>7, <1>8
  <2> QED BY <1>1, <1>8, <2>1, PlaceBetween DEF On
<1>9. CASE Place(q, a, b) <= Place(r, a, b) /\ Place(r, a, b) <= Place(p, a, b)
  <2>1. Place(q, a, b) <= Place(p, a, b)
    BY <1>7, <1>9
  <2>2. Between(r, q, p)
    BY <1>1, <1>9, <2>1, PlaceBetween
  <2> QED BY <1>1, <2>2, Swapped DEF On
<1> QED
  BY <1>6, <1>8, <1>9

\* The same by the other coordinate.
LEMMA CrossY ==
    ASSUME NEW a \in Point, NEW b \in Point, NEW p, On(p, a, b), NEW q, On(q, a, b),
           NEW r, On(r, a, b), Within(r.y, p.y, q.y), p.y # q.y
    PROVE  On(r, p, q)
<1>1. /\ a.x \in Int /\ b.x \in Int /\ p.y \in Int /\ q.y \in Int /\ r.y \in Int
      /\ a.y \in Int /\ b.y \in Int /\ p \in Point /\ q \in Point /\ r \in Point
  BY DEF On, Point
<1> DEFINE n == Span(b.x - a.x)
           f(c) == Off(c, a.y, b.y)
<1>2. a.y # b.y
  <2>1. Within(p.y, a.y, b.y) /\ Within(q.y, a.y, b.y)
    BY DEF On, Between
  <2> QED BY <1>1, <2>1 DEF Within
<1>3. /\ f(p.y) \in Int /\ f(q.y) \in Int /\ f(r.y) \in Int /\ n \in Int /\ n >= 1
  <2>1. f(p.y) \in Int /\ f(q.y) \in Int /\ f(r.y) \in Int
    BY <1>1 DEF Off
  <2>2. b.x - a.x \in Int
    BY <1>1
  <2> DEFINE d == b.x - a.x
  <2> HIDE DEF d
  <2>3. Span(d) \in Int /\ Span(d) >= 1
    BY <2>2 DEF Span, Magnitude, d
  <2> QED BY <2>1, <2>3 DEF d
<1>4. Within(f(r.y), f(p.y), f(q.y))
  BY <1>1, OffIs
<1>5. /\ Place(p, a, b) = f(p.y) * n /\ Place(q, a, b) = f(q.y) * n
      /\ Place(r, a, b) = f(r.y) * n
  BY <1>2, PlaceIs
<1> HIDE DEF n, f
<1>6. \/ Place(p, a, b) <= Place(r, a, b) /\ Place(r, a, b) <= Place(q, a, b)
      \/ Place(q, a, b) <= Place(r, a, b) /\ Place(r, a, b) <= Place(p, a, b)
  <2>1. ASSUME NEW c \in Int, NEW d \in Int, c <= d PROVE c * n <= d * n
    BY <1>3, <2>1
  <2> QED BY <1>3, <1>4, <1>5, <2>1 DEF Within
<1>7. Place(p, a, b) \in Int /\ Place(q, a, b) \in Int /\ Place(r, a, b) \in Int
  BY PlaceIs
<1>8. CASE Place(p, a, b) <= Place(r, a, b) /\ Place(r, a, b) <= Place(q, a, b)
  <2>1. Place(p, a, b) <= Place(q, a, b)
    BY <1>7, <1>8
  <2> QED BY <1>1, <1>8, <2>1, PlaceBetween DEF On
<1>9. CASE Place(q, a, b) <= Place(r, a, b) /\ Place(r, a, b) <= Place(p, a, b)
  <2>1. Place(q, a, b) <= Place(p, a, b)
    BY <1>7, <1>9
  <2>2. Between(r, q, p)
    BY <1>1, <1>9, <2>1, PlaceBetween
  <2> QED BY <1>1, <2>2, Swapped DEF On
<1> QED
  BY <1>6, <1>8, <1>9

\* A lattice that is fine enough for a segment is so for its parts.
LEMMA FineSub ==
    ASSUME NEW tile \in Extent, NEW a \in Point, NEW b \in Point, Fine(tile, a, b),
           NEW p, On(p, a, b), NEW q, On(q, a, b)
    PROVE  Fine(tile, p, q)
<1>1. /\ a.x \in Int /\ b.x \in Int /\ p.x \in Int /\ q.x \in Int
      /\ a.y \in Int /\ b.y \in Int /\ p.y \in Int /\ q.y \in Int
      /\ tile.west \in Int /\ tile.east \in Int /\ tile.south \in Int /\ tile.north \in Int
      /\ p \in Point /\ q \in Point
  BY DEF On, Point, Extent
<1>2. On(p, p, q)
  BY <1>1, EndsOn
<1>3. ASSUME NEW side \in {tile.west, tile.east}, Within(side, p.x, q.x)
      PROVE  \E r \in OnSegment(p, q) : r.x = side
  <2>1. CASE p.x = q.x
    <3>1. p.x = side
      BY <1>1, <1>3, <2>1 DEF Within
    <3> QED BY <1>1, <1>2, <3>1, OnSegmentIs
  <2>2. CASE p.x # q.x
    <3>1. Within(p.x, a.x, b.x) /\ Within(q.x, a.x, b.x)
      BY DEF On, Between
    <3>2. Within(side, a.x, b.x)
      BY <1>1, <1>3, <3>1 DEF Within
    <3>3. PICK r \in OnSegment(a, b) : r.x = side
      BY <3>2 DEF Fine
    <3>4. On(r, a, b)
      BY OnSegmentIs
    <3>5. On(r, p, q)
      BY <1>3, <2>2, <3>3, <3>4, CrossX
    <3> QED BY <1>1, <3>3, <3>5, OnSegmentIs
  <2> QED BY <2>1, <2>2
<1>4. ASSUME NEW side \in {tile.south, tile.north}, Within(side, p.y, q.y)
      PROVE  \E r \in OnSegment(p, q) : r.y = side
  <2>1. CASE p.y = q.y
    <3>1. p.y = side
      BY <1>1, <1>4, <2>1 DEF Within
    <3> QED BY <1>1, <1>2, <3>1, OnSegmentIs
  <2>2. CASE p.y # q.y
    <3>1. Within(p.y, a.y, b.y) /\ Within(q.y, a.y, b.y)
      BY DEF On, Between
    <3>2. Within(side, a.y, b.y)
      BY <1>1, <1>4, <3>1 DEF Within
    <3>3. PICK r \in OnSegment(a, b) : r.y = side
      BY <3>2 DEF Fine
    <3>4. On(r, a, b)
      BY OnSegmentIs
    <3>5. On(r, p, q)
      BY <1>4, <2>2, <3>3, <3>4, CrossY
    <3> QED BY <1>1, <3>3, <3>5, OnSegmentIs
  <2> QED BY <2>1, <2>2
<1> QED
  BY <1>3, <1>4 DEF Fine

-----------------------------------------------------------------------------
(* Lines that follow a line                                                *)

\* Line l follows line o by the segments in `by`: it opens at the begin of o, goes
\* on where another ends, or closes at the end of o.
Traced(o, l, by) ==
    /\ by \in [1 .. Len(l) -> 1 .. Len(o) - 1]
    /\ \A k \in 1 .. Len(l) - 1 : Leg(o, l[k], by[k], l[k + 1], by[k + 1])
Opens(o, l, by) == l[1] = o[1] /\ Turn(o, l[1], 1, by[1])
Joint(o, l, by, m, bym) == LastOf(l) = m[1] /\ Turn(o, m[1], by[Len(l)], bym[1])
Closes(o, l, by) == Turn(o, LastOf(l), by[Len(l)], Len(o))

\* The trace of a line along a line along another, and the trace of a line along
\* itself.
Via(by, at, r) == [k \in 1 .. Len(r) |-> by[at[k] + 1]]
Own(l) == [k \in 1 .. Len(l) |-> IF k = 1 THEN 1 ELSE k - 1]

\* The last of two or more is not the first.
LEMMA FromTwo ==
    ASSUME NEW n \in Nat, n >= 2
    PROVE  n \in 1 .. n /\ n # 1
OBVIOUS

\* A turn after a turn is a turn.
LEMMA TurnTurn ==
    ASSUME NEW o, NEW p, NEW a \in Int, NEW b \in Int, NEW c \in Int, Turn(o, p, a, b), Turn(o, p, b, c)
    PROVE  Turn(o, p, a, c)
BY DEF Turn

\* What a line has.
LEMMA LineFacts ==
    ASSUME NEW l \in Seq(Point)
    PROVE  /\ Len(l) \in Nat
           /\ \A k \in 1 .. Len(l) : l[k] \in Point
           /\ \A k \in 1 .. Len(l) - 1 : /\ k \in 1 .. Len(l) /\ k + 1 \in 1 .. Len(l)
                                         /\ l[k] \in Point /\ l[k + 1] \in Point
<1>1. Len(l) \in Nat
  BY LenProperties
<1>2. \A k \in 1 .. Len(l) : l[k] \in Point
  BY ElementOfSeq
<1>3. \A k \in 1 .. Len(l) - 1 : k \in 1 .. Len(l) /\ k + 1 \in 1 .. Len(l)
  BY <1>1
<1> QED
  BY <1>1, <1>2, <1>3

\* A turn along a line that follows another turns along the other.
LEMMA TurnInto ==
    ASSUME NEW o, Len(o) \in Nat, NEW l \in Seq(Point), NEW by, Traced(o, l, by),
           NEW m \in 1 .. Len(l) - 1, NEW n \in 1 .. Len(l) - 1, NEW p, Turn(l, p, m, n)
    PROVE  Turn(o, p, by[m + 1], by[n + 1])
<1> DEFINE T == {x \in m .. n : ~Turn(o, p, by[m + 1], by[x + 1])}
<1>1. Len(l) \in Nat /\ m <= n
  BY LenProperties DEF Turn
<1>2. ASSUME NEW x \in 1 .. Len(l) PROVE by[x] \in Int
  BY <1>2 DEF Traced
<1>9. n \in m .. n
  BY <1>1
<1> SUFFICES ASSUME T # {} PROVE FALSE
  BY <1>9
<1>3. T \subseteq Nat
  BY <1>1
<1>4. PICK x \in T : \A y \in T : x <= y
  <2> HIDE DEF T
  <2> QED BY <1>3, Least
<1>5. x \in m .. n /\ ~Turn(o, p, by[m + 1], by[x + 1])
  BY <1>4
<1>6. CASE x = m
  <2>1. m + 1 \in 1 .. Len(l)
    BY <1>1
  <2>2. by[m + 1] \in Int
    BY <1>2, <2>1
  <2> QED BY <1>5, <1>6, <2>2 DEF Turn
<1>7. CASE x # m
  <2> DEFINE y == x - 1
  <2>1. /\ y \in m .. n /\ y + 1 = x /\ ~(x <= y) /\ x \in 1 .. Len(l) - 1 /\ x \in m + 1 .. n
        /\ m + 1 \in 1 .. Len(l) /\ x \in 1 .. Len(l) /\ x + 1 \in 1 .. Len(l)
    BY <1>1, <1>5, <1>7
  <2> HIDE DEF y
  <2>2. Turn(o, p, by[m + 1], by[y + 1])
    BY <1>4, <2>1
  <2>3. Leg(o, l[x], by[x], l[x + 1], by[x + 1])
    BY <2>1 DEF Traced
  <2>4. l[x] = p
    BY <2>1 DEF Turn
  <2>5. Turn(o, p, by[x], by[x + 1])
    BY <2>3, <2>4 DEF Leg
  <2>6. by[m + 1] \in Int /\ by[x] \in Int /\ by[x + 1] \in Int
    BY <1>2, <2>1
  <2>7. Turn(o, p, by[m + 1], by[x])
    BY <2>1, <2>2
  <2> QED BY <1>5, <2>5, <2>6, <2>7, TurnTurn
<1> QED
  BY <1>6, <1>7

\* Where a segment of a line lies on the line it follows.
LEMMA LegOn ==
    ASSUME NEW l \in Seq(Point), NEW r \in Seq(Point), NEW at, Traced(l, r, at),
           NEW k \in 1 .. Len(r) - 1, NEW n, n = at[k + 1]
    PROVE  /\ n \in 1 .. Len(l) - 1 /\ l[n] \in Point /\ l[n + 1] \in Point
           /\ On(r[k], l[n], l[n + 1]) /\ On(r[k + 1], r[k], l[n + 1])
           /\ On(r[k + 1], l[n], l[n + 1])
           /\ Place(r[k], l[n], l[n + 1]) <= Place(r[k + 1], l[n], l[n + 1])
<1>1. k \in 1 .. Len(r) /\ k + 1 \in 1 .. Len(r) /\ r[k] \in Point /\ r[k + 1] \in Point
  BY LineFacts
<1>2. n \in 1 .. Len(l) - 1
  BY <1>1 DEF Traced
<1>3. l[n] \in Point /\ l[n + 1] \in Point
  BY <1>2, LineFacts
<1>4. Leg(l, r[k], at[k], r[k + 1], n)
  BY DEF Traced
<1>5. On(r[k], l[n], l[n + 1]) /\ On(r[k + 1], r[k], l[n + 1])
  BY <1>1, <1>4 DEF Leg, On
<1>6. /\ On(r[k + 1], l[n], l[n + 1])
      /\ Place(r[k], l[n], l[n + 1]) <= Place(r[k + 1], l[n], l[n + 1])
  BY <1>3, <1>5, SubOn
<1> QED
  BY <1>2, <1>3, <1>5, <1>6

\* A line that follows a line that follows another follows the other.
LEMMA TracedInto ==
    ASSUME NEW o \in Seq(Point), NEW l \in Seq(Point), NEW r \in Seq(Point),
           NEW by, Traced(o, l, by), NEW at, Traced(l, r, at)
    PROVE  Traced(o, r, Via(by, at, r))
<1> DEFINE via == Via(by, at, r)
<1>1. Len(o) \in Nat /\ Len(l) \in Nat /\ Len(r) \in Nat
  BY LenProperties
<1>2. ASSUME NEW k \in 1 .. Len(r)
      PROVE  /\ at[k] \in 1 .. Len(l) - 1 /\ at[k] + 1 \in 1 .. Len(l)
             /\ via[k] = by[at[k] + 1] /\ via[k] \in 1 .. Len(o) - 1
  <2>1. at[k] \in 1 .. Len(l) - 1
    BY DEF Traced
  <2>2. at[k] + 1 \in 1 .. Len(l)
    BY <1>1, <2>1
  <2>3. via[k] = by[at[k] + 1]
    BY DEF Via
  <2>4. by[at[k] + 1] \in 1 .. Len(o) - 1
    BY <2>2 DEF Traced
  <2> QED BY <2>1, <2>2, <2>3, <2>4
<1>3. via \in [1 .. Len(r) -> 1 .. Len(o) - 1]
  BY <1>2 DEF Via
<1>4. ASSUME NEW k \in 1 .. Len(r) - 1
      PROVE  Leg(o, r[k], via[k], r[k + 1], via[k + 1])
  <2> DEFINE m == at[k]
             n == at[k + 1]
             u == by[n + 1]
  <2>1. /\ k \in 1 .. Len(r) /\ k + 1 \in 1 .. Len(r) /\ r[k] \in Point /\ r[k + 1] \in Point
    BY LineFacts
  <2>2. /\ m \in 1 .. Len(l) - 1 /\ n \in 1 .. Len(l) - 1 /\ via[k] = by[m + 1] /\ via[k + 1] = u
        /\ u \in 1 .. Len(o) - 1
    BY <1>2, <2>1
  <2>3. Turn(l, r[k], m, n)
    BY DEF Traced, Leg
  <2>4. Turn(o, r[k], by[m + 1], by[n + 1])
    BY <1>1, <2>2, <2>3, TurnInto
  <2>5. n = at[k + 1]
    OBVIOUS
  <2> HIDE DEF n
  <2>6. On(r[k], l[n], l[n + 1]) /\ On(r[k + 1], r[k], l[n + 1])
    BY <2>5, LegOn
  <2>7. /\ u \in 1 .. Len(o) - 1 /\ o[u] \in Point /\ o[u + 1] \in Point
        /\ On(l[n], o[u], o[u + 1]) /\ On(l[n + 1], l[n], o[u + 1])
    BY <2>2, LegOn
  <2> HIDE DEF m, u
  <2>8. On(r[k], o[u], o[u + 1]) /\ On(r[k + 1], r[k], o[u + 1])
    BY <2>6, <2>7, NestLeg
  <2>9. Turn(o, r[k], via[k], via[k + 1])
    BY <2>2, <2>4 DEF u
  <2> QED BY <2>2, <2>8, <2>9 DEF Leg, On
<1> HIDE DEF via
<1>5. Traced(o, r, via)
  BY <1>3, <1>4 DEF Traced
<1> QED
  BY <1>5 DEF via

\* How the lines that follow a line begin, turn and end along what it follows.
LEMMA OpensInto ==
    ASSUME NEW o \in Seq(Point), NEW l \in Seq(Point), Len(l) >= 2, NEW r \in Seq(Point), Len(r) >= 2,
           NEW by, Traced(o, l, by), NEW at, Traced(l, r, at), Opens(l, r, at)
    PROVE  r[1] = l[1] /\ Turn(o, r[1], by[1], Via(by, at, r)[1])
<1>1. Len(o) \in Nat /\ Len(l) \in Nat /\ Len(r) \in Nat
  BY LenProperties
<1> DEFINE n == at[1]
<1>2. 1 \in 1 .. Len(r) /\ 1 \in 1 .. Len(l) - 1 /\ 1 \in 1 .. Len(l) /\ 2 \in 1 .. Len(l) /\ 1 + 1 = 2
  BY <1>1
<1>3. n \in 1 .. Len(l) - 1
  BY <1>2 DEF Traced
<1>4. Via(by, at, r)[1] = by[n + 1]
  BY <1>2 DEF Via
<1>5. r[1] = l[1] /\ Turn(l, r[1], 1, n)
  BY DEF Opens
<1>6. n + 1 \in 1 .. Len(l)
  BY <1>1, <1>3
<1>7. by[1] \in Int /\ by[2] \in Int /\ by[n + 1] \in Int
  BY <1>2, <1>6 DEF Traced
<1> HIDE DEF n
<1>8. Turn(o, r[1], by[1 + 1], by[n + 1])
  BY <1>1, <1>2, <1>3, <1>5, TurnInto
<1>9. Turn(o, r[1], by[1], by[2])
  <2>1. Leg(o, l[1], by[1], l[1 + 1], by[1 + 1])
    BY <1>2 DEF Traced
  <2> QED BY <1>2, <1>5, <2>1 DEF Leg
<1>10. Turn(o, r[1], by[2], by[n + 1])
  BY <1>2, <1>8
<1> QED
  BY <1>4, <1>5, <1>7, <1>9, <1>10, TurnTurn

\* Two lines that go on from each other along l do so along what l follows.
LEMMA JointInto ==
    ASSUME NEW o \in Seq(Point), NEW l \in Seq(Point),
           NEW r \in Seq(Point), Len(r) >= 2, NEW s \in Seq(Point), Len(s) >= 2,
           NEW by, Traced(o, l, by), NEW at, Traced(l, r, at), NEW as, Traced(l, s, as),
           Joint(l, r, at, s, as)
    PROVE  Joint(o, r, Via(by, at, r), s, Via(by, as, s))
<1>1. Len(o) \in Nat /\ Len(l) \in Nat /\ Len(r) \in Nat /\ Len(s) \in Nat
  BY LenProperties
<1> DEFINE m == at[Len(r)]
           n == as[1]
<1>2. Len(r) \in 1 .. Len(r) /\ 1 \in 1 .. Len(s)
  BY <1>1
<1>3. m \in 1 .. Len(l) - 1 /\ n \in 1 .. Len(l) - 1
  BY <1>2 DEF Traced
<1>4. Via(by, at, r)[Len(r)] = by[m + 1] /\ Via(by, as, s)[1] = by[n + 1]
  BY <1>2 DEF Via
<1>5. LastOf(r) = s[1] /\ Turn(l, s[1], m, n)
  BY DEF Joint
<1> HIDE DEF m, n
<1>6. Turn(o, s[1], by[m + 1], by[n + 1])
  BY <1>1, <1>3, <1>5, TurnInto
<1> QED
  BY <1>4, <1>5, <1>6 DEF Joint

\* A line that closes l ends where l ends, also along what l follows.
LEMMA ClosesInto ==
    ASSUME NEW o \in Seq(Point), NEW l \in Seq(Point), Len(l) >= 2, NEW r \in Seq(Point), Len(r) >= 2,
           NEW by, Traced(o, l, by), NEW at, Traced(l, r, at), Closes(l, r, at)
    PROVE  LastOf(r) = LastOf(l) /\ Turn(o, LastOf(r), Via(by, at, r)[Len(r)], by[Len(l)])
<1>1. Len(o) \in Nat /\ Len(l) \in Nat /\ Len(r) \in Nat
  BY LenProperties
<1> DEFINE m == at[Len(r)]
           n == Len(l) - 1
<1>2. Len(r) \in 1 .. Len(r) /\ n \in 1 .. Len(l) - 1 /\ n + 1 = Len(l)
  BY <1>1
<1>3. m \in 1 .. Len(l) - 1
  BY <1>2 DEF Traced
<1>4. Via(by, at, r)[Len(r)] = by[m + 1]
  BY <1>2 DEF Via
<1>5. Turn(l, LastOf(r), m, Len(l))
  BY DEF Closes
<1> HIDE DEF m
<1>6. Len(l) \in m + 1 .. Len(l) /\ m <= n /\ m + 1 .. n \subseteq m + 1 .. Len(l)
  BY <1>1, <1>3
<1>7. l[Len(l)] = LastOf(r) /\ Turn(l, LastOf(r), m, n)
  BY <1>5, <1>6 DEF Turn
<1> HIDE DEF n
<1>8. Turn(o, LastOf(r), by[m + 1], by[n + 1])
  BY <1>1, <1>2, <1>3, <1>7, TurnInto
<1> QED
  BY <1>2, <1>4, <1>7, <1>8 DEF LastOf

\* The lines, one after the other, are a walk along o.
Tracked(o, lines, at) ==
    /\ lines \in Seq(Seq(Point)) /\ Len(lines) >= 1
    /\ \A i \in 1 .. Len(lines) : Len(lines[i]) >= 2 /\ Traced(o, lines[i], at[i])
    /\ Opens(o, lines[1], at[1])
    /\ \A i \in 1 .. Len(lines) - 1 : Joint(o, lines[i], at[i], lines[i + 1], at[i + 1])
    /\ Closes(o, lines[Len(lines)], at[Len(lines)])

\* A line follows itself.
LEMMA TracedOwn ==
    ASSUME NEW l \in Seq(Point), Len(l) >= 2
    PROVE  /\ Traced(l, l, Own(l)) /\ Opens(l, l, Own(l)) /\ Closes(l, l, Own(l))
<1> DEFINE own == Own(l)
<1>1. Len(l) \in Nat
  BY LenProperties
<1>2. /\ own \in [1 .. Len(l) -> 1 .. Len(l) - 1]
      /\ own[1] = 1
      /\ \A k \in 1 .. Len(l) : k # 1 => own[k] = k - 1
  BY <1>1 DEF Own
<1>3. ASSUME NEW k \in 1 .. Len(l) - 1
      PROVE  Leg(l, l[k], own[k], l[k + 1], own[k + 1])
  <2>1. /\ k \in 1 .. Len(l) /\ k + 1 \in 1 .. Len(l) /\ l[k] \in Point /\ l[k + 1] \in Point
    BY LineFacts
  <2>2. own[k + 1] = k
    <3>1. k + 1 # 1 /\ k + 1 - 1 = k
      BY <1>1
    <3> QED BY <1>2, <2>1, <3>1
  <2>3. Turn(l, l[k], own[k], k)
    <3>1. CASE k = 1
      BY <1>2, <3>1 DEF Turn
    <3>2. CASE k # 1
      <4>1. own[k] = k - 1
        BY <1>2, <2>1, <3>2
      <4>2. k - 1 <= k /\ \A j \in k - 1 + 1 .. k : j = k
        BY <1>1
      <4> QED BY <4>1, <4>2 DEF Turn
    <3> QED BY <3>1, <3>2
  <2>4. Between(l[k], l[k], l[k + 1]) /\ Between(l[k + 1], l[k], l[k + 1])
    BY <2>1, EndsOn DEF On
  <2> QED BY <2>2, <2>3, <2>4 DEF Leg
<1>4. Opens(l, l, own)
  BY <1>2 DEF Opens, Turn
<1>5. Closes(l, l, own)
  <2>1. Len(l) \in 1 .. Len(l) /\ Len(l) # 1
    <3>1. Len(l) >= 2
      OBVIOUS
    <3> QED BY <1>1, <3>1, FromTwo
  <2>2. own[Len(l)] = Len(l) - 1
    BY <1>2, <2>1
  <2>3. Len(l) - 1 <= Len(l) /\ \A j \in Len(l) - 1 + 1 .. Len(l) : j = Len(l)
    BY <1>1
  <2> QED BY <2>2, <2>3 DEF Closes, Turn, LastOf
<1> HIDE DEF own
<1>6. Traced(l, l, own)
  BY <1>2, <1>3 DEF Traced
<1> QED
  BY <1>4, <1>5, <1>6 DEF own

\* A line on its own is a walk along itself.
LEMMA TrackedWhole ==
    ASSUME NEW l \in Seq(Point), Len(l) >= 2, NEW lines, Len(lines) = 1, lines \in Seq(Seq(Point)),
           lines[1] = l, NEW at, at[1] = Own(l)
    PROVE  Tracked(l, lines, at)
<1>1. Traced(l, lines[1], at[1]) /\ Opens(l, lines[1], at[1]) /\ Closes(l, lines[1], at[1])
  BY TracedOwn
<1>2. 1 .. Len(lines) = {1} /\ 1 .. Len(lines) - 1 = {} /\ Len(lines) >= 1
  OBVIOUS
<1> QED
  BY <1>1, <1>2 DEF Tracked

-----------------------------------------------------------------------------
(* The runs follow the line                                                *)

\* A run is a piece of the path, and follows the line as the path does.
PieceAt(at, s, e) == [k \in 1 .. e - s + 1 |-> at[s + k]]

\* Where a piece begins and ends.
LEMMA PieceFacts ==
    ASSUME NEW path \in Seq(Point), NEW s \in Nat, NEW e \in 0 .. Len(path) - 1, s <= e,
           NEW l \in Seq(Point), Piece(l, path, s, e), NEW at
    PROVE  /\ Len(l) = e - s + 1 /\ Len(l) >= 1
           /\ l[1] = path[s + 1] /\ LastOf(l) = path[e + 1]
           /\ PieceAt(at, s, e)[1] = at[s + 1] /\ PieceAt(at, s, e)[Len(l)] = at[e + 1]
<1>1. Len(path) \in Nat /\ e \in Nat
  BY LenProperties
<1>2. Len(l) = e - s + 1 /\ \A k \in 1 .. e - s + 1 : l[k] = path[s + k]
  BY DEF Piece
<1>3. 1 \in 1 .. e - s + 1 /\ e - s + 1 \in 1 .. e - s + 1 /\ s + (e - s + 1) = e + 1 /\ e - s + 1 >= 1
  BY <1>1
<1>4. PieceAt(at, s, e)[1] = at[s + 1] /\ PieceAt(at, s, e)[e - s + 1] = at[e + 1]
  BY <1>3 DEF PieceAt
<1> QED
  BY <1>2, <1>3, <1>4 DEF LastOf

\* A piece of a path that follows the line does so itself.
LEMMA PieceTraced ==
    ASSUME NEW line, Len(line) \in Nat, NEW path \in Seq(Point), NEW at, Traced(line, path, at),
           NEW s \in Nat, NEW e \in 0 .. Len(path) - 1, s <= e,
           NEW l \in Seq(Point), Piece(l, path, s, e)
    PROVE  Traced(line, l, PieceAt(at, s, e))
<1>1. Len(path) \in Nat /\ e \in Nat
  BY LenProperties
<1>2. Len(l) = e - s + 1 /\ \A k \in 1 .. e - s + 1 : l[k] = path[s + k]
  BY DEF Piece
<1>3. \A k \in 1 .. e - s + 1 : s + k \in 1 .. Len(path)
  BY <1>1
<1>4. PieceAt(at, s, e) \in [1 .. e - s + 1 -> 1 .. Len(line) - 1]
  BY <1>3 DEF PieceAt, Traced
<1>5. ASSUME NEW k \in 1 .. (e - s + 1) - 1
      PROVE  Leg(line, l[k], PieceAt(at, s, e)[k], l[k + 1], PieceAt(at, s, e)[k + 1])
  <2> DEFINE j == s + k
  <2>1. /\ j \in 1 .. Len(path) - 1 /\ k \in 1 .. e - s + 1 /\ k + 1 \in 1 .. e - s + 1
        /\ s + (k + 1) = j + 1
    BY <1>1
  <2>2. l[k] = path[j] /\ l[k + 1] = path[j + 1]
    BY <1>2, <2>1
  <2>3. PieceAt(at, s, e)[k] = at[j] /\ PieceAt(at, s, e)[k + 1] = at[j + 1]
    BY <2>1 DEF PieceAt
  <2> HIDE DEF j
  <2>4. Leg(line, path[j], at[j], path[j + 1], at[j + 1])
    BY <2>1 DEF Traced
  <2> QED BY <2>2, <2>3, <2>4
<1> QED
  BY <1>2, <1>4, <1>5 DEF Traced

\* The runs of a line that is cut.
RunLines(runs) == [i \in 1 .. Len(runs) |-> runs[i].line]
Alternates(runs) == \A i \in 1 .. Len(runs) - 1 : Side(runs[i + 1]) = 1 - Side(runs[i])
Nodes(runs) == {runs[i].line[1] : i \in 2 .. Len(runs)}
AllFiled(tile, runs) ==
    \A i \in 1 .. Len(runs) : Filed(tile, runs[i].line, Side(runs[i]))
AllPlain(runs) == \A i \in 1 .. Len(runs) : Plain(runs[i].line)
PartedInto(tile, line, runs) ==
    /\ runs \in Seq(Run) /\ Len(runs) >= 1
    /\ \E at : Tracked(line, RunLines(runs), at)
    /\ AllFiled(tile, runs) /\ Alternates(runs)
    /\ (Len(runs) = 1 /\ runs[1].line = line) \/ (Len(runs) >= 2 /\ AllPlain(runs))

\* Intervals of one length are the same.
LEMMA SameLen ==
    ASSUME NEW m \in Nat, NEW n \in Nat, 1 .. m = 1 .. n
    PROVE  m = n
<1>1. m \in 1 .. m \/ m = 0
  OBVIOUS
<1>2. n \in 1 .. n \/ n = 0
  OBVIOUS
<1> QED
  BY <1>1, <1>2

\* The lines of the runs.
LEMMA RunLinesAre ==
    ASSUME NEW runs \in Seq(Run)
    PROVE  /\ RunLines(runs) \in Seq(Seq(Point)) /\ Len(RunLines(runs)) = Len(runs)
           /\ Len(runs) \in Nat
           /\ \A i \in 1 .. Len(runs) : /\ RunLines(runs)[i] = runs[i].line
                                        /\ runs[i] \in Run /\ runs[i].line \in Seq(Point)
<1> DEFINE lines == RunLines(runs)
<1>1. Len(runs) \in Nat
  BY LenProperties
<1>2. \A i \in 1 .. Len(runs) : runs[i] \in Run
  BY ElementOfSeq
<1>3. \A i \in 1 .. Len(runs) : runs[i].line \in Seq(Point)
  BY <1>2 DEF Run
<1>4. lines \in [1 .. Len(runs) -> Seq(Point)]
  BY <1>3 DEF RunLines
<1>5. lines \in Seq(Seq(Point)) /\ Len(lines) = Len(runs)
  <2> HIDE DEF lines
  <2>1. lines \in Seq(Seq(Point))
    BY <1>1, <1>4, SeqDef
  <2>2. DOMAIN lines = 1 .. Len(runs)
    BY <1>4
  <2> QED BY <1>1, <2>1, <2>2, LenProperties, SameLen
<1> QED
  BY <1>1, <1>2, <1>3, <1>5 DEF RunLines

\* The runs of a line that is cut are a walk along it, each on its side, and the
\* crossings are where they meet.
LEMMA CutUp ==
    ASSUME NEW tile \in Extent, NEW line \in Seq(Point), Len(line) >= 2,
           NEW walk, NEW path, NEW side, NEW off, NEW at,
           Parted(tile, line, walk, path, side, off, at), Len(walk.runs) >= 2
    PROVE  /\ PartedInto(tile, line, walk.runs)
           /\ \A q : q \in Range(walk.crossings) <=> q \in Nodes(walk.runs)
<1> DEFINE runs == walk.runs
           n == Len(runs)
           lines == RunLines(runs)
           by == [i \in 1 .. n |-> PieceAt(at, off[i - 1], off[i])]
<1>1. Laid(runs, walk.crossings, path, side, off)
  BY DEF Parted
<1>2. /\ n \in Nat /\ runs \in Seq(Run) /\ Plain(path)
      /\ path \in Seq(Point) /\ Len(path) \in Nat /\ Len(path) >= 1
      /\ off \in [0 .. n -> 0 .. Len(path) - 1]
      /\ off[0] = 0 /\ off[n] = Len(path) - 1
      /\ \A i \in 1 .. n : Block(runs[i], path, side, off[i - 1], off[i])
  BY <1>1, LaidIs
<1>21. walk.crossings \in Seq(Point) /\ Len(walk.crossings) = IF n = 0 THEN 0 ELSE n - 1
  BY <1>1 DEF Laid
<1>22. off \in [0 .. n -> 0 .. Len(path) - 1] /\ Len(path) \in Nat
  BY <1>2
<1>3. \A i \in 1 .. n - 1 : /\ walk.crossings[i] = path[off[i] + 1]
                             /\ Side(runs[i + 1]) = 1 - Side(runs[i])
  BY <1>1 DEF Laid
<1>4. /\ \A i \in 1 .. n : Len(runs[i].line) >= 2
      /\ Sorted(tile, path, side) /\ Trail(line, path, at, Len(line))
  BY DEF Parted
<1>5. n >= 2
  OBVIOUS
<1>6. /\ lines \in Seq(Seq(Point)) /\ Len(lines) = n
      /\ \A i \in 1 .. n : lines[i] = runs[i].line /\ runs[i] \in Run /\ runs[i].line \in Seq(Point)
  BY <1>2, RunLinesAre
<1> HIDE DEF runs, lines
<1>7. Traced(line, path, at) /\ Opens(line, path, at) /\ Closes(line, path, at)
  <2>1. Traced(line, path, at)
    BY <1>4 DEF Trail, Traced
  <2>2. Opens(line, path, at)
    BY <1>4 DEF Trail, Opens, Turn
  <2>3. Closes(line, path, at)
    BY <1>4 DEF Trail, Closes
  <2> QED BY <2>1, <2>2, <2>3
<1>8. Len(line) \in Nat
  BY LenProperties
<1>9. ASSUME NEW i \in 1 .. n
      PROVE  /\ off[i - 1] \in Nat /\ off[i] \in 0 .. Len(path) - 1 /\ off[i - 1] <= off[i]
             /\ Piece(runs[i].line, path, off[i - 1], off[i])
             /\ by[i] = PieceAt(at, off[i - 1], off[i])
             /\ Block(runs[i], path, side, off[i - 1], off[i])
  <2>1. i - 1 \in 0 .. n /\ i \in 0 .. n
    BY <1>2
  <2>2. off[i - 1] \in Nat /\ off[i] \in 0 .. Len(path) - 1
    BY <1>22, <2>1
  <2>3. Block(runs[i], path, side, off[i - 1], off[i])
    BY <1>2
  <2>4. off[i - 1] <= off[i] /\ Piece(runs[i].line, path, off[i - 1], off[i])
    BY <1>6, <2>3 DEF Block, Piece
  <2> QED BY <2>2, <2>3, <2>4
<1>10. ASSUME NEW i \in 1 .. n
       PROVE  /\ Traced(line, lines[i], by[i]) /\ Len(lines[i]) >= 2
              /\ lines[i][1] = path[off[i - 1] + 1] /\ LastOf(lines[i]) = path[off[i] + 1]
              /\ by[i][1] = at[off[i - 1] + 1] /\ by[i][Len(lines[i])] = at[off[i] + 1]
  <2> DEFINE s == off[i - 1]
             e == off[i]
             l == runs[i].line
  <2>1. /\ s \in Nat /\ e \in 0 .. Len(path) - 1 /\ s <= e /\ Piece(l, path, s, e)
        /\ by[i] = PieceAt(at, s, e) /\ lines[i] = l /\ l \in Seq(Point) /\ Len(l) >= 2
    BY <1>4, <1>6, <1>9
  <2> HIDE DEF s, e, l, by
  <2>2. Traced(line, l, PieceAt(at, s, e))
    BY <1>2, <1>7, <1>8, <2>1, PieceTraced
  <2>5. path \in Seq(Point)
    BY <1>2
  <2>6. l[1] = path[s + 1] /\ LastOf(l) = path[e + 1]
    BY <2>1, <2>5, PieceFacts
  <2>7. PieceAt(at, s, e)[1] = at[s + 1]
    BY <2>1, <2>5, PieceFacts
  <2>8. PieceAt(at, s, e)[Len(l)] = at[e + 1]
    BY <2>1, <2>5, PieceFacts
  <2>3. /\ l[1] = path[s + 1] /\ LastOf(l) = path[e + 1]
        /\ PieceAt(at, s, e)[1] = at[s + 1] /\ PieceAt(at, s, e)[Len(l)] = at[e + 1]
    BY <2>6, <2>7, <2>8
  <2> QED BY <2>1, <2>2, <2>3 DEF s, e
<1> HIDE DEF by
<1>11. ASSUME NEW i \in 1 .. n - 1
       PROVE  Joint(line, lines[i], by[i], lines[i + 1], by[i + 1])
  <2>1. i \in 1 .. n /\ i + 1 \in 1 .. n /\ i + 1 - 1 = i
    BY <1>2
  <2>2. LastOf(lines[i]) = path[off[i] + 1] /\ by[i][Len(lines[i])] = at[off[i] + 1]
    BY <1>10, <2>1
  <2>3. lines[i + 1][1] = path[off[i] + 1] /\ by[i + 1][1] = at[off[i] + 1]
    BY <1>10, <2>1
  <2>4. at[off[i] + 1] \in Int
    <3>1. off[i] \in 0 .. Len(path) - 1
      BY <1>9, <2>1
    <3>2. off[i] + 1 \in 1 .. Len(path)
      BY <1>22, <3>1
    <3> QED BY <1>7, <3>2 DEF Traced
  <2>5. Turn(line, path[off[i] + 1], at[off[i] + 1], at[off[i] + 1])
    BY <2>4 DEF Turn
  <2> QED BY <2>2, <2>3, <2>5 DEF Joint
<1>12. Opens(line, lines[1], by[1])
  <2>1. 1 \in 1 .. n /\ 1 - 1 = 0
    BY <1>2, <1>5
  <2>2. lines[1][1] = path[off[0] + 1] /\ by[1][1] = at[off[0] + 1]
    BY <1>10, <2>1
  <2>3. off[0] + 1 = 1
    BY <1>2
  <2> QED BY <1>7, <2>2, <2>3 DEF Opens
<1>13. Closes(line, lines[n], by[n])
  <2>1. n \in 1 .. n
    BY <1>2, <1>5
  <2>2. LastOf(lines[n]) = path[off[n] + 1] /\ by[n][Len(lines[n])] = at[off[n] + 1]
    BY <1>10, <2>1
  <2>3. off[n] + 1 = Len(path)
    BY <1>2
  <2>4. LastOf(lines[n]) = LastOf(path) /\ by[n][Len(lines[n])] = at[Len(path)]
    BY <2>2, <2>3 DEF LastOf
  <2> QED BY <1>7, <2>4 DEF Closes
<1>14. Tracked(line, lines, by)
  <2>1. Len(lines) >= 1
    BY <1>2, <1>5, <1>6
  <2> QED BY <1>6, <1>10, <1>11, <1>12, <1>13, <2>1 DEF Tracked
<1>15. AllPlain(runs) /\ AllFiled(tile, runs)
  <2> SUFFICES ASSUME NEW i \in 1 .. n
               PROVE  Plain(runs[i].line) /\ Filed(tile, runs[i].line, Side(runs[i]))
    BY DEF AllPlain, AllFiled
  <2>1. /\ off[i - 1] \in Nat /\ off[i] \in 0 .. Len(path) - 1
        /\ Block(runs[i], path, side, off[i - 1], off[i])
    BY <1>9
  <2>2. runs[i].line \in Seq(Point) /\ Len(runs[i].line) >= 2
    BY <1>4, <1>6
  <2>3. Side(runs[i]) \in {0, 1}
    BY DEF Side
  <2> QED BY <1>2, <1>4, <2>1, <2>2, <2>3, RunFiled
<1>16. Alternates(runs)
  BY <1>3 DEF Alternates
<1>17. PartedInto(tile, line, runs)
  <2>1. n >= 1
    BY <1>2, <1>5
  <2> QED BY <1>2, <1>5, <1>14, <1>15, <1>16, <2>1 DEF PartedInto, lines
<1>18. ASSUME NEW i \in 1 .. n - 1
       PROVE  i + 1 \in 2 .. n /\ walk.crossings[i] = runs[i + 1].line[1]
  <2>1. i + 1 \in 2 .. n /\ i + 1 \in 1 .. n /\ i + 1 - 1 = i
    BY <1>2
  <2>2. lines[i + 1][1] = path[off[i] + 1] /\ lines[i + 1] = runs[i + 1].line
    BY <1>6, <1>10, <2>1
  <2> QED BY <1>3, <2>1, <2>2
<1>19. DOMAIN walk.crossings = 1 .. n - 1
  <2>1. Len(walk.crossings) = n - 1
    BY <1>2, <1>5, <1>21
  <2> QED BY <1>21, <2>1, LenProperties
<1>20. ASSUME NEW q PROVE q \in Range(walk.crossings) <=> q \in Nodes(runs)
  <2>1. ASSUME q \in Range(walk.crossings) PROVE q \in Nodes(runs)
    <3>1. PICK i \in 1 .. n - 1 : walk.crossings[i] = q
      BY <1>19, <2>1 DEF Range
    <3> QED BY <1>18, <3>1 DEF Nodes
  <2>2. ASSUME q \in Nodes(runs) PROVE q \in Range(walk.crossings)
    <3>1. PICK j \in 2 .. n : runs[j].line[1] = q
      BY <2>2 DEF Nodes
    <3> DEFINE i == j - 1
    <3>2. i \in 1 .. n - 1 /\ i + 1 = j
      BY <1>2, <3>1
    <3> HIDE DEF i
    <3>3. walk.crossings[i] = q
      BY <1>18, <3>1, <3>2
    <3> QED BY <1>19, <3>2, <3>3 DEF Range
  <2> QED BY <2>1, <2>2
<1> QED
  BY <1>17, <1>20 DEF runs

-----------------------------------------------------------------------------
(* What a clip makes of a line                                             *)

\* A line that is not cut, and its flag.
Bucket(tile, line, walk) ==
    IF walk.runs = <<>> THEN Inside(tile, line[1]) ELSE walk.runs[1].inside
OnePart(b, line) == <<[inside |-> b, line |-> line]>>

\* Its single part is the line itself.
LEMMA OnePartIs ==
    ASSUME NEW b \in BOOLEAN, NEW line \in Seq(Point), NEW runs, runs = OnePart(b, line)
    PROVE  /\ runs \in Seq(Run) /\ Len(runs) = 1 /\ runs[1].line = line
           /\ Side(runs[1]) = IF b THEN 1 ELSE 0
<1> DEFINE r == [inside |-> b, line |-> line]
<1>1. r \in Run /\ r.line = line /\ Side(r) = IF b THEN 1 ELSE 0
  BY DEF Run, Side
<1>2. runs = <<r>>
  BY DEF OnePart
<1> HIDE DEF r
<1> QED
  BY <1>1, <1>2

\* Its flag as a truth value and as a number.
LEMMA BucketIs ==
    ASSUME NEW tile \in Extent, NEW line \in Seq(Point), Len(line) >= 2,
           NEW walk, walk.runs \in Seq(Run)
    PROVE  /\ Bucket(tile, line, walk) \in BOOLEAN
           /\ Flag(tile, line, walk) = IF Bucket(tile, line, walk) THEN 1 ELSE 0
<1>1. CASE walk.runs = <<>>
  <2>1. Inside(tile, line[1]) \in BOOLEAN
    BY DEF Inside
  <2> QED BY <1>1, <2>1 DEF Bucket, Flag, Class
<1>2. CASE walk.runs # <<>>
  <2>1. Len(walk.runs) \in Nat /\ Len(walk.runs) # 0
    BY <1>2, LenProperties, EmptySeq
  <2>2. 1 \in 1 .. Len(walk.runs)
    BY <2>1
  <2>3. walk.runs[1] \in Run
    BY <2>2, ElementOfSeq
  <2>4. walk.runs[1].inside \in BOOLEAN
    BY <2>3 DEF Run
  <2> QED BY <1>2, <2>4 DEF Bucket, Flag, Side
<1> QED
  BY <1>1, <1>2

\* Filed where it is, it is a walk along itself without nodes.
LEMMA UncutIs ==
    ASSUME NEW tile \in Extent, NEW line \in Seq(Point), Len(line) >= 2,
           NEW b \in BOOLEAN, NEW s, s = (IF b THEN 1 ELSE 0), Filed(tile, line, s),
           NEW runs, runs = OnePart(b, line)
    PROVE  PartedInto(tile, line, runs) /\ Nodes(runs) = {}
<1>1. runs \in Seq(Run) /\ Len(runs) = 1 /\ runs[1].line = line /\ Side(runs[1]) = s
  BY OnePartIs
<1>2. 1 .. Len(runs) = {1} /\ 1 .. Len(runs) - 1 = {} /\ 2 .. Len(runs) = {} /\ Len(runs) >= 1
  BY <1>1
<1>3. AllFiled(tile, runs)
  BY <1>1, <1>2 DEF AllFiled
<1>4. Alternates(runs)
  BY <1>2 DEF Alternates
<1>5. Nodes(runs) = {}
  BY <1>2 DEF Nodes
<1> DEFINE lines == RunLines(runs)
           at == [i \in {1} |-> Own(line)]
<1>6. lines \in Seq(Seq(Point)) /\ Len(lines) = 1 /\ lines[1] = line
  BY <1>1, <1>2, RunLinesAre
<1>7. at[1] = Own(line)
  OBVIOUS
<1> HIDE DEF lines, at
<1>8. Tracked(line, lines, at)
  BY <1>6, <1>7, TrackedWhole
<1>9. PartedInto(tile, line, runs)
  BY <1>1, <1>2, <1>3, <1>4, <1>8 DEF PartedInto, lines
<1> QED
  BY <1>5, <1>9

\* What clip_edge_to_tile makes of a line.
THEOREM SplitIs ==
    ASSUME NEW tile \in Extent, NEW line \in Seq(Point), Len(line) >= 2, FineLine(tile, line),
           NEW runs, runs = Split(line, tile)
    PROVE  /\ PartedInto(tile, line, runs)
           /\ \A q : q \in Range(Crossings(line, tile)) <=> q \in Nodes(runs)
<1> DEFINE walk == WithoutTouches(Walk(line, tile))
<1>1. PICK path, side, off, at : Parted(tile, line, walk, path, side, off, at)
  BY WalkParts
<1>2. runs = IF Len(walk.runs) >= 2 THEN walk.runs
             ELSE OnePart(Bucket(tile, line, walk), line)
  BY DEF Split, Pieces, OnePart, Bucket
<1>3. Crossings(line, tile) = IF Len(walk.runs) >= 2 THEN walk.crossings ELSE <<>>
  BY DEF Crossings
<1> HIDE DEF walk
<1>4. Facts(line, walk.runs, path, side)
  BY <1>1, PartedIs
<1>5. Len(walk.runs) \in Nat /\ walk.runs \in Seq(Run)
  BY <1>4 DEF Facts
<1>6. CASE Len(walk.runs) >= 2
  <2>1. runs = walk.runs /\ Crossings(line, tile) = walk.crossings
    BY <1>2, <1>3, <1>6
  <2>2. PartedInto(tile, line, walk.runs)
    BY <1>1, <1>6, CutUp
  <2>3. \A q : q \in Range(walk.crossings) <=> q \in Nodes(walk.runs)
    BY <1>1, <1>6, CutUp
  <2> QED BY <2>1, <2>2, <2>3
<1>7. CASE ~(Len(walk.runs) >= 2)
  <2>1. Len(walk.runs) <= 1
    BY <1>5, <1>7
  <2>2. runs = OnePart(Bucket(tile, line, walk), line) /\ Crossings(line, tile) = <<>>
    BY <1>2, <1>3, <1>7
  <2>3. Filed(tile, line, Flag(tile, line, walk))
    BY <1>1, <2>1, OneRun
  <2>4. /\ Bucket(tile, line, walk) \in BOOLEAN
        /\ Flag(tile, line, walk) = IF Bucket(tile, line, walk) THEN 1 ELSE 0
    BY <1>5, BucketIs
  <2>5. PartedInto(tile, line, runs) /\ Nodes(runs) = {}
    BY <2>2, <2>3, <2>4, UncutIs
  <2>6. Range(Crossings(line, tile)) = {}
    BY <2>2 DEF Range
  <2> QED BY <2>5, <2>6
<1> QED
  BY <1>6, <1>7

\* A line on one side of the tile is its own single part.
LEMMA SplitWhole ==
    ASSUME NEW tile \in Extent, NEW line \in Seq(Point), Len(line) >= 2, FineLine(tile, line),
           NEW s \in {0, 1}, Filed(tile, line, s), NEW runs, runs = Split(line, tile)
    PROVE  Len(runs) = 1 /\ Side(runs[1]) = s
<1> DEFINE walk == WithoutTouches(Walk(line, tile))
<1>1. PICK path, side, off, at : Parted(tile, line, walk, path, side, off, at)
  BY WalkParts
<1>2. runs = IF Len(walk.runs) >= 2 THEN walk.runs
             ELSE OnePart(Bucket(tile, line, walk), line)
  BY DEF Split, Pieces, OnePart, Bucket
<1> HIDE DEF walk
<1>3. Facts(line, walk.runs, path, side)
  BY <1>1, PartedIs
<1>4. Len(walk.runs) \in Nat /\ walk.runs \in Seq(Run)
  BY <1>3 DEF Facts
<1>5. Len(walk.runs) <= 1
  BY <1>1, KeptWhole
<1>6. Flag(tile, line, walk) = s
  BY <1>1, KeptWhole
<1>7. ~(Len(walk.runs) >= 2)
  BY <1>4, <1>5
<1>8. runs = OnePart(Bucket(tile, line, walk), line)
  BY <1>2, <1>7
<1>9. /\ Bucket(tile, line, walk) \in BOOLEAN
      /\ Flag(tile, line, walk) = IF Bucket(tile, line, walk) THEN 1 ELSE 0
  BY <1>4, BucketIs
<1> QED
  BY <1>6, <1>8, <1>9, OnePartIs

-----------------------------------------------------------------------------
(* What a line hands on to the lines that follow it                        *)

\* The lattice stays fine enough.
LEMMA FineTraced ==
    ASSUME NEW tile \in Extent, NEW l \in Seq(Point), NEW r \in Seq(Point), NEW at, Traced(l, r, at),
           FineLine(tile, l)
    PROVE  FineLine(tile, r)
<1> SUFFICES ASSUME NEW k \in 1 .. Len(r) - 1 PROVE Fine(tile, r[k], r[k + 1])
  BY DEF FineLine
<1> DEFINE n == at[k + 1]
<1>1. n = at[k + 1]
  OBVIOUS
<1> HIDE DEF n
<1>2. /\ n \in 1 .. Len(l) - 1 /\ l[n] \in Point /\ l[n + 1] \in Point
      /\ On(r[k], l[n], l[n + 1]) /\ On(r[k + 1], l[n], l[n + 1])
  BY <1>1, LegOn
<1>3. Fine(tile, l[n], l[n + 1])
  BY <1>2 DEF FineLine
<1> QED
  BY <1>2, <1>3, FineSub

\* A line that follows a line on one side of a tile is on that side.
LEMMA FiledTraced ==
    ASSUME NEW tile \in Extent, NEW l \in Seq(Point), NEW r, Plain(r), Len(r) >= 2,
           NEW at, Traced(l, r, at), NEW s \in {0, 1}, Filed(tile, l, s)
    PROVE  Filed(tile, r, s)
<1>1. r \in Seq(Point) /\ Len(r) \in Nat /\ Len(l) \in Nat
  BY PlainFacts, LenProperties
<1>2. ASSUME NEW k \in 1 .. Len(r) - 1
      PROVE  \E n \in 1 .. Len(l) - 1 :
                /\ l[n] \in Point /\ l[n + 1] \in Point
                /\ On(r[k], l[n], l[n + 1]) /\ On(r[k + 1], l[n], l[n + 1])
  <2> DEFINE n == at[k + 1]
  <2>1. n = at[k + 1]
    OBVIOUS
  <2> HIDE DEF n
  <2>2. /\ n \in 1 .. Len(l) - 1 /\ l[n] \in Point /\ l[n + 1] \in Point
        /\ On(r[k], l[n], l[n + 1]) /\ On(r[k + 1], l[n], l[n + 1])
    BY <1>1, <2>1, LegOn
  <2> QED BY <2>2
<1>3. Len(r) >= 2
  OBVIOUS
<1>4. CASE s = 1
  <2>1. ASSUME NEW k \in 1 .. Len(r) - 1
        PROVE  Inside(tile, r[k]) /\ Inside(tile, r[k + 1])
    <3>1. PICK n \in 1 .. Len(l) - 1 :
                /\ l[n] \in Point /\ l[n + 1] \in Point
                /\ On(r[k], l[n], l[n + 1]) /\ On(r[k + 1], l[n], l[n + 1])
      BY <1>2
    <3>2. n \in 1 .. Len(l) /\ n + 1 \in 1 .. Len(l)
      BY LineFacts
    <3>3. Inside(tile, l[n]) /\ Inside(tile, l[n + 1])
      BY <1>4, <3>2 DEF Filed, InLine
    <3> QED BY <3>1, <3>3, InsideConvex
  <2>2. ASSUME NEW k \in 1 .. Len(r) PROVE Inside(tile, r[k])
    <3>1. CASE k \in 1 .. Len(r) - 1
      BY <2>1, <3>1
    <3>2. CASE k \notin 1 .. Len(r) - 1
      <4> DEFINE j == k - 1
      <4>1. j \in 1 .. Len(r) - 1 /\ j + 1 = k
        BY <1>1, <1>3, <3>2
      <4> HIDE DEF j
      <4> QED BY <2>1, <4>1
    <3> QED BY <3>1, <3>2
  <2> QED BY <1>4, <2>2 DEF Filed, InLine
<1>5. CASE s = 0
  <2>1. ASSUME NEW k \in 1 .. Len(r) - 1 PROVE Grazes(tile, r[k], r[k + 1])
    <3>1. PICK n \in 1 .. Len(l) - 1 :
                /\ l[n] \in Point /\ l[n + 1] \in Point
                /\ On(r[k], l[n], l[n + 1]) /\ On(r[k + 1], l[n], l[n + 1])
      BY <1>2
    <3>2. Grazes(tile, l[n], l[n + 1])
      BY <1>5 DEF Filed, OutLine
    <3> QED BY <3>1, <3>2, GrazesSub
  <2>2. 1 \in 1 .. Len(r) - 1 /\ 1 \in 1 .. Len(r) /\ 1 + 1 \in 1 .. Len(r)
    BY <1>1, <1>3
  <2>3. ~Inside(tile, r[1]) \/ ~Inside(tile, r[1 + 1])
    <3>1. r[1] \in Point /\ r[1 + 1] \in Point
      BY <2>2, PlainFacts
    <3>2. r[1] # r[1 + 1] /\ Grazes(tile, r[1], r[1 + 1])
      BY <2>1, <2>2 DEF Plain
    <3> QED BY <3>1, <3>2, InsideRuns
  <2>4. \E k \in 1 .. Len(r) : ~Inside(tile, r[k])
    BY <2>2, <2>3
  <2> QED BY <1>5, <2>1, <2>4 DEF Filed, OutLine
<1> QED
  BY <1>4, <1>5

\* One element of a sequence is replaced by the elements of another.
Spliced(new, old, i, sub) ==
    /\ Len(new) = Len(old) + Len(sub) - 1
    /\ \A j \in 1 .. i - 1 : new[j] = old[j]
    /\ \A k \in 1 .. Len(sub) : new[i - 1 + k] = sub[k]
    /\ \A m \in i + 1 .. Len(old) : new[m + Len(sub) - 1] = old[m]
Splice(old, i, sub) == SubSeq(old, 1, i - 1) \o sub \o SubSeq(old, i + 1, Len(old))

\* What replaces one element of a sequence.
LEMMA SpliceIs ==
    ASSUME NEW S, NEW old \in Seq(S), NEW i \in 1 .. Len(old), NEW sub \in Seq(S),
           NEW new, new = Splice(old, i, sub)
    PROVE  new \in Seq(S) /\ Spliced(new, old, i, sub)
<1> DEFINE b == SubSeq(old, 1, i - 1)
           a == SubSeq(old, i + 1, Len(old))
           m == Len(old)
           n == Len(sub)
<1>1. m \in Nat /\ n \in Nat /\ i \in Nat /\ i <= m /\ 1 <= i
  BY LenProperties
<1>2. b \in Seq(S) /\ Len(b) = i - 1 /\ \A j \in 1 .. i - 1 : b[j] = old[j]
  <2>1. 1 \in Int /\ i - 1 \in Int /\ \A j \in 1 .. i - 1 : old[j] \in S
    BY <1>1, ElementOfSeq
  <2> QED BY <1>1, <2>1, SubSeqProperties
<1>3. a \in Seq(S) /\ Len(a) = m - i /\ \A k \in 1 .. m - i : a[k] = old[i + k]
  <2>1. i + 1 \in Int /\ m \in Int /\ \A j \in i + 1 .. m : old[j] \in S
    BY <1>1, ElementOfSeq
  <2> QED BY <1>1, <2>1, SubSeqProperties
<1>4. new = b \o sub \o a
  BY DEF Splice
<1> HIDE DEF b, a
<1>5. /\ new \in Seq(S) /\ Len(new) = Len(b) + n + Len(a)
      /\ \A j \in 1 .. Len(b) + n + Len(a) :
            new[j] = IF j <= Len(b) THEN b[j]
                     ELSE IF j <= Len(b) + n THEN sub[j - Len(b)]
                     ELSE a[j - (Len(b) + n)]
  <2>1. b \in Seq(S) /\ a \in Seq(S)
    BY <1>2, <1>3
  <2>2. new \in Seq(S)
    BY <1>4, <2>1, ThreeInARow
  <2>3. Len(new) = Len(b) + Len(sub) + Len(a)
    BY <1>4, <2>1, ThreeInARow
  <2>4. \A j \in 1 .. Len(b) + Len(sub) + Len(a) :
            new[j] = IF j <= Len(b) THEN b[j]
                     ELSE IF j <= Len(b) + Len(sub) THEN sub[j - Len(b)]
                     ELSE a[j - (Len(b) + Len(sub))]
    BY <1>4, <2>1, ThreeInARow
  <2> QED BY <2>2, <2>3, <2>4
<1>6. \A j \in 1 .. (i - 1) + n + (m - i) :
            new[j] = IF j <= i - 1 THEN b[j]
                     ELSE IF j <= (i - 1) + n THEN sub[j - (i - 1)]
                     ELSE a[j - ((i - 1) + n)]
  BY <1>2, <1>3, <1>5
<1>7. Len(new) = m + n - 1
  <2>1. Len(new) = (i - 1) + n + (m - i)
    BY <1>2, <1>3, <1>5
  <2> QED BY <1>1, <2>1
<1> HIDE DEF m, n
<1>8. ASSUME NEW j \in 1 .. i - 1 PROVE new[j] = old[j]
  <2>1. j \in 1 .. (i - 1) + n + (m - i) /\ j <= i - 1
    BY <1>1
  <2>2. new[j] = b[j]
    BY <1>6, <2>1
  <2> QED BY <1>2, <2>2
<1>9. ASSUME NEW k \in 1 .. n PROVE new[i - 1 + k] = sub[k]
  <2> DEFINE j == i - 1 + k
  <2>1. j \in 1 .. (i - 1) + n + (m - i) /\ ~(j <= i - 1) /\ j <= (i - 1) + n /\ j - (i - 1) = k
    BY <1>1
  <2> HIDE DEF j
  <2>2. new[j] = sub[j - (i - 1)]
    BY <1>6, <2>1
  <2> QED BY <2>1, <2>2 DEF j
<1>10. ASSUME NEW k \in i + 1 .. m PROVE new[k + n - 1] = old[k]
  <2> DEFINE j == k + n - 1
  <2>1. /\ j \in 1 .. (i - 1) + n + (m - i) /\ ~(j <= i - 1) /\ ~(j <= (i - 1) + n)
        /\ j - ((i - 1) + n) = k - i /\ k - i \in 1 .. m - i /\ i + (k - i) = k
    BY <1>1
  <2> HIDE DEF j
  <2>2. new[j] = a[k - i]
    BY <1>6, <2>1
  <2>3. a[k - i] = old[k]
    BY <1>3, <2>1
  <2> QED BY <2>2, <2>3 DEF j
<1> QED
  BY <1>5, <1>7, <1>8, <1>9, <1>10 DEF Spliced, m, n

\* Where an index of the new sequence, and a pair of neighbours, comes from.
LEMMA SpliceIndex ==
    ASSUME NEW N \in Nat, NEW n \in Nat, NEW i \in 1 .. N, n >= 1, NEW j \in 1 .. N + n - 1
    PROVE  \/ j \in 1 .. i - 1
           \/ \E k \in 1 .. n : j = i - 1 + k
           \/ \E m \in i + 1 .. N : j = m + n - 1
<1>1. CASE j <= i - 1
  BY <1>1
<1>2. CASE ~(j <= i - 1) /\ j <= i - 1 + n
  <2> DEFINE k == j - (i - 1)
  <2>1. k \in 1 .. n /\ j = i - 1 + k
    BY <1>2
  <2> QED BY <2>1
<1>3. CASE ~(j <= i - 1 + n)
  <2> DEFINE m == j - n + 1
  <2>1. m \in i + 1 .. N /\ j = m + n - 1
    BY <1>3
  <2> QED BY <2>1
<1> QED
  BY <1>1, <1>2, <1>3

\* Neighbours are neighbours from before, neighbours that came in, or one of each.
LEMMA SplicePair ==
    ASSUME NEW N \in Nat, NEW n \in Nat, NEW i \in 1 .. N, n >= 1, NEW j \in 1 .. N + n - 2
    PROVE  \/ j \in 1 .. i - 1 /\ j + 1 \in 1 .. i - 1
           \/ j = i - 1 /\ j \in 1 .. i - 1 /\ j + 1 = i - 1 + 1
           \/ \E k \in 1 .. n - 1 : j = i - 1 + k /\ j + 1 = i - 1 + (k + 1)
           \/ j = i - 1 + n /\ i + 1 \in i + 1 .. N /\ j + 1 = (i + 1) + n - 1
           \/ \E m \in i + 1 .. N - 1 : j = m + n - 1 /\ j + 1 = (m + 1) + n - 1
<1>1. CASE j + 1 <= i - 1
  BY <1>1
<1>2. CASE j = i - 1
  BY <1>2
<1>3. CASE j > i - 1 /\ j < i - 1 + n
  <2> DEFINE k == j - (i - 1)
  <2>1. k \in 1 .. n - 1 /\ j = i - 1 + k /\ j + 1 = i - 1 + (k + 1)
    BY <1>3
  <2> QED BY <2>1
<1>4. CASE j = i - 1 + n
  BY <1>4
<1>5. CASE j > i - 1 + n
  <2> DEFINE m == j - n + 1
  <2>1. m \in i + 1 .. N - 1 /\ j = m + n - 1 /\ j + 1 = (m + 1) + n - 1
    BY <1>5
  <2> QED BY <2>1
<1>6. \/ j + 1 <= i - 1 \/ j = i - 1 \/ (j > i - 1 /\ j < i - 1 + n) \/ j = i - 1 + n
      \/ j > i - 1 + n
  OBVIOUS
<1> QED
  BY <1>1, <1>2, <1>3, <1>4, <1>5, <1>6

-----------------------------------------------------------------------------
(* A line of a walk is replaced by a walk along it                         *)

\* The traces of the lines when the one at i is replaced by n others.
SpliceAt(at, i, n, via, len) ==
    [j \in 1 .. len |-> IF j <= i - 1 THEN at[j]
                        ELSE IF j <= i - 1 + n THEN via[j - (i - 1)]
                        ELSE at[j - n + 1]]
SplicedFrom(f, at, i, n, via, N) ==
    /\ \A j \in 1 .. i - 1 : f[j] = at[j]
    /\ \A k \in 1 .. n : f[i - 1 + k] = via[k]
    /\ \A m \in i + 1 .. N : f[m + n - 1] = at[m]

\* Each line has the trace it came with.
LEMMA SpliceAtIs ==
    ASSUME NEW N \in Nat, NEW n \in Nat, NEW i \in 1 .. N, n >= 1, NEW at, NEW via,
           NEW len, len = N + n - 1, NEW f, f = SpliceAt(at, i, n, via, len)
    PROVE  SplicedFrom(f, at, i, n, via, N)
<1>1. ASSUME NEW j \in 1 .. i - 1 PROVE f[j] = at[j]
  <2>1. j \in 1 .. len /\ j <= i - 1
    OBVIOUS
  <2> QED BY <2>1 DEF SpliceAt
<1>2. ASSUME NEW k \in 1 .. n PROVE f[i - 1 + k] = via[k]
  <2> DEFINE j == i - 1 + k
  <2>1. j \in 1 .. len /\ ~(j <= i - 1) /\ j <= i - 1 + n /\ j - (i - 1) = k
    OBVIOUS
  <2> HIDE DEF j
  <2>2. f[j] = via[j - (i - 1)]
    BY <2>1 DEF SpliceAt
  <2> QED BY <2>1, <2>2 DEF j
<1>3. ASSUME NEW m \in i + 1 .. N PROVE f[m + n - 1] = at[m]
  <2> DEFINE j == m + n - 1
  <2>1. j \in 1 .. len /\ ~(j <= i - 1) /\ ~(j <= i - 1 + n) /\ j - n + 1 = m
    OBVIOUS
  <2> HIDE DEF j
  <2>2. f[j] = at[j - n + 1]
    BY <2>1 DEF SpliceAt
  <2> QED BY <2>1, <2>2 DEF j
<1> QED
  BY <1>1, <1>2, <1>3 DEF SplicedFrom

\* What a walk along a line has.
LEMMA TrackFacts ==
    ASSUME NEW o, NEW lines, NEW at, Tracked(o, lines, at)
    PROVE  /\ Len(lines) \in Nat /\ Len(lines) >= 1 /\ lines \in Seq(Seq(Point))
           /\ \A i \in 1 .. Len(lines) :
                 /\ lines[i] \in Seq(Point) /\ Len(lines[i]) >= 2 /\ Traced(o, lines[i], at[i])
           /\ Opens(o, lines[1], at[1])
           /\ \A i \in 1 .. Len(lines) - 1 : Joint(o, lines[i], at[i], lines[i + 1], at[i + 1])
           /\ Closes(o, lines[Len(lines)], at[Len(lines)])
<1>1. lines \in Seq(Seq(Point)) /\ Len(lines) >= 1
  BY DEF Tracked
<1>2. Len(lines) \in Nat
  BY <1>1, LenProperties
<1>3. \A i \in 1 .. Len(lines) : lines[i] \in Seq(Point)
  BY <1>1, ElementOfSeq
<1>4. \A i \in 1 .. Len(lines) : Len(lines[i]) >= 2 /\ Traced(o, lines[i], at[i])
  BY DEF Tracked
<1>5. /\ Opens(o, lines[1], at[1])
      /\ \A i \in 1 .. Len(lines) - 1 : Joint(o, lines[i], at[i], lines[i + 1], at[i + 1])
      /\ Closes(o, lines[Len(lines)], at[Len(lines)])
  BY DEF Tracked
<1> QED
  BY <1>1, <1>2, <1>3, <1>4, <1>5

\* The trace of a line ends inside the line it follows.
LEMMA TraceEnds ==
    ASSUME NEW o, NEW l \in Seq(Point), Len(l) >= 2, NEW by, Traced(o, l, by)
    PROVE  by[1] \in Int /\ by[Len(l)] \in Int
<1>1. Len(l) \in Nat
  BY LenProperties
<1>2. 1 \in 1 .. Len(l) /\ Len(l) \in 1 .. Len(l)
  BY <1>1
<1> QED
  BY <1>2 DEF Traced

\* What opens a line that opens the original opens the original.
LEMMA OpensVia ==
    ASSUME NEW o \in Seq(Point), NEW l \in Seq(Point), Len(l) >= 2, NEW r \in Seq(Point), Len(r) >= 2,
           NEW by, Traced(o, l, by), Opens(o, l, by), NEW at, Traced(l, r, at), Opens(l, r, at)
    PROVE  Opens(o, r, Via(by, at, r))
<1> DEFINE via == Via(by, at, r)
<1>1. r[1] = l[1] /\ Turn(o, r[1], by[1], via[1])
  BY OpensInto
<1>2. l[1] = o[1] /\ Turn(o, l[1], 1, by[1])
  BY DEF Opens
<1>3. by[1] \in Int /\ via[1] \in Int
  BY TraceEnds, TracedInto
<1> HIDE DEF via
<1>4. Turn(o, r[1], 1, via[1])
  BY <1>1, <1>2, <1>3, TurnTurn
<1> QED
  BY <1>1, <1>2, <1>4 DEF Opens, via

\* What opens a line goes on where that line did.
LEMMA JointVia ==
    ASSUME NEW o \in Seq(Point), NEW l \in Seq(Point), Len(l) >= 2, NEW r \in Seq(Point), Len(r) >= 2,
           NEW by, Traced(o, l, by), NEW at, Traced(l, r, at), Opens(l, r, at),
           NEW x \in Seq(Point), Len(x) >= 2, NEW bx, Traced(o, x, bx), Joint(o, x, bx, l, by)
    PROVE  Joint(o, x, bx, r, Via(by, at, r))
<1> DEFINE via == Via(by, at, r)
<1>1. r[1] = l[1] /\ Turn(o, r[1], by[1], via[1])
  BY OpensInto
<1>2. LastOf(x) = l[1] /\ Turn(o, l[1], bx[Len(x)], by[1])
  BY DEF Joint
<1>3. by[1] \in Int /\ via[1] \in Int /\ bx[Len(x)] \in Int
  BY TraceEnds, TracedInto
<1> HIDE DEF via
<1>4. Turn(o, r[1], bx[Len(x)], via[1])
  BY <1>1, <1>2, <1>3, TurnTurn
<1> QED
  BY <1>1, <1>2, <1>4 DEF Joint, via

\* What closes a line is gone on from where that line was.
LEMMA ViaJoint ==
    ASSUME NEW o \in Seq(Point), NEW l \in Seq(Point), Len(l) >= 2, NEW r \in Seq(Point), Len(r) >= 2,
           NEW by, Traced(o, l, by), NEW at, Traced(l, r, at), Closes(l, r, at),
           NEW x \in Seq(Point), Len(x) >= 2, NEW bx, Traced(o, x, bx), Joint(o, l, by, x, bx)
    PROVE  Joint(o, r, Via(by, at, r), x, bx)
<1> DEFINE via == Via(by, at, r)
<1>1. LastOf(r) = LastOf(l) /\ Turn(o, LastOf(r), via[Len(r)], by[Len(l)])
  BY ClosesInto
<1>2. LastOf(l) = x[1] /\ Turn(o, x[1], by[Len(l)], bx[1])
  BY DEF Joint
<1>3. by[Len(l)] \in Int /\ via[Len(r)] \in Int /\ bx[1] \in Int
  BY TraceEnds, TracedInto
<1> HIDE DEF via
<1>4. Turn(o, x[1], via[Len(r)], bx[1])
  BY <1>1, <1>2, <1>3, TurnTurn
<1> QED
  BY <1>1, <1>2, <1>4 DEF Joint, via

\* What closes a line that closes the original closes the original.
LEMMA ClosesVia ==
    ASSUME NEW o \in Seq(Point), NEW l \in Seq(Point), Len(l) >= 2, NEW r \in Seq(Point), Len(r) >= 2,
           NEW by, Traced(o, l, by), Closes(o, l, by), NEW at, Traced(l, r, at), Closes(l, r, at)
    PROVE  Closes(o, r, Via(by, at, r))
<1> DEFINE via == Via(by, at, r)
<1>1. LastOf(r) = LastOf(l) /\ Turn(o, LastOf(r), via[Len(r)], by[Len(l)])
  BY ClosesInto
<1>2. Turn(o, LastOf(l), by[Len(l)], Len(o))
  BY DEF Closes
<1>3. by[Len(l)] \in Int /\ via[Len(r)] \in Int /\ Len(o) \in Int
  BY TraceEnds, TracedInto, LenProperties
<1> HIDE DEF via
<1>4. Turn(o, LastOf(r), via[Len(r)], Len(o))
  BY <1>1, <1>2, <1>3, TurnTurn
<1> QED
  BY <1>1, <1>4 DEF Closes, via

\* The lines stay a walk along the original when one of them is replaced by
\* lines that are a walk along it.
LEMMA TrackSpliced ==
    ASSUME NEW o \in Seq(Point), NEW lines, NEW at, Tracked(o, lines, at),
           NEW i \in 1 .. Len(lines), NEW sub, NEW by, Tracked(lines[i], sub, by),
           NEW new \in Seq(Seq(Point)), Spliced(new, lines, i, sub)
    PROVE  \E f : Tracked(o, new, f)
<1> DEFINE N == Len(lines)
           n == Len(sub)
           l == lines[i]
           via == [k \in 1 .. n |-> Via(at[i], by[k], sub[k])]
           f == SpliceAt(at, i, n, via, Len(new))
<1>1. /\ N \in Nat /\ N >= 1
      /\ \A j \in 1 .. N : /\ lines[j] \in Seq(Point) /\ Len(lines[j]) >= 2
                           /\ Traced(o, lines[j], at[j])
      /\ Opens(o, lines[1], at[1])
      /\ \A j \in 1 .. N - 1 : Joint(o, lines[j], at[j], lines[j + 1], at[j + 1])
      /\ Closes(o, lines[N], at[N])
  BY TrackFacts
<1>2. /\ n \in Nat /\ n >= 1
      /\ \A k \in 1 .. n : /\ sub[k] \in Seq(Point) /\ Len(sub[k]) >= 2
                           /\ Traced(l, sub[k], by[k])
      /\ Opens(l, sub[1], by[1])
      /\ \A k \in 1 .. n - 1 : Joint(l, sub[k], by[k], sub[k + 1], by[k + 1])
      /\ Closes(l, sub[n], by[n])
  BY TrackFacts
<1>3. /\ Len(new) = N + n - 1
      /\ \A j \in 1 .. i - 1 : new[j] = lines[j]
      /\ \A k \in 1 .. n : new[i - 1 + k] = sub[k]
      /\ \A m \in i + 1 .. N : new[m + n - 1] = lines[m]
  BY DEF Spliced
<1>4. i \in 1 .. N
  OBVIOUS
<1>5. /\ l \in Seq(Point) /\ Len(l) >= 2 /\ Traced(o, l, at[i])
  BY <1>1, <1>4
<1>6. \A k \in 1 .. n : via[k] = Via(at[i], by[k], sub[k])
  OBVIOUS
<1>7. f = SpliceAt(at, i, n, via, Len(new))
  OBVIOUS
<1> HIDE DEF N, n, via, f
<1>8. /\ \A j \in 1 .. i - 1 : f[j] = at[j]
      /\ \A k \in 1 .. n : f[i - 1 + k] = via[k]
      /\ \A m \in i + 1 .. N : f[m + n - 1] = at[m]
  <2>1. N \in Nat /\ n \in Nat /\ n >= 1
    BY <1>1, <1>2
  <2>2. Len(new) = N + n - 1
    BY <1>3
  <2>3. SplicedFrom(f, at, i, n, via, N)
    BY <1>4, <1>7, <2>1, <2>2, SpliceAtIs
  <2> QED BY <2>3 DEF SplicedFrom
<1>11. ASSUME NEW k \in 1 .. n
       PROVE  sub[k] \in Seq(Point) /\ Len(sub[k]) >= 2 /\ Traced(o, sub[k], via[k])
  <2>1. sub[k] \in Seq(Point) /\ Len(sub[k]) >= 2 /\ Traced(l, sub[k], by[k])
    BY <1>2
  <2> HIDE DEF l
  <2>2. Traced(o, sub[k], Via(at[i], by[k], sub[k]))
    BY <1>5, <2>1, TracedInto
  <2> QED BY <1>6, <2>1, <2>2
<1> HIDE DEF l
<1>12. 1 \in 1 .. n /\ n \in 1 .. n
  BY <1>2
<1>13. ASSUME NEW j \in 1 .. Len(new)
       PROVE  Len(new[j]) >= 2 /\ Traced(o, new[j], f[j])
  <2>1. j \in 1 .. N + n - 1
    BY <1>3
  <2>2. CASE j \in 1 .. i - 1
    <3>1. j \in 1 .. N
      BY <1>1, <1>4, <2>2
    <3> QED BY <1>1, <1>3, <1>8, <2>2, <3>1
  <2>3. CASE \E k \in 1 .. n : j = i - 1 + k
    <3>1. PICK k \in 1 .. n : j = i - 1 + k
      BY <2>3
    <3>2. new[j] = sub[k] /\ f[j] = via[k]
      BY <1>3, <1>8, <3>1
    <3> QED BY <1>11, <3>1, <3>2
  <2>4. CASE \E m \in i + 1 .. N : j = m + n - 1
    <3>1. PICK m \in i + 1 .. N : j = m + n - 1
      BY <2>4
    <3>2. new[j] = lines[m] /\ f[j] = at[m] /\ m \in 1 .. N
      BY <1>1, <1>3, <1>4, <1>8, <3>1
    <3> QED BY <1>1, <3>2
  <2> QED BY <1>1, <1>2, <1>4, <2>1, <2>2, <2>3, <2>4, SpliceIndex
<1>14. ASSUME NEW j \in 1 .. Len(new) - 1
       PROVE  Joint(o, new[j], f[j], new[j + 1], f[j + 1])
  <2>1. j \in 1 .. N + n - 2
    BY <1>1, <1>2, <1>3
  <2>2. CASE j \in 1 .. i - 1 /\ j + 1 \in 1 .. i - 1
    <3>1. j \in 1 .. N - 1
      BY <1>1, <1>4, <2>2
    <3>2. new[j] = lines[j] /\ f[j] = at[j] /\ new[j + 1] = lines[j + 1] /\ f[j + 1] = at[j + 1]
      BY <1>3, <1>8, <2>2
    <3> QED BY <1>1, <3>1, <3>2
  <2>3. CASE j = i - 1 /\ j \in 1 .. i - 1 /\ j + 1 = i - 1 + 1
    <3>1. j \in 1 .. N - 1 /\ j \in 1 .. N /\ j + 1 = i
      BY <1>1, <1>4, <2>3
    <3>2. new[j] = lines[j] /\ f[j] = at[j]
      BY <1>3, <1>8, <2>3
    <3>3. new[j + 1] = sub[1] /\ f[j + 1] = via[1]
      <4>1. new[i - 1 + 1] = sub[1] /\ f[i - 1 + 1] = via[1]
        BY <1>3, <1>8, <1>12
      <4> QED BY <2>3, <4>1
    <3>4. Joint(o, lines[j], at[j], l, at[i])
      BY <1>1, <3>1 DEF l
    <3>5. lines[j] \in Seq(Point) /\ Len(lines[j]) >= 2 /\ Traced(o, lines[j], at[j])
      BY <1>1, <3>1
    <3>6. /\ sub[1] \in Seq(Point) /\ Len(sub[1]) >= 2 /\ Traced(l, sub[1], by[1])
          /\ Opens(l, sub[1], by[1])
      BY <1>2, <1>12
    <3>7. Joint(o, lines[j], at[j], sub[1], Via(at[i], by[1], sub[1]))
      BY <1>5, <3>4, <3>5, <3>6, JointVia
    <3> QED BY <1>6, <1>12, <3>2, <3>3, <3>7
  <2>4. CASE \E k \in 1 .. n - 1 : j = i - 1 + k /\ j + 1 = i - 1 + (k + 1)
    <3>1. PICK k \in 1 .. n - 1 : j = i - 1 + k /\ j + 1 = i - 1 + (k + 1)
      BY <2>4
    <3> DEFINE m == k + 1
    <3>2. k \in 1 .. n /\ m \in 1 .. n
      BY <1>2, <3>1
    <3>3. Joint(l, sub[k], by[k], sub[m], by[m])
      BY <1>2, <3>1
    <3>4. j + 1 = i - 1 + m
      BY <3>1
    <3> HIDE DEF m
    <3>5. new[j] = sub[k] /\ f[j] = via[k]
      BY <1>3, <1>8, <3>1, <3>2
    <3>6. new[j + 1] = sub[m] /\ f[j + 1] = via[m]
      BY <1>3, <1>8, <3>2, <3>4
    <3>7. /\ sub[k] \in Seq(Point) /\ Len(sub[k]) >= 2 /\ Traced(l, sub[k], by[k])
          /\ sub[m] \in Seq(Point) /\ Len(sub[m]) >= 2 /\ Traced(l, sub[m], by[m])
      BY <1>2, <3>2
    <3>8. Joint(o, sub[k], Via(at[i], by[k], sub[k]), sub[m], Via(at[i], by[m], sub[m]))
      BY <1>5, <3>3, <3>7, JointInto
    <3> QED BY <1>6, <3>2, <3>5, <3>6, <3>8
  <2>5. CASE j = i - 1 + n /\ i + 1 \in i + 1 .. N /\ j + 1 = (i + 1) + n - 1
    <3> DEFINE m == i + 1
    <3>1. m \in i + 1 .. N /\ m \in 1 .. N /\ j + 1 = m + n - 1 /\ i \in 1 .. N - 1
      BY <1>1, <1>4, <2>5
    <3>2. Joint(o, l, at[i], lines[m], at[m])
      BY <1>1, <3>1 DEF l
    <3> HIDE DEF m
    <3>3. new[j] = sub[n] /\ f[j] = via[n]
      BY <1>3, <1>8, <1>12, <2>5
    <3>4. new[j + 1] = lines[m] /\ f[j + 1] = at[m]
      BY <1>3, <1>8, <3>1
    <3>5. lines[m] \in Seq(Point) /\ Len(lines[m]) >= 2 /\ Traced(o, lines[m], at[m])
      BY <1>1, <3>1
    <3>6. /\ sub[n] \in Seq(Point) /\ Len(sub[n]) >= 2 /\ Traced(l, sub[n], by[n])
          /\ Closes(l, sub[n], by[n])
      BY <1>2, <1>12
    <3>7. Joint(o, sub[n], Via(at[i], by[n], sub[n]), lines[m], at[m])
      BY <1>5, <3>2, <3>5, <3>6, ViaJoint
    <3> QED BY <1>6, <1>12, <3>3, <3>4, <3>7
  <2>6. CASE \E m \in i + 1 .. N - 1 : j = m + n - 1 /\ j + 1 = (m + 1) + n - 1
    <3>1. PICK m \in i + 1 .. N - 1 : j = m + n - 1 /\ j + 1 = (m + 1) + n - 1
      BY <2>6
    <3> DEFINE k == m + 1
    <3>2. m \in i + 1 .. N /\ k \in i + 1 .. N /\ m \in 1 .. N - 1 /\ j + 1 = k + n - 1
      BY <1>1, <1>4, <3>1
    <3>3. Joint(o, lines[m], at[m], lines[k], at[k])
      BY <1>1, <3>2
    <3> HIDE DEF k
    <3>4. new[j] = lines[m] /\ f[j] = at[m]
      BY <1>3, <1>8, <3>1, <3>2
    <3>5. new[j + 1] = lines[k] /\ f[j + 1] = at[k]
      BY <1>3, <1>8, <3>2
    <3> QED BY <3>3, <3>4, <3>5
  <2> QED BY <1>1, <1>2, <1>4, <2>1, <2>2, <2>3, <2>4, <2>5, <2>6, SplicePair
<1>15. Opens(o, new[1], f[1])
  <2>1. CASE i = 1
    <3>1. i - 1 + 1 = 1
      BY <2>1
    <3>2. new[1] = sub[1] /\ f[1] = via[1]
      <4>1. new[i - 1 + 1] = sub[1] /\ f[i - 1 + 1] = via[1]
        BY <1>3, <1>8, <1>12
      <4> QED BY <3>1, <4>1
    <3>3. /\ sub[1] \in Seq(Point) /\ Len(sub[1]) >= 2 /\ Traced(l, sub[1], by[1])
          /\ Opens(l, sub[1], by[1])
      BY <1>2, <1>12
    <3>4. Opens(o, l, at[i])
      BY <1>1, <2>1 DEF l
    <3>5. Opens(o, sub[1], Via(at[i], by[1], sub[1]))
      BY <1>5, <3>3, <3>4, OpensVia
    <3> QED BY <1>6, <1>12, <3>2, <3>5
  <2>2. CASE i # 1
    <3>1. 1 \in 1 .. i - 1
      BY <1>1, <1>4, <2>2
    <3> QED BY <1>1, <1>3, <1>8, <3>1
  <2> QED BY <2>1, <2>2
<1>16. Closes(o, new[Len(new)], f[Len(new)])
  <2>1. CASE i = N
    <3>1. Len(new) = i - 1 + n
      BY <1>1, <1>2, <1>3, <2>1
    <3>2. new[Len(new)] = sub[n] /\ f[Len(new)] = via[n]
      BY <1>3, <1>8, <1>12, <3>1
    <3>3. /\ sub[n] \in Seq(Point) /\ Len(sub[n]) >= 2 /\ Traced(l, sub[n], by[n])
          /\ Closes(l, sub[n], by[n])
      BY <1>2, <1>12
    <3>4. Closes(o, l, at[i])
      BY <1>1, <2>1 DEF l
    <3>5. Closes(o, sub[n], Via(at[i], by[n], sub[n]))
      BY <1>5, <3>3, <3>4, ClosesVia
    <3> QED BY <1>6, <1>12, <3>2, <3>5
  <2>2. CASE i # N
    <3>1. N \in i + 1 .. N
      BY <1>1, <1>4, <2>2
    <3>2. new[Len(new)] = lines[N] /\ f[Len(new)] = at[N]
      BY <1>3, <1>8, <3>1
    <3> QED BY <1>1, <3>2
  <2> QED BY <2>1, <2>2
<1>17. Len(new) >= 1
  BY <1>1, <1>2, <1>3
<1>18. Tracked(o, new, f)
  BY <1>13, <1>14, <1>15, <1>16, <1>17 DEF Tracked
<1> QED
  BY <1>18

-----------------------------------------------------------------------------
(* The invariant                                                           *)

\* The parts, and the side of a tile that each is filed under.
PartType == [line : Seq(Point), clipped : SUBSET Tiles, within : SUBSET Tiles]
Bit(part, tile) == IF tile \in part.within THEN 1 ELSE 0

\* A part is on the side of every tile it was clipped against.
Sound(part) ==
    /\ part \in PartType /\ part.within \subseteq part.clipped
    /\ \A tile \in Tiles : FineLine(tile, part.line)
    /\ \A tile \in part.clipped : Filed(tile, part.line, Bit(part, tile))

\* Neighbours are on different sides of a tile that both were clipped against.
Apart(p, q) == \E tile \in p.clipped \cap q.clipped : Bit(p, tile) # Bit(q, tile)

\* The lines of the parts.
Drawing(ps) == [i \in DOMAIN ps |-> ps[i].line]

\* The invariant: sound parts, neighbours apart, and their lines one after the other
\* a walk along the original.
Sane(o, ps) ==
    /\ o \in Seq(Point) /\ Len(o) >= 2 /\ \A tile \in Tiles : FineLine(tile, o)
    /\ ps \in Seq(PartType)
    /\ \A i \in 1 .. Len(ps) : Sound(ps[i])
    /\ \A i \in 1 .. Len(ps) - 1 : Apart(ps[i], ps[i + 1])
    /\ \E at : Tracked(o, Drawing(ps), at)
    /\ \/ Len(ps) = 1 /\ ps[1].line = o
       \/ Len(ps) >= 2 /\ \A i \in 1 .. Len(ps) : Plain(ps[i].line)

\* The parts that a part is replaced by.
PartOf(part, tile, run) ==
    [line |-> run.line,
     clipped |-> part.clipped \cup {tile},
     within |-> part.within \cup (IF run.inside THEN {tile} ELSE {})]
PartsOf(part, tile, runs) == [k \in DOMAIN runs |-> PartOf(part, tile, runs[k])]

\* A function on an interval is a sequence.
LEMMA SeqFun ==
    ASSUME NEW T, NEW n \in Nat, NEW r \in [1 .. n -> T]
    PROVE  r \in Seq(T) /\ Len(r) = n
<1>1. r \in Seq(T)
  BY SeqDef
<1>2. DOMAIN r = 1 .. n
  OBVIOUS
<1>3. Len(r) \in Nat /\ DOMAIN r = 1 .. Len(r)
  BY <1>1, LenProperties
<1> QED
  BY <1>1, <1>2, <1>3, SameLen

\* The lines of parts are lines.
LEMMA DrawingIs ==
    ASSUME NEW ps \in Seq(PartType)
    PROVE  /\ Len(ps) \in Nat /\ DOMAIN ps = 1 .. Len(ps)
           /\ Drawing(ps) \in Seq(Seq(Point)) /\ Len(Drawing(ps)) = Len(ps)
           /\ \A i \in 1 .. Len(ps) : Drawing(ps)[i] = ps[i].line /\ ps[i] \in PartType
<1> DEFINE d == Drawing(ps)
<1>1. Len(ps) \in Nat /\ DOMAIN ps = 1 .. Len(ps)
  BY LenProperties
<1>2. \A i \in 1 .. Len(ps) : ps[i] \in PartType
  BY ElementOfSeq
<1>3. \A i \in 1 .. Len(ps) : ps[i].line \in Seq(Point)
  BY <1>2 DEF PartType
<1>4. d \in [1 .. Len(ps) -> Seq(Point)]
  BY <1>1, <1>3 DEF Drawing
<1>5. d \in Seq(Seq(Point)) /\ Len(d) = Len(ps)
  <2> HIDE DEF d
  <2> QED BY <1>1, <1>4, SeqFun
<1>6. \A i \in 1 .. Len(ps) : d[i] = ps[i].line
  BY <1>1 DEF Drawing
<1> QED
  BY <1>1, <1>2, <1>5, <1>6

\* What replaces a part are parts.
LEMMA PartsOfIs ==
    ASSUME NEW part \in PartType, NEW tile \in Tiles, NEW runs \in Seq(Run),
           NEW sub, sub = PartsOf(part, tile, runs)
    PROVE  /\ sub \in Seq(PartType) /\ Len(sub) = Len(runs) /\ Len(runs) \in Nat
           /\ \A k \in 1 .. Len(runs) : sub[k] = PartOf(part, tile, runs[k]) /\ runs[k] \in Run
<1>1. Len(runs) \in Nat /\ DOMAIN runs = 1 .. Len(runs)
  BY LenProperties
<1>2. \A k \in 1 .. Len(runs) : runs[k] \in Run
  BY ElementOfSeq
<1>3. ASSUME NEW k \in 1 .. Len(runs) PROVE PartOf(part, tile, runs[k]) \in PartType
  BY <1>2 DEF Run, PartType, PartOf
<1>4. \A k \in 1 .. Len(runs) : sub[k] = PartOf(part, tile, runs[k])
  BY <1>1 DEF PartsOf
<1>5. sub \in [1 .. Len(runs) -> PartType]
  BY <1>1, <1>3 DEF PartsOf
<1>6. sub \in Seq(PartType) /\ Len(sub) = Len(runs)
  BY <1>1, <1>5, SeqFun
<1> QED
  BY <1>1, <1>2, <1>4, <1>6

\* The bits of a part that is cut off.
LEMMA BitsOf ==
    ASSUME NEW part \in PartType, part.within \subseteq part.clipped, NEW tile, tile \notin part.clipped,
           NEW run \in Run, NEW p, p = PartOf(part, tile, run)
    PROVE  /\ p.line = run.line /\ p.clipped = part.clipped \cup {tile}
           /\ p.within \subseteq p.clipped
           /\ Bit(p, tile) = Side(run)
           /\ \A t \in part.clipped : Bit(p, t) = Bit(part, t)
<1>1. /\ p.line = run.line /\ p.clipped = part.clipped \cup {tile}
      /\ p.within = part.within \cup (IF run.inside THEN {tile} ELSE {})
  BY DEF PartOf
<1>2. tile \notin part.within
  OBVIOUS
<1>3. Bit(p, tile) = Side(run)
  BY <1>1, <1>2 DEF Bit, Side
<1>4. ASSUME NEW t \in part.clipped PROVE Bit(p, t) = Bit(part, t)
  <2>1. t # tile
    OBVIOUS
  <2>2. t \in p.within <=> t \in part.within
    BY <1>1, <2>1
  <2> QED BY <2>2 DEF Bit
<1> QED
  BY <1>1, <1>3, <1>4

\* What a clip makes of a sound part is sound.
LEMMA SoundOf ==
    ASSUME Tiles \subseteq Extent, NEW part, Sound(part), Len(part.line) >= 2,
           NEW tile \in Tiles, tile \notin part.clipped,
           NEW run \in Run, Filed(tile, run.line, Side(run)),
           NEW at, Traced(part.line, run.line, at), Len(run.line) >= 2,
           run.line = part.line \/ Plain(run.line)
    PROVE  Sound(PartOf(part, tile, run))
<1> DEFINE p == PartOf(part, tile, run)
<1>1. /\ part \in PartType /\ part.within \subseteq part.clipped
      /\ \A t \in Tiles : FineLine(t, part.line)
      /\ \A t \in part.clipped : Filed(t, part.line, Bit(part, t))
  BY DEF Sound
<1>2. /\ p.line = run.line /\ p.clipped = part.clipped \cup {tile}
      /\ p.within \subseteq p.clipped
      /\ Bit(p, tile) = Side(run)
      /\ \A t \in part.clipped : Bit(p, t) = Bit(part, t)
  BY <1>1, BitsOf
<1>3. p \in PartType
  BY <1>1 DEF PartType, PartOf, Run
<1>4. part.line \in Seq(Point) /\ run.line \in Seq(Point)
  BY <1>1 DEF PartType, Run
<1> HIDE DEF p
<1>5. ASSUME NEW t \in Tiles PROVE FineLine(t, p.line)
  <2>1. t \in Extent /\ FineLine(t, part.line)
    BY <1>1
  <2>2. FineLine(t, run.line)
    BY <1>4, <2>1, FineTraced
  <2> QED BY <1>2, <2>2
<1>6. ASSUME NEW t \in p.clipped PROVE Filed(t, p.line, Bit(p, t))
  <2>1. CASE t = tile
    BY <1>2, <2>1
  <2>2. CASE t # tile
    <3>1. t \in part.clipped /\ t \in Extent
      <4>1. t \in part.clipped
        BY <1>2, <2>2
      <4>2. t \in Tiles
        BY <1>1, <4>1 DEF PartType
      <4> QED BY <4>1, <4>2
    <3>2. Filed(t, part.line, Bit(part, t)) /\ Bit(p, t) = Bit(part, t)
      BY <1>1, <1>2, <3>1
    <3>3. CASE run.line = part.line
      BY <1>2, <3>2, <3>3
    <3>4. CASE Plain(run.line)
      <4>1. Bit(part, t) \in {0, 1}
        BY DEF Bit
      <4>2. Filed(t, run.line, Bit(part, t))
        BY <1>4, <3>1, <3>2, <3>4, <4>1, FiledTraced
      <4> QED BY <1>2, <3>2, <4>2
    <3> QED BY <3>3, <3>4
  <2> QED BY <2>1, <2>2
<1>7. Sound(p)
  BY <1>2, <1>3, <1>5, <1>6 DEF Sound
<1> QED
  BY <1>7 DEF p

-----------------------------------------------------------------------------
(* A clip keeps the invariant                                              *)

\* The parts that replace a sound part are sound, and apart from each other.
Replaced(part, sub, runs) ==
    /\ sub \in Seq(PartType) /\ Len(sub) = Len(runs) /\ Len(sub) \in Nat /\ Len(sub) >= 1
    /\ \A k \in 1 .. Len(sub) : Sound(sub[k]) /\ sub[k].line = runs[k].line
    /\ \A k \in 1 .. Len(sub) - 1 : Apart(sub[k], sub[k + 1])
    /\ \A k \in 1 .. Len(sub) : /\ part.clipped \subseteq sub[k].clipped
                                /\ \A t \in part.clipped : Bit(sub[k], t) = Bit(part, t)

\* A clip of a sound part makes such parts.
LEMMA ReplacedIs ==
    ASSUME Tiles \subseteq Extent, NEW part, Sound(part), Len(part.line) >= 2,
           NEW tile \in Tiles, tile \notin part.clipped,
           NEW runs, PartedInto(tile, part.line, runs),
           NEW sub, sub = PartsOf(part, tile, runs)
    PROVE  Replaced(part, sub, runs)
<1>1. /\ part \in PartType /\ part.within \subseteq part.clipped
  BY DEF Sound
<1>2. /\ runs \in Seq(Run) /\ Len(runs) >= 1
      /\ AllFiled(tile, runs) /\ Alternates(runs)
      /\ (Len(runs) = 1 /\ runs[1].line = part.line) \/ (Len(runs) >= 2 /\ AllPlain(runs))
  BY DEF PartedInto
<1>3. PICK at : Tracked(part.line, RunLines(runs), at)
  BY DEF PartedInto
<1>4. /\ sub \in Seq(PartType) /\ Len(sub) = Len(runs) /\ Len(runs) \in Nat
      /\ \A k \in 1 .. Len(runs) : sub[k] = PartOf(part, tile, runs[k]) /\ runs[k] \in Run
  BY <1>1, <1>2, PartsOfIs
<1>5. ASSUME NEW k \in 1 .. Len(runs)
      PROVE  /\ sub[k].line = runs[k].line /\ sub[k].clipped = part.clipped \cup {tile}
             /\ Bit(sub[k], tile) = Side(runs[k])
             /\ \A t \in part.clipped : Bit(sub[k], t) = Bit(part, t)
  <2>1. sub[k] = PartOf(part, tile, runs[k]) /\ runs[k] \in Run
    BY <1>4
  <2> QED BY <1>1, <2>1, BitsOf
<1>6. ASSUME NEW k \in 1 .. Len(runs) PROVE Sound(sub[k])
  <2>1. sub[k] = PartOf(part, tile, runs[k]) /\ runs[k] \in Run
    BY <1>4
  <2>2. Filed(tile, runs[k].line, Side(runs[k]))
    BY <1>2 DEF AllFiled
  <2>3. RunLines(runs)[k] = runs[k].line /\ k \in 1 .. Len(RunLines(runs))
    BY <1>2, RunLinesAre
  <2>4. Len(runs[k].line) >= 2 /\ Traced(part.line, runs[k].line, at[k])
    BY <1>3, <2>3, TrackFacts
  <2>5. runs[k].line = part.line \/ Plain(runs[k].line)
    <3>1. CASE Len(runs) = 1 /\ runs[1].line = part.line
      <4>1. k = 1
        BY <3>1
      <4> QED BY <3>1, <4>1
    <3>2. CASE Len(runs) >= 2 /\ AllPlain(runs)
      BY <3>2 DEF AllPlain
    <3> QED BY <1>2, <3>1, <3>2
  <2> QED BY <2>1, <2>2, <2>4, <2>5, SoundOf
<1>7. ASSUME NEW k \in 1 .. Len(runs) - 1 PROVE Apart(sub[k], sub[k + 1])
  <2>1. k \in 1 .. Len(runs) /\ k + 1 \in 1 .. Len(runs)
    BY <1>4
  <2>2. Side(runs[k + 1]) = 1 - Side(runs[k])
    BY <1>2 DEF Alternates
  <2>3. /\ Bit(sub[k], tile) = Side(runs[k]) /\ Bit(sub[k + 1], tile) = Side(runs[k + 1])
        /\ tile \in sub[k].clipped /\ tile \in sub[k + 1].clipped
    BY <1>5, <2>1
  <2>4. Side(runs[k]) \in {0, 1}
    BY DEF Side
  <2>5. Bit(sub[k], tile) # Bit(sub[k + 1], tile)
    BY <2>2, <2>3, <2>4
  <2> QED BY <2>3, <2>5 DEF Apart
<1>8. ASSUME NEW k \in 1 .. Len(runs)
      PROVE  /\ part.clipped \subseteq sub[k].clipped
             /\ \A t \in part.clipped : Bit(sub[k], t) = Bit(part, t)
  BY <1>5
<1>9. Len(sub) = Len(runs) /\ Len(runs) >= 1
  BY <1>2, <1>4
<1> QED
  BY <1>4, <1>5, <1>6, <1>7, <1>8, <1>9 DEF Replaced

\* A clip keeps the invariant.
LEMMA StepSane ==
    ASSUME Tiles \subseteq Extent, NEW o, NEW ps, Sane(o, ps),
           NEW i \in 1 .. Len(ps), NEW tile \in Tiles, tile \notin ps[i].clipped,
           NEW runs, runs = Split(ps[i].line, tile),
           NEW new, new = Splice(ps, i, PartsOf(ps[i], tile, runs))
    PROVE  Sane(o, new)
<1> DEFINE part == ps[i]
           sub == PartsOf(part, tile, runs)
           N == Len(ps)
           n == Len(sub)
           old == Drawing(ps)
           lines == Drawing(new)
<1>1. /\ o \in Seq(Point) /\ Len(o) >= 2 /\ \A t \in Tiles : FineLine(t, o)
      /\ ps \in Seq(PartType)
      /\ \A j \in 1 .. N : Sound(ps[j])
      /\ \A j \in 1 .. N - 1 : Apart(ps[j], ps[j + 1])
      /\ \/ N = 1 /\ ps[1].line = o
         \/ N >= 2 /\ \A j \in 1 .. N : Plain(ps[j].line)
  BY DEF Sane
<1>2. PICK at : Tracked(o, old, at)
  BY DEF Sane
<1>3. /\ N \in Nat /\ old \in Seq(Seq(Point)) /\ Len(old) = N
      /\ \A j \in 1 .. N : old[j] = ps[j].line /\ ps[j] \in PartType
  BY <1>1, DrawingIs
<1>4. i \in 1 .. N /\ tile \in Extent
  OBVIOUS
<1>5. Sound(part) /\ Len(part.line) >= 2 /\ part.line \in Seq(Point) /\ FineLine(tile, part.line)
      /\ old[i] = part.line
  <2>1. Sound(part) /\ old[i] = part.line /\ part \in PartType
    BY <1>1, <1>3, <1>4
  <2>2. Len(part.line) >= 2
    BY <1>2, <1>3, <1>4, <2>1, TrackFacts
  <2> QED BY <2>1, <2>2 DEF Sound, PartType
<1>6. PartedInto(tile, part.line, runs)
  BY <1>4, <1>5, SplitIs
<1>7. Replaced(part, sub, runs)
  BY <1>5, <1>6, ReplacedIs
<1>8. new = Splice(ps, i, sub)
  OBVIOUS
<1> HIDE DEF sub
<1>9. /\ sub \in Seq(PartType) /\ n = Len(runs) /\ n \in Nat /\ n >= 1
      /\ \A k \in 1 .. n : Sound(sub[k]) /\ sub[k].line = runs[k].line
      /\ \A k \in 1 .. n - 1 : Apart(sub[k], sub[k + 1])
      /\ \A k \in 1 .. n : /\ part.clipped \subseteq sub[k].clipped
                           /\ \A t \in part.clipped : Bit(sub[k], t) = Bit(part, t)
  BY <1>7 DEF Replaced
<1>10. new \in Seq(PartType) /\ Spliced(new, ps, i, sub)
  BY <1>1, <1>8, <1>9, SpliceIs
<1>11. /\ Len(new) = N + n - 1
       /\ \A j \in 1 .. i - 1 : new[j] = ps[j]
       /\ \A k \in 1 .. n : new[i - 1 + k] = sub[k]
       /\ \A m \in i + 1 .. N : new[m + n - 1] = ps[m]
  BY <1>10 DEF Spliced
<1> HIDE DEF part, N, n, old, lines
<1>12. /\ lines \in Seq(Seq(Point)) /\ Len(lines) = Len(new)
       /\ \A j \in 1 .. Len(new) : lines[j] = new[j].line
  BY <1>10, DrawingIs DEF lines
<1>20. N \in Nat /\ n \in Nat /\ n >= 1 /\ i \in 1 .. N /\ Len(new) = N + n - 1
  BY <1>3, <1>4, <1>9, <1>11
<1>13. PICK by : Tracked(part.line, RunLines(runs), by)
  BY <1>6 DEF PartedInto
<1>14. /\ Len(RunLines(runs)) = n
       /\ \A k \in 1 .. n : RunLines(runs)[k] = runs[k].line
  <2>1. runs \in Seq(Run)
    BY <1>6 DEF PartedInto
  <2> QED BY <1>9, <2>1, RunLinesAre
<1>15. Spliced(lines, old, i, RunLines(runs))
  <2>1. Len(lines) = Len(old) + Len(RunLines(runs)) - 1
    BY <1>3, <1>11, <1>12, <1>14
  <2>2. ASSUME NEW j \in 1 .. i - 1 PROVE lines[j] = old[j]
    <3>1. j \in 1 .. Len(new) /\ j \in 1 .. N
      BY <1>20
    <3>2. new[j] = ps[j]
      BY <1>11
    <3>3. old[j] = ps[j].line
      BY <1>3, <3>1
    <3> QED BY <1>12, <3>1, <3>2, <3>3
  <2>3. ASSUME NEW k \in 1 .. n PROVE lines[i - 1 + k] = RunLines(runs)[k]
    <3> DEFINE j == i - 1 + k
    <3>1. j \in 1 .. Len(new)
      BY <1>20
    <3>2. new[j] = sub[k]
      BY <1>11
    <3> HIDE DEF j
    <3>3. lines[j] = new[j].line
      BY <1>12, <3>1
    <3>4. sub[k].line = runs[k].line
      BY <1>9
    <3>5. RunLines(runs)[k] = runs[k].line
      BY <1>14
    <3>6. lines[j] = RunLines(runs)[k]
      BY <3>2, <3>3, <3>4, <3>5
    <3> QED BY <3>6 DEF j
  <2>4. ASSUME NEW m \in i + 1 .. N PROVE lines[m + n - 1] = old[m]
    <3> DEFINE j == m + n - 1
    <3>1. j \in 1 .. Len(new) /\ m \in 1 .. N
      BY <1>20
    <3>2. new[j] = ps[m]
      BY <1>11
    <3> HIDE DEF j
    <3>3. lines[j] = old[m]
      BY <1>3, <1>12, <3>1, <3>2
    <3> QED BY <3>3 DEF j
  <2> QED BY <1>3, <1>14, <2>1, <2>2, <2>3, <2>4 DEF Spliced
<1>16. \E f : Tracked(o, lines, f)
  <2>1. i \in 1 .. Len(old) /\ Tracked(old[i], RunLines(runs), by)
    BY <1>3, <1>4, <1>5, <1>13
  <2> QED BY <1>1, <1>2, <1>12, <1>15, <2>1, TrackSpliced
<1>17. ASSUME NEW j \in 1 .. Len(new) PROVE Sound(new[j])
  <2>1. j \in 1 .. N + n - 1
    BY <1>11
  <2>2. CASE j \in 1 .. i - 1
    <3>1. j \in 1 .. N
      BY <1>3, <1>4, <2>2
    <3> QED BY <1>1, <1>11, <2>2, <3>1 DEF N
  <2>3. CASE \E k \in 1 .. n : j = i - 1 + k
    BY <1>9, <1>11, <2>3
  <2>4. CASE \E m \in i + 1 .. N : j = m + n - 1
    <3>1. PICK m \in i + 1 .. N : j = m + n - 1
      BY <2>4
    <3>2. m \in 1 .. N /\ new[j] = ps[m]
      BY <1>3, <1>4, <1>11, <3>1
    <3> QED BY <1>1, <3>2 DEF N
  <2> QED BY <1>20, <2>1, <2>2, <2>3, <2>4, SpliceIndex
<1>18. ASSUME NEW j \in 1 .. Len(new) - 1 PROVE Apart(new[j], new[j + 1])
  <2>0. \A m \in 1 .. N - 1 : Apart(ps[m], ps[m + 1])
    BY <1>1 DEF N
  <2>1. j \in 1 .. N + n - 2
    BY <1>3, <1>9, <1>11
  <2>2. CASE j \in 1 .. i - 1 /\ j + 1 \in 1 .. i - 1
    <3>1. j \in 1 .. N - 1
      BY <1>3, <1>4, <2>2
    <3> QED BY <1>11, <2>0, <2>2, <3>1
  <2>3. CASE j = i - 1 /\ j \in 1 .. i - 1 /\ j + 1 = i - 1 + 1
    <3>1. j \in 1 .. N - 1 /\ j + 1 = i /\ 1 \in 1 .. n
      BY <1>3, <1>4, <1>9, <2>3
    <3>2. new[j] = ps[j] /\ new[j + 1] = sub[1]
      <4>1. new[i - 1 + 1] = sub[1]
        BY <1>11, <3>1
      <4> QED BY <1>11, <2>3, <4>1
    <3>3. Apart(ps[j], part)
      BY <2>0, <3>1 DEF part
    <3>4. PICK t \in ps[j].clipped \cap part.clipped : Bit(ps[j], t) # Bit(part, t)
      BY <3>3 DEF Apart
    <3>5. t \in sub[1].clipped /\ Bit(sub[1], t) = Bit(part, t)
      BY <1>9, <3>1, <3>4
    <3> QED BY <3>2, <3>4, <3>5 DEF Apart
  <2>4. CASE \E k \in 1 .. n - 1 : j = i - 1 + k /\ j + 1 = i - 1 + (k + 1)
    <3>1. PICK k \in 1 .. n - 1 : j = i - 1 + k /\ j + 1 = i - 1 + (k + 1)
      BY <2>4
    <3> DEFINE m == k + 1
    <3>2. k \in 1 .. n /\ m \in 1 .. n
      BY <1>9, <3>1
    <3>3. Apart(sub[k], sub[m])
      BY <1>9, <3>1
    <3>4. j + 1 = i - 1 + m
      BY <3>1
    <3> HIDE DEF m
    <3>5. new[j] = sub[k]
      BY <1>11, <3>1, <3>2
    <3>6. new[j + 1] = sub[m]
      BY <1>11, <3>2, <3>4
    <3> QED BY <3>3, <3>5, <3>6
  <2>5. CASE j = i - 1 + n /\ i + 1 \in i + 1 .. N /\ j + 1 = (i + 1) + n - 1
    <3> DEFINE m == i + 1
    <3>1. m \in i + 1 .. N /\ j + 1 = m + n - 1 /\ i \in 1 .. N - 1 /\ n \in 1 .. n
      BY <1>3, <1>4, <1>9, <2>5
    <3>2. Apart(part, ps[m])
      BY <2>0, <3>1 DEF part
    <3> HIDE DEF m
    <3>3. new[j] = sub[n]
      BY <1>11, <2>5, <3>1
    <3>4. new[j + 1] = ps[m]
      BY <1>11, <3>1
    <3>5. PICK t \in part.clipped \cap ps[m].clipped : Bit(part, t) # Bit(ps[m], t)
      BY <3>2 DEF Apart
    <3>6. t \in sub[n].clipped /\ Bit(sub[n], t) = Bit(part, t)
      BY <1>9, <3>1, <3>5
    <3> QED BY <3>3, <3>4, <3>5, <3>6 DEF Apart
  <2>6. CASE \E m \in i + 1 .. N - 1 : j = m + n - 1 /\ j + 1 = (m + 1) + n - 1
    <3>1. PICK m \in i + 1 .. N - 1 : j = m + n - 1 /\ j + 1 = (m + 1) + n - 1
      BY <2>6
    <3> DEFINE k == m + 1
    <3>2. m \in i + 1 .. N /\ k \in i + 1 .. N /\ m \in 1 .. N - 1 /\ j + 1 = k + n - 1
      BY <1>3, <1>4, <3>1
    <3>3. Apart(ps[m], ps[k])
      BY <2>0, <3>2
    <3> HIDE DEF k
    <3>4. new[j] = ps[m]
      BY <1>11, <3>1, <3>2
    <3>5. new[j + 1] = ps[k]
      BY <1>11, <3>2
    <3> QED BY <3>3, <3>4, <3>5
  <2>7. \/ j \in 1 .. i - 1 /\ j + 1 \in 1 .. i - 1
        \/ j = i - 1 /\ j \in 1 .. i - 1 /\ j + 1 = i - 1 + 1
        \/ \E k \in 1 .. n - 1 : j = i - 1 + k /\ j + 1 = i - 1 + (k + 1)
        \/ j = i - 1 + n /\ i + 1 \in i + 1 .. N /\ j + 1 = (i + 1) + n - 1
        \/ \E m \in i + 1 .. N - 1 : j = m + n - 1 /\ j + 1 = (m + 1) + n - 1
    BY <1>20, <2>1, SplicePair
  <2> QED BY <2>2, <2>3, <2>4, <2>5, <2>6, <2>7
<1>19. \/ Len(new) = 1 /\ new[1].line = o
       \/ Len(new) >= 2 /\ \A j \in 1 .. Len(new) : Plain(new[j].line)
  <2>0. \/ N = 1 /\ ps[1].line = o
        \/ N >= 2 /\ \A j \in 1 .. N : Plain(ps[j].line)
    BY <1>1 DEF N
  <2>00. \/ n = 1 /\ sub[1].line = part.line
         \/ n >= 2 /\ \A k \in 1 .. n : Plain(sub[k].line)
    <3>1. \/ Len(runs) = 1 /\ runs[1].line = part.line
          \/ Len(runs) >= 2 /\ AllPlain(runs)
      BY <1>6 DEF PartedInto
    <3>2. CASE Len(runs) = 1 /\ runs[1].line = part.line
      <4>1. n = 1 /\ 1 \in 1 .. n
        BY <1>9, <3>2
      <4> QED BY <1>9, <3>2, <4>1
    <3>3. CASE Len(runs) >= 2 /\ AllPlain(runs)
      BY <1>9, <3>3 DEF AllPlain
    <3> QED BY <3>1, <3>2, <3>3
  <2>1. CASE N = 1 /\ n = 1
    <3>1. i = 1 /\ Len(new) = 1 /\ 1 \in 1 .. n /\ i - 1 + 1 = 1
      BY <1>4, <1>11, <2>1
    <3>2. new[1] = sub[1]
      <4>1. new[i - 1 + 1] = sub[1]
        BY <1>11, <3>1
      <4> QED BY <3>1, <4>1
    <3>3. sub[1].line = part.line /\ ps[1].line = o
      BY <2>0, <2>00, <2>1
    <3> QED BY <3>1, <3>2, <3>3 DEF part
  <2>2. CASE ~(N = 1 /\ n = 1)
    <3>1. Len(new) >= 2
      BY <1>20, <2>2
    <3>2. ASSUME NEW j \in 1 .. N, j # i PROVE Plain(ps[j].line)
      <4>1. N # 1
        BY <1>4, <3>2
      <4> QED BY <2>0, <4>1
    <3>3. ASSUME NEW k \in 1 .. n PROVE Plain(sub[k].line)
      <4>1. CASE n >= 2
        BY <2>00, <4>1
      <4>2. CASE n = 1
        <5>1. k = 1 /\ N # 1
          BY <2>2, <4>2
        <5>2. Plain(part.line)
          BY <1>4, <2>0, <5>1 DEF part
        <5>3. sub[1].line = part.line
          BY <2>00, <4>2
        <5> QED BY <5>1, <5>2, <5>3
      <4> QED BY <1>20, <4>1, <4>2
    <3>4. ASSUME NEW j \in 1 .. Len(new) PROVE Plain(new[j].line)
      <4>1. j \in 1 .. N + n - 1
        BY <1>11
      <4>2. CASE j \in 1 .. i - 1
        <5>1. j \in 1 .. N /\ j # i
          BY <1>3, <1>4, <4>2
        <5> QED BY <1>11, <3>2, <4>2, <5>1
      <4>3. CASE \E k \in 1 .. n : j = i - 1 + k
        BY <1>11, <3>3, <4>3
      <4>4. CASE \E m \in i + 1 .. N : j = m + n - 1
        <5>1. PICK m \in i + 1 .. N : j = m + n - 1
          BY <4>4
        <5>2. m \in 1 .. N /\ m # i /\ new[j] = ps[m]
          BY <1>3, <1>4, <1>11, <5>1
        <5> QED BY <3>2, <5>2
      <4> QED BY <1>20, <4>1, <4>2, <4>3, <4>4, SpliceIndex
    <3> QED BY <3>1, <3>4
  <2> QED BY <2>1, <2>2
<1> QED
  BY <1>1, <1>10, <1>16, <1>17, <1>18, <1>19 DEF Sane, lines

-----------------------------------------------------------------------------
(* Pieces are true, and clips happen once                                  *)

IInv == Sane(original, parts)

\* What is assumed of the lines and the tiles.
LEMMA Assumed ==
    /\ Lines \subseteq Seq(Point) /\ Tiles \subseteq Extent
    /\ \A line \in Lines : Len(line) >= 2
    /\ \A line \in Lines, tile \in Tiles : FineLine(tile, line)
BY ClippingAssumption DEF ClippingAssumption, Point, Extent, FineLine

\* A line that nothing has cut is its own walk.
LEMMA InitSane == Init => IInv
<1> SUFFICES ASSUME Init PROVE Sane(original, parts)
  BY DEF IInv
<1>1. /\ original \in Seq(Point) /\ Len(original) >= 2
      /\ \A tile \in Tiles : FineLine(tile, original)
  BY Assumed DEF Init
<1> DEFINE part == [line |-> original, clipped |-> {}, within |-> {}]
           own == [i \in {1} |-> Own(original)]
<1>2. part \in PartType /\ part.line = original /\ part.clipped = {} /\ part.within = {}
  BY <1>1 DEF PartType
<1>3. parts = <<part>>
  BY DEF Init
<1> HIDE DEF part
<1>4. parts \in Seq(PartType) /\ Len(parts) = 1 /\ parts[1] = part
  BY <1>2, <1>3
<1>5. 1 .. Len(parts) = {1} /\ 1 .. Len(parts) - 1 = {}
  BY <1>4
<1>6. Sound(part)
  BY <1>1, <1>2 DEF Sound
<1> DEFINE lines == Drawing(parts)
<1>7. lines \in Seq(Seq(Point)) /\ Len(lines) = 1 /\ lines[1] = original
  BY <1>2, <1>4, <1>5, DrawingIs
<1>8. own[1] = Own(original)
  OBVIOUS
<1> HIDE DEF lines, own
<1>9. Tracked(original, lines, own)
  BY <1>1, <1>7, <1>8, TrackedWhole
<1> QED
  BY <1>1, <1>2, <1>4, <1>5, <1>6, <1>9 DEF Sane, lines

\* Every clip keeps the invariant.
LEMMA NextSane == IInv /\ [Next]_vars => IInv'
<1> SUFFICES ASSUME IInv, [Next]_vars PROVE IInv'
  OBVIOUS
<1>1. CASE UNCHANGED vars
  BY <1>1 DEF IInv, vars
<1>2. ASSUME NEW i \in DOMAIN parts, NEW tile \in Tiles, ClipPart(i, tile)
      PROVE  IInv'
  <2>1. Sane(original, parts) /\ parts \in Seq(PartType)
    BY DEF IInv, Sane
  <2>2. i \in 1 .. Len(parts)
    BY <2>1, DrawingIs
  <2> DEFINE runs == Split(parts[i].line, tile)
  <2>3. tile \notin parts[i].clipped /\ original' = original
    BY <1>2 DEF ClipPart
  <2>4. parts' = Splice(parts, i, PartsOf(parts[i], tile, runs))
    BY <1>2 DEF ClipPart, Splice, PartsOf, PartOf
  <2>5. runs = Split(parts[i].line, tile)
    OBVIOUS
  <2> HIDE DEF runs
  <2>6. Sane(original, parts')
    BY <2>1, <2>2, <2>3, <2>4, <2>5, Assumed, StepSane
  <2>7. Sane(original', parts')
    BY <2>3, <2>6
  <2> QED BY <2>7 DEF IInv
<1> QED
  BY <1>1, <1>2 DEF Next

\* However often the line is cut by clip_edge_to_tile, and by whichever tiles, its
\* parts are a walk along it, each on its side of every tile that it was clipped
\* against, and neighbours differ in a side.
THEOREM SaneAlways == Spec => []IInv
BY InitSane, NextSane, PTL DEF Spec

\* What the invariant says of the parts.
LEMMA SaneFacts ==
    ASSUME IInv
    PROVE  /\ original \in Seq(Point) /\ Len(original) >= 2
           /\ Len(parts) \in Nat /\ Len(parts) >= 1 /\ DOMAIN parts = 1 .. Len(parts)
           /\ \A i \in 1 .. Len(parts) : /\ Sound(parts[i]) /\ parts[i] \in PartType
                                         /\ Len(parts[i].line) >= 2
                                         /\ parts[i].line \in Seq(Point)
           /\ \E at : Tracked(original, Drawing(parts), at)
<1>1. /\ original \in Seq(Point) /\ Len(original) >= 2
      /\ parts \in Seq(PartType)
      /\ \A i \in 1 .. Len(parts) : Sound(parts[i])
      /\ \E at : Tracked(original, Drawing(parts), at)
  BY DEF IInv, Sane
<1>2. PICK at : Tracked(original, Drawing(parts), at)
  BY <1>1
<1>3. /\ Len(parts) \in Nat /\ DOMAIN parts = 1 .. Len(parts)
      /\ Len(Drawing(parts)) = Len(parts)
      /\ \A i \in 1 .. Len(parts) : Drawing(parts)[i] = parts[i].line /\ parts[i] \in PartType
  BY <1>1, DrawingIs
<1>4. Len(parts) >= 1
  BY <1>2, <1>3, TrackFacts
<1>5. \A i \in 1 .. Len(parts) : Len(parts[i].line) >= 2
  BY <1>2, <1>3, TrackFacts
<1>6. \A i \in 1 .. Len(parts) : parts[i].line \in Seq(Point)
  BY <1>3 DEF PartType
<1> QED
  BY <1>1, <1>3, <1>4, <1>5, <1>6

\* The parts chain, and none of them is a stub.
LEMMA SaneChained == IInv => Chained
<1> SUFFICES ASSUME IInv, NEW i \in DOMAIN parts
             PROVE  /\ Len(parts[i].line) >= 2
                    /\ Len(parts) > 1 =>
                          \A k \in 1 .. Len(parts[i].line) - 1 : parts[i].line[k] # parts[i].line[k + 1]
                    /\ i < Len(parts) => Last(parts[i].line) = parts[i + 1].line[1]
  BY DEF Chained
<1>1. i \in 1 .. Len(parts) /\ Len(parts) \in Nat /\ Len(parts[i].line) >= 2
  BY SaneFacts
<1>2. ASSUME Len(parts) > 1 PROVE Plain(parts[i].line)
  <2>1. \/ Len(parts) = 1 /\ parts[1].line = original
        \/ Len(parts) >= 2 /\ \A j \in 1 .. Len(parts) : Plain(parts[j].line)
    BY DEF IInv, Sane
  <2> QED BY <1>1, <1>2, <2>1
<1>3. ASSUME i < Len(parts) PROVE Last(parts[i].line) = parts[i + 1].line[1]
  <2>1. i \in 1 .. Len(parts) - 1 /\ i + 1 \in 1 .. Len(parts)
    BY <1>1, <1>3
  <2>2. PICK at : Tracked(original, Drawing(parts), at)
    BY SaneFacts
  <2>3. parts \in Seq(PartType)
    BY DEF IInv, Sane
  <2>4. /\ Len(Drawing(parts)) = Len(parts)
        /\ Drawing(parts)[i] = parts[i].line /\ Drawing(parts)[i + 1] = parts[i + 1].line
    BY <1>1, <2>1, <2>3, DrawingIs
  <2>5. Joint(original, Drawing(parts)[i], at[i], Drawing(parts)[i + 1], at[i + 1])
    BY <2>1, <2>2, <2>4, TrackFacts
  <2>6. LastOf(parts[i].line) = parts[i + 1].line[1]
    BY <2>4, <2>5 DEF Joint
  <2> QED BY <2>6 DEF LastOf, Last
<1> QED
  BY <1>1, <1>2, <1>3 DEF Plain

\* The traces are the function that Follows asks for.
LEMMA TrackedFollows ==
    ASSUME NEW o \in Seq(Point), NEW lines, NEW by, Tracked(o, lines, by)
    PROVE  Follows(o, lines)
<1>1. /\ Len(lines) \in Nat /\ Len(lines) >= 1 /\ lines \in Seq(Seq(Point))
      /\ \A i \in 1 .. Len(lines) :
                 /\ lines[i] \in Seq(Point) /\ Len(lines[i]) >= 2 /\ Traced(o, lines[i], by[i])
      /\ Opens(o, lines[1], by[1])
      /\ \A i \in 1 .. Len(lines) - 1 : Joint(o, lines[i], by[i], lines[i + 1], by[i + 1])
      /\ Closes(o, lines[Len(lines)], by[Len(lines)])
  BY TrackFacts
<1>2. DOMAIN lines = 1 .. Len(lines)
  BY <1>1, LenProperties
<1>3. \A i \in 1 .. Len(lines) : Len(lines[i]) \in Nat /\ DOMAIN lines[i] = 1 .. Len(lines[i])
  BY <1>1, LenProperties
<1> DEFINE f == [v \in Vertices(lines) |-> by[v[1]][v[2]]]
           at == [i \in DOMAIN lines |-> [k \in DOMAIN lines[i] |-> f[<<i, k>>]]]
<1>4. ASSUME NEW i \in 1 .. Len(lines), NEW k \in 1 .. Len(lines[i])
      PROVE  <<i, k>> \in Vertices(lines) /\ at[i][k] = by[i][k]
  <2>1. i \in DOMAIN lines /\ k \in DOMAIN lines[i]
    BY <1>2, <1>3
  <2>2. <<i, k>> \in Vertices(lines)
    BY <2>1 DEF Vertices
  <2>3. f[<<i, k>>] = by[i][k]
    BY <2>2
  <2> QED BY <2>1, <2>2, <2>3
<1>5. f \in [Vertices(lines) -> 1 .. Len(o) - 1]
  <2> SUFFICES ASSUME NEW v \in Vertices(lines) PROVE by[v[1]][v[2]] \in 1 .. Len(o) - 1
    OBVIOUS
  <2>1. PICK i \in DOMAIN lines : v \in {i} \X DOMAIN lines[i]
    BY DEF Vertices
  <2>2. v[1] = i /\ v[2] \in 1 .. Len(lines[i]) /\ i \in 1 .. Len(lines)
    BY <1>2, <1>3, <2>1
  <2> QED BY <1>1, <2>2 DEF Traced
<1> HIDE DEF at, f
<1>6. 1 \in 1 .. Len(lines) /\ Len(lines) \in 1 .. Len(lines)
  BY <1>1
<1>7. ASSUME NEW i \in 1 .. Len(lines)
      PROVE  /\ at[i][1] = by[i][1] /\ at[i][Len(lines[i])] = by[i][Len(lines[i])]
             /\ \A k \in 1 .. Len(lines[i]) - 1 :
                    Leg(o, lines[i][k], at[i][k], lines[i][k + 1], at[i][k + 1])
  <2>1. Len(lines[i]) \in Nat /\ Len(lines[i]) >= 2
    BY <1>1, <1>3
  <2>2. 1 \in 1 .. Len(lines[i]) /\ Len(lines[i]) \in 1 .. Len(lines[i])
    BY <2>1
  <2>3. ASSUME NEW k \in 1 .. Len(lines[i]) - 1
        PROVE  Leg(o, lines[i][k], at[i][k], lines[i][k + 1], at[i][k + 1])
    <3>1. k \in 1 .. Len(lines[i]) /\ k + 1 \in 1 .. Len(lines[i])
      BY <2>1
    <3>2. Leg(o, lines[i][k], by[i][k], lines[i][k + 1], by[i][k + 1])
      BY <1>1 DEF Traced
    <3>3. at[i][k] = by[i][k] /\ at[i][k + 1] = by[i][k + 1]
      BY <1>4, <3>1
    <3> QED BY <3>2, <3>3
  <2> QED BY <1>4, <2>2, <2>3
<1>8. lines[1][1] = o[1] /\ Turn(o, o[1], 1, at[1][1])
  <2>1. at[1][1] = by[1][1]
    BY <1>6, <1>7
  <2> QED BY <1>1, <2>1 DEF Opens
<1>9. ASSUME NEW i \in 1 .. Len(lines) - 1
      PROVE  Turn(o, lines[i + 1][1], at[i][Len(lines[i])], at[i + 1][1])
  <2>1. i \in 1 .. Len(lines) /\ i + 1 \in 1 .. Len(lines)
    BY <1>1
  <2>2. at[i][Len(lines[i])] = by[i][Len(lines[i])] /\ at[i + 1][1] = by[i + 1][1]
    BY <1>7, <2>1
  <2>3. Joint(o, lines[i], by[i], lines[i + 1], by[i + 1])
    BY <1>1
  <2> QED BY <2>2, <2>3 DEF Joint
<1>10. /\ Turn(o, Last(lines[Len(lines)]), at[Len(lines)][Len(lines[Len(lines)])], Len(o))
  <2>1. at[Len(lines)][Len(lines[Len(lines)])] = by[Len(lines)][Len(lines[Len(lines)])]
    BY <1>6, <1>7
  <2> QED BY <1>1, <2>1 DEF Closes, LastOf, Last
<1>11. Track(o, lines, at)
  BY <1>2, <1>7, <1>8, <1>9, <1>10 DEF Track
<1> QED
  BY <1>5, <1>11 DEF Follows, at

\* The line that is drawn stays the same.
LEMMA SanePath == IInv => PathKept
<1> SUFFICES ASSUME IInv PROVE Chained /\ Follows(original, Drawn)
  BY DEF PathKept
<1>1. original \in Seq(Point) /\ \E at : Tracked(original, Drawing(parts), at)
  BY SaneFacts
<1>2. Drawn = Drawing(parts)
  BY DEF Drawn, Drawing
<1> QED
  BY <1>1, <1>2, SaneChained, TrackedFollows

\* Every part is where its bucket says.
LEMMA SaneBuckets == IInv => BucketsTrue
<1> SUFFICES ASSUME IInv, NEW i \in DOMAIN parts, NEW tile \in parts[i].clipped,
                    NEW k \in 1 .. Len(parts[i].line) - 1
             PROVE  LET points == OnSegment(parts[i].line[k], parts[i].line[k + 1])
                        within == {p \in points : Inside(tile, p)}
                    IN  IF tile \in parts[i].within THEN within = points
                        ELSE \A p, q \in within : p = q
  BY DEF BucketsTrue
<1> DEFINE line == parts[i].line
           points == OnSegment(line[k], line[k + 1])
           within == {p \in points : Inside(tile, p)}
<1>1. /\ i \in 1 .. Len(parts) /\ Sound(parts[i]) /\ parts[i] \in PartType
      /\ line \in Seq(Point)
  BY SaneFacts
<1>2. tile \in Extent /\ Filed(tile, line, Bit(parts[i], tile))
  BY <1>1, Assumed DEF Sound, PartType
<1>3. /\ k \in 1 .. Len(line) /\ k + 1 \in 1 .. Len(line)
      /\ line[k] \in Point /\ line[k + 1] \in Point
  BY <1>1, LineFacts
<1>4. ASSUME NEW p \in points PROVE On(p, line[k], line[k + 1])
  BY <1>3, OnSegmentIs
<1>5. CASE tile \in parts[i].within
  <2>1. InLine(tile, line)
    BY <1>2, <1>5 DEF Filed, Bit
  <2>2. Inside(tile, line[k]) /\ Inside(tile, line[k + 1])
    BY <1>3, <2>1 DEF InLine
  <2>3. \A p \in points : Inside(tile, p)
    BY <1>2, <1>3, <1>4, <2>2, InsideConvex
  <2> QED BY <1>5, <2>3
<1>6. CASE tile \notin parts[i].within
  <2>1. OutLine(tile, line)
    BY <1>2, <1>6 DEF Filed, Bit
  <2>2. Grazes(tile, line[k], line[k + 1])
    BY <2>1 DEF OutLine
  <2>3. \A p, q \in within : p = q
    BY <1>4, <2>2 DEF Grazes, On
  <2> QED BY <1>6, <2>3
<1> QED
  BY <1>5, <1>6

\* A part that was clipped against a tile stays whole.
LEMMA SaneOnce == IInv => ClipsOnce
<1> SUFFICES ASSUME IInv, NEW i \in DOMAIN parts, NEW tile \in parts[i].clipped,
                    NEW again, again = Split(parts[i].line, tile)
             PROVE  Len(again) = 1 /\ (again[1].inside <=> tile \in parts[i].within)
  BY DEF ClipsOnce
<1> DEFINE line == parts[i].line
           s == Bit(parts[i], tile)
<1>1. /\ i \in 1 .. Len(parts) /\ Sound(parts[i]) /\ parts[i] \in PartType
      /\ line \in Seq(Point) /\ Len(line) >= 2
  BY SaneFacts
<1>2. tile \in Tiles /\ tile \in Extent /\ Filed(tile, line, s) /\ FineLine(tile, line)
  BY <1>1, Assumed DEF Sound, PartType
<1>3. s \in {0, 1} /\ (s = 1 <=> tile \in parts[i].within)
  BY DEF Bit
<1>4. again = Split(line, tile)
  OBVIOUS
<1> HIDE DEF line, s
<1>5. Len(again) = 1 /\ Side(again[1]) = s
  BY <1>1, <1>2, <1>3, <1>4, SplitWhole
<1>6. again[1].inside <=> s = 1
  BY <1>5 DEF Side
<1> QED
  BY <1>3, <1>5, <1>6

\* The parts that clip_edge_to_tile leaves are the line that was cut, in its order,
\* and each of them is on the side of the border that it was filed under.
THEOREM PiecesTrueAlways == Spec => []PiecesTrue
<1>1. IInv => PiecesTrue
  BY SanePath, SaneBuckets DEF PiecesTrue
<1> QED
  BY <1>1, SaneAlways, PTL

\* A second clip against a tile cuts nothing, also after other tiles have cut the
\* parts further: no crossing gets a second node.
THEOREM ClipsOnceAlways == Spec => []ClipsOnce
BY SaneOnce, SaneAlways, PTL

-----------------------------------------------------------------------------
(* Where a line changes sides                                              *)

\* Just before, and just after, a point of a segment of the line, the line is on
\* a side of the tile.
Before(l, tile, s, n, q) ==
    /\ n \in 1 .. Len(l) - 1 /\ On(q, l[n], l[n + 1])
    /\ \E p : /\ On(p, l[n], l[n + 1]) /\ Place(p, l[n], l[n + 1]) < Place(q, l[n], l[n + 1])
              /\ Fits(tile, s, p, q)
After(l, tile, s, n, q) ==
    /\ n \in 1 .. Len(l) - 1 /\ On(q, l[n], l[n + 1])
    /\ \E r : /\ On(r, l[n], l[n + 1]) /\ Place(q, l[n], l[n + 1]) < Place(r, l[n], l[n + 1])
              /\ Fits(tile, s, q, r)

\* A part of a segment on one side is on that side.
LEMMA FitsSub ==
    ASSUME NEW tile \in Extent, NEW s, NEW a \in Point, NEW b \in Point, Fits(tile, s, a, b),
           NEW p, On(p, a, b), NEW q, On(q, a, b)
    PROVE  Fits(tile, s, p, q)
<1>1. CASE s = 1
  BY <1>1, InsideConvex DEF Fits
<1>2. CASE s # 1
  BY <1>2, GrazesSub DEF Fits
<1> QED
  BY <1>1, <1>2

\* Two segments of different sides share no more than a point.
LEMMA SidesClash ==
    ASSUME NEW tile \in Extent, NEW p \in Point, NEW q \in Point, p # q,
           NEW s \in {0, 1}, Fits(tile, s, p, q), NEW t \in {0, 1}, Fits(tile, t, p, q)
    PROVE  s = t
<1> SUFFICES ASSUME s # t PROVE FALSE
  OBVIOUS
<1>1. Inside(tile, p) /\ Inside(tile, q) /\ Grazes(tile, p, q)
  BY DEF Fits
<1> QED
  BY <1>1, InsideRuns

\* Just before a point the line is on one side only.
LEMMA BeforeOne ==
    ASSUME NEW tile \in Extent, NEW l \in Seq(Point), NEW n, NEW q,
           NEW s \in {0, 1}, Before(l, tile, s, n, q), NEW t \in {0, 1}, Before(l, tile, t, n, q)
    PROVE  s = t
<1> DEFINE a == l[n]
           b == l[n + 1]
<1>1. n \in 1 .. Len(l) - 1 /\ On(q, a, b)
  BY DEF Before
<1>2. a \in Point /\ b \in Point /\ q \in Point
  BY <1>1, LineFacts DEF On
<1>3. PICK p : On(p, a, b) /\ Place(p, a, b) < Place(q, a, b) /\ Fits(tile, s, p, q)
  BY DEF Before
<1>4. PICK r : On(r, a, b) /\ Place(r, a, b) < Place(q, a, b) /\ Fits(tile, t, r, q)
  BY DEF Before
<1> HIDE DEF a, b
<1>5. p \in Point /\ r \in Point
  BY <1>3, <1>4 DEF On
<1>6. Place(p, a, b) \in Int /\ Place(r, a, b) \in Int /\ Place(q, a, b) \in Int
  BY <1>1, <1>2, <1>3, <1>4, PlaceIs
<1>7. p # q /\ r # q
  BY <1>3, <1>4, <1>6
<1>8. CASE Place(p, a, b) <= Place(r, a, b)
  <2>1. Place(p, a, b) <= Place(q, a, b) /\ Place(r, a, b) <= Place(q, a, b)
    BY <1>3, <1>4, <1>6
  <2>2. Between(r, p, q)
    BY <1>1, <1>2, <1>3, <1>4, <1>5, <1>8, <2>1, PlaceBetween
  <2>3. On(r, p, q) /\ On(q, p, q)
    BY <1>2, <1>5, <2>2, EndsOn DEF On
  <2>4. Fits(tile, s, r, q)
    BY <1>2, <1>3, <1>5, <2>3, FitsSub
  <2> QED BY <1>2, <1>4, <1>5, <1>7, <2>4, SidesClash
<1>9. CASE Place(r, a, b) <= Place(p, a, b)
  <2>1. Place(r, a, b) <= Place(q, a, b) /\ Place(p, a, b) <= Place(q, a, b)
    BY <1>3, <1>4, <1>6
  <2>2. Between(p, r, q)
    BY <1>1, <1>2, <1>3, <1>4, <1>5, <1>9, <2>1, PlaceBetween
  <2>3. On(p, r, q) /\ On(q, r, q)
    BY <1>2, <1>5, <2>2, EndsOn DEF On
  <2>4. Fits(tile, t, p, q)
    BY <1>2, <1>4, <1>5, <2>3, FitsSub
  <2> QED BY <1>2, <1>3, <1>5, <1>7, <2>4, SidesClash
<1> QED
  BY <1>6, <1>8, <1>9

\* So it is just after a point.
LEMMA AfterOne ==
    ASSUME NEW tile \in Extent, NEW l \in Seq(Point), NEW n, NEW q,
           NEW s \in {0, 1}, After(l, tile, s, n, q), NEW t \in {0, 1}, After(l, tile, t, n, q)
    PROVE  s = t
<1> DEFINE a == l[n]
           b == l[n + 1]
<1>1. n \in 1 .. Len(l) - 1 /\ On(q, a, b)
  BY DEF After
<1>2. a \in Point /\ b \in Point /\ q \in Point
  BY <1>1, LineFacts DEF On
<1>3. PICK p : On(p, a, b) /\ Place(q, a, b) < Place(p, a, b) /\ Fits(tile, s, q, p)
  BY DEF After
<1>4. PICK r : On(r, a, b) /\ Place(q, a, b) < Place(r, a, b) /\ Fits(tile, t, q, r)
  BY DEF After
<1> HIDE DEF a, b
<1>5. p \in Point /\ r \in Point
  BY <1>3, <1>4 DEF On
<1>6. Place(p, a, b) \in Int /\ Place(r, a, b) \in Int /\ Place(q, a, b) \in Int
  BY <1>1, <1>2, <1>3, <1>4, PlaceIs
<1>7. q # p /\ q # r
  BY <1>3, <1>4, <1>6
<1>8. CASE Place(r, a, b) <= Place(p, a, b)
  <2>1. Place(q, a, b) <= Place(p, a, b) /\ Place(q, a, b) <= Place(r, a, b)
    BY <1>3, <1>4, <1>6
  <2>2. Between(r, q, p)
    BY <1>1, <1>2, <1>3, <1>4, <1>5, <1>8, <2>1, PlaceBetween
  <2>3. On(r, q, p) /\ On(q, q, p)
    BY <1>2, <1>5, <2>2, EndsOn DEF On
  <2>4. Fits(tile, s, q, r)
    BY <1>2, <1>3, <1>5, <2>3, FitsSub
  <2> QED BY <1>2, <1>4, <1>5, <1>7, <2>4, SidesClash
<1>9. CASE Place(p, a, b) <= Place(r, a, b)
  <2>1. Place(q, a, b) <= Place(r, a, b) /\ Place(q, a, b) <= Place(p, a, b)
    BY <1>3, <1>4, <1>6
  <2>2. Between(p, q, r)
    BY <1>1, <1>2, <1>3, <1>4, <1>5, <1>9, <2>1, PlaceBetween
  <2>3. On(p, q, r) /\ On(q, q, r)
    BY <1>2, <1>5, <2>2, EndsOn DEF On
  <2>4. Fits(tile, t, q, p)
    BY <1>2, <1>4, <1>5, <2>3, FitsSub
  <2> QED BY <1>2, <1>3, <1>5, <1>7, <2>4, SidesClash
<1> QED
  BY <1>6, <1>8, <1>9

\* Where something follows, the segment has not ended.
LEMMA AfterGoesOn ==
    ASSUME NEW tile, NEW l \in Seq(Point), NEW n, NEW q, NEW s, After(l, tile, s, n, q)
    PROVE  l[n + 1] # q
<1> DEFINE a == l[n]
           b == l[n + 1]
<1>1. n \in 1 .. Len(l) - 1 /\ On(q, a, b)
  BY DEF After
<1>2. a \in Point /\ b \in Point
  BY <1>1, LineFacts
<1>3. PICK r : On(r, a, b) /\ Place(q, a, b) < Place(r, a, b)
  BY DEF After
<1> HIDE DEF a, b
<1>4. Place(r, a, b) <= Place(b, a, b) /\ On(b, a, b)
  BY <1>2, <1>3, PlaceLast
<1>5. Place(r, a, b) \in Int /\ Place(q, a, b) \in Int /\ Place(b, a, b) \in Int
  BY <1>1, <1>2, <1>3, <1>4, PlaceIs
<1>6. b # q
  BY <1>3, <1>4, <1>5
<1> QED
  BY <1>6 DEF b

\* What follows a point is the same wherever the line turns to at it.
LEMMA AfterTurns ==
    ASSUME NEW tile \in Extent, NEW l \in Seq(Point), NEW n \in Int, NEW q,
           NEW s \in {0, 1}, NEW m, After(l, tile, s, m, q), Turn(l, q, n, m),
           NEW t \in {0, 1}, NEW k, After(l, tile, t, k, q), Turn(l, q, n, k)
    PROVE  s = t
<1>1. m \in Int /\ k \in Int /\ n <= m /\ n <= k
  BY DEF After, Turn
<1>2. ~(m < k)
  <2> SUFFICES ASSUME m < k PROVE FALSE
    OBVIOUS
  <2>1. m + 1 \in n + 1 .. k
    BY <1>1
  <2> QED BY <2>1, AfterGoesOn DEF Turn
<1>3. ~(k < m)
  <2> SUFFICES ASSUME k < m PROVE FALSE
    OBVIOUS
  <2>1. k + 1 \in n + 1 .. m
    BY <1>1
  <2> QED BY <2>1, AfterGoesOn DEF Turn
<1>4. m = k
  BY <1>1, <1>2, <1>3
<1> QED
  BY <1>4, AfterOne

\* A segment of a line that follows the line shows the side on both its ends.
LEMMA LegShows ==
    ASSUME NEW tile, NEW l \in Seq(Point), NEW r, Plain(r), NEW at, Traced(l, r, at),
           NEW k \in 1 .. Len(r) - 1, NEW s, Fits(tile, s, r[k], r[k + 1]),
           NEW n, n = at[k + 1]
    PROVE  Before(l, tile, s, n, r[k + 1]) /\ After(l, tile, s, n, r[k])
<1>1. r \in Seq(Point)
  BY PlainFacts
<1>2. /\ n \in 1 .. Len(l) - 1 /\ l[n] \in Point /\ l[n + 1] \in Point
      /\ On(r[k], l[n], l[n + 1]) /\ On(r[k + 1], l[n], l[n + 1])
      /\ Place(r[k], l[n], l[n + 1]) <= Place(r[k + 1], l[n], l[n + 1])
  BY <1>1, LegOn
<1>3. r[k] # r[k + 1]
  BY DEF Plain
<1>4. Place(r[k], l[n], l[n + 1]) # Place(r[k + 1], l[n], l[n + 1])
  BY <1>2, <1>3, PlaceOrder
<1>5. Place(r[k], l[n], l[n + 1]) \in Int /\ Place(r[k + 1], l[n], l[n + 1]) \in Int
  BY <1>2, PlaceIs
<1>6. Place(r[k], l[n], l[n + 1]) < Place(r[k + 1], l[n], l[n + 1])
  BY <1>2, <1>4, <1>5
<1> QED
  BY <1>2, <1>6 DEF Before, After

\* The segments of a line on one side are on it.
LEMMA FiledFits ==
    ASSUME NEW tile, NEW r \in Seq(Point), NEW s \in {0, 1}, Filed(tile, r, s),
           NEW k \in 1 .. Len(r) - 1
    PROVE  Fits(tile, s, r[k], r[k + 1])
<1>1. k \in 1 .. Len(r) /\ k + 1 \in 1 .. Len(r)
  BY LineFacts
<1>2. CASE s = 1
  BY <1>1, <1>2 DEF Filed, InLine, Fits
<1>3. CASE s = 0
  BY <1>3 DEF Filed, OutLine, Fits
<1> QED
  BY <1>2, <1>3

\* The points where a line changes sides.
Turnings(l, tile) ==
    {q \in Point : \E n, m \in 1 .. Len(l) - 1, s \in {0, 1} :
        Before(l, tile, s, n, q) /\ After(l, tile, 1 - s, m, q) /\ Turn(l, q, n, m)}

\* A line on one side of the tile has none.
LEMMA WholeTurns ==
    ASSUME NEW tile \in Extent, NEW l \in Seq(Point), NEW s \in {0, 1}, Filed(tile, l, s)
    PROVE  Turnings(l, tile) = {}
<1> SUFFICES ASSUME NEW q \in Point, NEW n \in 1 .. Len(l) - 1, NEW m \in 1 .. Len(l) - 1,
                    NEW t \in {0, 1}, Before(l, tile, t, n, q), After(l, tile, 1 - t, m, q)
             PROVE  FALSE
  BY DEF Turnings
<1>1. l[n] \in Point /\ l[n + 1] \in Point /\ l[m] \in Point /\ l[m + 1] \in Point
  BY LineFacts
<1>2. Fits(tile, s, l[n], l[n + 1]) /\ Fits(tile, s, l[m], l[m + 1])
  BY FiledFits
<1>3. Before(l, tile, s, n, q)
  <2>1. PICK p : /\ On(p, l[n], l[n + 1]) /\ Place(p, l[n], l[n + 1]) < Place(q, l[n], l[n + 1])
    BY DEF Before
  <2>2. On(q, l[n], l[n + 1])
    BY DEF Before
  <2>3. Fits(tile, s, p, q)
    BY <1>1, <1>2, <2>1, <2>2, FitsSub
  <2> QED BY <2>1, <2>2, <2>3 DEF Before
<1>4. After(l, tile, s, m, q)
  <2>1. PICK r : /\ On(r, l[m], l[m + 1]) /\ Place(q, l[m], l[m + 1]) < Place(r, l[m], l[m + 1])
    BY DEF After
  <2>2. On(q, l[m], l[m + 1])
    BY DEF After
  <2>3. Fits(tile, s, q, r)
    BY <1>1, <1>2, <2>1, <2>2, FitsSub
  <2> QED BY <2>1, <2>2, <2>3 DEF After
<1>5. 1 - t \in {0, 1} /\ 1 - t # t
  OBVIOUS
<1>6. t = s
  BY <1>3, BeforeOne
<1>7. 1 - t = s
  BY <1>4, <1>5, AfterOne
<1> QED
  BY <1>5, <1>6, <1>7

-----------------------------------------------------------------------------
(* A walk along a line passes all its points                               *)

\* A vertex on segment a of the line is at point q of segment n, or further.
Reached(l, n, q, x, a) ==
    n < a \/ (a = n /\ Place(q, l[n], l[n + 1]) <= Place(x, l[n], l[n + 1]))

\* No turn gets to a point that is not the begin of its segment.
LEMMA NoTurnReaches ==
    ASSUME NEW l \in Seq(Point), NEW n \in 1 .. Len(l) - 1, NEW q, On(q, l[n], l[n + 1]),
           0 < Place(q, l[n], l[n + 1]),
           NEW x, NEW a \in Int, NEW b \in Int, Turn(l, x, a, b), ~Reached(l, n, q, x, a)
    PROVE  ~Reached(l, n, q, x, b)
<1> DEFINE c == l[n]
           d == l[n + 1]
<1>1. c \in Point /\ d \in Point
  BY LineFacts
<1>2. On(c, c, d) /\ On(d, c, d) /\ Place(c, c, d) = 0
  BY <1>1, EndsOn
<1>3. Place(q, c, d) <= Place(d, c, d)
  BY <1>1, PlaceLast
<1>4. Place(q, c, d) \in Int /\ Place(d, c, d) \in Int
  BY <1>1, <1>2, PlaceIs
<1>5. c # d
  BY <1>2, <1>3, <1>4
<1>6. a <= b /\ \A j \in a + 1 .. b : l[j] = x
  BY DEF Turn
<1>7. a <= n /\ (a = n => ~(Place(q, c, d) <= Place(x, c, d)))
  BY DEF Reached
<1>8. n \in Int
  OBVIOUS
<1>9. CASE n < b
  <2>1. n + 1 \in a + 1 .. b
    BY <1>7, <1>8, <1>9
  <2>2. d = x
    BY <1>6, <2>1
  <2>3. CASE a = n
    BY <1>3, <1>7, <2>2, <2>3
  <2>4. CASE a # n
    <3>1. n \in a + 1 .. b
      BY <1>7, <1>8, <1>9, <2>4
    <3>2. c = x
      BY <1>6, <3>1
    <3> QED BY <1>5, <2>2, <3>2
  <2> QED BY <2>3, <2>4
<1>10. CASE b = n
  <2>1. CASE a = n
    BY <1>7, <1>8, <1>10, <2>1 DEF Reached
  <2>2. CASE a # n
    <3>1. n \in a + 1 .. b
      BY <1>7, <1>8, <1>10, <2>2
    <3>2. c = x
      BY <1>6, <3>1
    <3>3. ~(Place(q, c, d) <= Place(x, c, d))
      BY <1>2, <1>4, <3>2
    <3> QED BY <1>8, <1>10, <3>3 DEF Reached
  <2> QED BY <2>1, <2>2
<1>11. CASE b < n
  BY <1>8, <1>11 DEF Reached
<1> QED
  BY <1>8, <1>9, <1>10, <1>11

\* Every point of the line that is not the begin of its segment is passed by a
\* segment of one of the lines that follow it.
Passed(l, r, at, n, q, k) ==
    /\ k \in 1 .. Len(r) - 1 /\ at[k + 1] = n
    /\ Place(r[k], l[n], l[n + 1]) < Place(q, l[n], l[n + 1])
    /\ Place(q, l[n], l[n + 1]) <= Place(r[k + 1], l[n], l[n + 1])

\* A line that begins before the point and ends behind it passes it.
LEMMA LinePasses ==
    ASSUME NEW l \in Seq(Point), NEW n \in 1 .. Len(l) - 1, NEW q, On(q, l[n], l[n + 1]),
           0 < Place(q, l[n], l[n + 1]),
           NEW r \in Seq(Point), Len(r) >= 2, NEW at, Traced(l, r, at),
           ~Reached(l, n, q, r[1], at[1]), Reached(l, n, q, LastOf(r), at[Len(r)])
    PROVE  \E k : Passed(l, r, at, n, q, k)
<1> DEFINE T == {k \in 1 .. Len(r) : Reached(l, n, q, r[k], at[k])}
<1>1. Len(r) \in Nat
  BY LenProperties
<1>2. Len(r) \in T
  <2>1. Len(r) \in 1 .. Len(r)
    BY <1>1
  <2> QED BY <2>1 DEF LastOf
<1>3. T \subseteq Nat /\ T # {}
  BY <1>1, <1>2
<1>4. PICK j \in T : \A i \in T : j <= i
  <2> HIDE DEF T
  <2> QED BY <1>3, Least
<1>5. j \in 1 .. Len(r) /\ Reached(l, n, q, r[j], at[j])
  BY <1>4
<1>6. j # 1
  BY <1>5
<1> DEFINE k == j - 1
<1>7. k \in 1 .. Len(r) - 1 /\ k \in 1 .. Len(r) /\ k + 1 = j /\ ~(j <= k)
  BY <1>1, <1>5, <1>6
<1> HIDE DEF k
<1>8. ~Reached(l, n, q, r[k], at[k])
  BY <1>4, <1>7
<1>9. Leg(l, r[k], at[k], r[k + 1], at[k + 1])
  BY <1>7 DEF Traced
<1>10. at[k] \in Int /\ at[k + 1] \in Int
  BY <1>5, <1>7 DEF Traced
<1>11. ~Reached(l, n, q, r[k], at[k + 1])
  BY <1>8, <1>9, <1>10, NoTurnReaches DEF Leg
<1>12. Reached(l, n, q, r[k + 1], at[k + 1])
  BY <1>5, <1>7
<1>13. n \in Int
  OBVIOUS
<1>14. at[k + 1] = n
  BY <1>10, <1>11, <1>12, <1>13 DEF Reached
<1>15. /\ l[n] \in Point /\ l[n + 1] \in Point /\ On(r[k], l[n], l[n + 1])
  BY <1>7, <1>14, LegOn
<1>16. Place(r[k], l[n], l[n + 1]) \in Int /\ Place(q, l[n], l[n + 1]) \in Int
  BY <1>15, PlaceIs
<1>17. ~(Place(q, l[n], l[n + 1]) <= Place(r[k], l[n], l[n + 1]))
  BY <1>11, <1>14 DEF Reached
<1>18. Place(q, l[n], l[n + 1]) <= Place(r[k + 1], l[n], l[n + 1])
  BY <1>12, <1>13, <1>14 DEF Reached
<1>19. Place(r[k], l[n], l[n + 1]) < Place(q, l[n], l[n + 1])
  BY <1>16, <1>17
<1> QED
  BY <1>7, <1>14, <1>18, <1>19 DEF Passed

\* Some line of a walk along l does.
LEMMA TrackPasses ==
    ASSUME NEW l \in Seq(Point), NEW n \in 1 .. Len(l) - 1, NEW q, On(q, l[n], l[n + 1]),
           0 < Place(q, l[n], l[n + 1]),
           NEW lines, NEW at, Tracked(l, lines, at)
    PROVE  \E i \in 1 .. Len(lines) : \E k : Passed(l, lines[i], at[i], n, q, k)
<1> DEFINE N == Len(lines)
           T == {i \in 1 .. N : Reached(l, n, q, LastOf(lines[i]), at[i][Len(lines[i])])}
<1>1. /\ N \in Nat /\ N >= 1
      /\ \A i \in 1 .. N : /\ lines[i] \in Seq(Point) /\ Len(lines[i]) >= 2
                           /\ Traced(l, lines[i], at[i])
      /\ Opens(l, lines[1], at[1])
      /\ \A i \in 1 .. N - 1 : Joint(l, lines[i], at[i], lines[i + 1], at[i + 1])
      /\ Closes(l, lines[N], at[N])
  BY TrackFacts
<1> HIDE DEF N
<1>2. ASSUME NEW i \in 1 .. N PROVE at[i][1] \in Int /\ at[i][Len(lines[i])] \in Int
  BY <1>1, TraceEnds
<1>3. 1 \in 1 .. N /\ N \in 1 .. N
  BY <1>1
<1>4. Len(l) \in Nat /\ n \in Int /\ 1 <= n /\ n < Len(l)
  BY LenProperties
<1>5. N \in T
  <2>0. Reached(l, n, q, LastOf(lines[N]), at[N][Len(lines[N])]) => N \in T
    BY <1>3
  <2> HIDE DEF T
  <2> SUFFICES ASSUME ~Reached(l, n, q, LastOf(lines[N]), at[N][Len(lines[N])]) PROVE FALSE
    BY <2>0
  <2>1. Turn(l, LastOf(lines[N]), at[N][Len(lines[N])], Len(l))
    BY <1>1 DEF Closes
  <2>2. at[N][Len(lines[N])] \in Int /\ Len(l) \in Int
    BY <1>2, <1>3, <1>4
  <2>3. ~Reached(l, n, q, LastOf(lines[N]), Len(l))
    BY <2>1, <2>2, NoTurnReaches
  <2> QED BY <1>4, <2>3 DEF Reached
<1>6. T \subseteq Nat /\ T # {}
  <2>1. 1 .. N \subseteq Nat
    BY <1>1
  <2>2. T \subseteq 1 .. N
    OBVIOUS
  <2> HIDE DEF T
  <2> QED BY <1>5, <2>1, <2>2
<1>7. PICK i \in T : \A j \in T : i <= j
  <2> HIDE DEF T
  <2> QED BY <1>6, Least
<1>8. i \in 1 .. N /\ Reached(l, n, q, LastOf(lines[i]), at[i][Len(lines[i])])
  BY <1>7
<1>9. ~Reached(l, n, q, lines[i][1], at[i][1])
  <2>1. CASE i = 1
    <3>1. lines[1][1] = l[1] /\ Turn(l, lines[1][1], 1, at[1][1])
      BY <1>1 DEF Opens
    <3>2. ~Reached(l, n, q, lines[1][1], 1)
      <4> SUFFICES ASSUME Reached(l, n, q, lines[1][1], 1) PROVE FALSE
        OBVIOUS
      <4>1. n = 1 /\ Place(q, l[n], l[n + 1]) <= Place(l[1], l[n], l[n + 1])
        BY <1>4, <3>1 DEF Reached
      <4>2. l[n] \in Point /\ l[n + 1] \in Point
        BY LineFacts
      <4>3. Place(l[n], l[n], l[n + 1]) = 0 /\ Place(q, l[n], l[n + 1]) \in Int
        BY <4>2, EndsOn, PlaceIs
      <4>4. l[n] = l[1]
        BY <4>1
      <4>5. Place(q, l[n], l[n + 1]) <= 0
        BY <4>1, <4>3, <4>4
      <4> QED BY <4>3, <4>5
    <3>3. at[1][1] \in Int
      BY <1>2, <1>3
    <3>4. ~Reached(l, n, q, lines[1][1], at[1][1])
      BY <3>1, <3>2, <3>3, NoTurnReaches
    <3> QED BY <2>1, <3>4
  <2>2. CASE i # 1
    <3> DEFINE j == i - 1
    <3>1. j \in 1 .. N - 1 /\ j \in 1 .. N /\ j + 1 = i /\ ~(i <= j)
      BY <1>1, <1>8, <2>2
    <3> HIDE DEF j
    <3>2. ~Reached(l, n, q, LastOf(lines[j]), at[j][Len(lines[j])])
      BY <1>7, <3>1
    <3>3. Joint(l, lines[j], at[j], lines[i], at[i])
      BY <1>1, <3>1
    <3>4. /\ LastOf(lines[j]) = lines[i][1]
          /\ Turn(l, lines[i][1], at[j][Len(lines[j])], at[i][1])
      BY <3>3 DEF Joint
    <3>5. at[j][Len(lines[j])] \in Int /\ at[i][1] \in Int
      BY <1>2, <1>8, <3>1
    <3>6. ~Reached(l, n, q, lines[i][1], at[j][Len(lines[j])])
      BY <3>2, <3>4
    <3> QED BY <3>4, <3>5, <3>6, NoTurnReaches
  <2> QED BY <2>1, <2>2
<1>10. lines[i] \in Seq(Point) /\ Len(lines[i]) >= 2 /\ Traced(l, lines[i], at[i])
  BY <1>1, <1>8
<1>11. \E k : Passed(l, lines[i], at[i], n, q, k)
  BY <1>8, <1>9, <1>10, LinePasses
<1>12. i \in 1 .. Len(lines)
  BY <1>8 DEF N
<1> QED
  BY <1>11, <1>12

-----------------------------------------------------------------------------
(* The meetings of a walk are the turnings of the line                     *)

\* Lines that follow l, each on its side of the tile: they change sides where l does.
Shown(l, tile, lines, at, S) ==
    /\ Tracked(l, lines, at)
    /\ \A i \in 1 .. Len(lines) : /\ Plain(lines[i]) /\ S[i] \in {0, 1}
                                  /\ Filed(tile, lines[i], S[i])

\* What such lines show of l.
LEMMA ShownFacts ==
    ASSUME NEW l \in Seq(Point), NEW tile, NEW lines, NEW at, NEW S, Shown(l, tile, lines, at, S),
           NEW i \in 1 .. Len(lines)
    PROVE  /\ lines[i] \in Seq(Point) /\ Len(lines[i]) >= 2 /\ Traced(l, lines[i], at[i])
           /\ Plain(lines[i]) /\ S[i] \in {0, 1} /\ Len(lines[i]) \in Nat
           /\ \A k \in 1 .. Len(lines[i]) - 1 :
                 /\ Before(l, tile, S[i], at[i][k + 1], lines[i][k + 1])
                 /\ After(l, tile, S[i], at[i][k + 1], lines[i][k])
                 /\ Fits(tile, S[i], lines[i][k], lines[i][k + 1])
<1>1. Tracked(l, lines, at)
  BY DEF Shown
<1>2. lines[i] \in Seq(Point) /\ Len(lines[i]) >= 2 /\ Traced(l, lines[i], at[i])
  BY <1>1, TrackFacts
<1>3. Plain(lines[i]) /\ S[i] \in {0, 1} /\ Filed(tile, lines[i], S[i])
  BY DEF Shown
<1>4. Len(lines[i]) \in Nat
  BY <1>2, LenProperties
<1>5. ASSUME NEW k \in 1 .. Len(lines[i]) - 1
      PROVE  /\ Before(l, tile, S[i], at[i][k + 1], lines[i][k + 1])
             /\ After(l, tile, S[i], at[i][k + 1], lines[i][k])
             /\ Fits(tile, S[i], lines[i][k], lines[i][k + 1])
  <2>1. Fits(tile, S[i], lines[i][k], lines[i][k + 1])
    BY <1>2, <1>3, FiledFits
  <2> DEFINE r == lines[i]
             by == at[i]
             s == S[i]
             n == by[k + 1]
  <2>2. Plain(r) /\ Traced(l, r, by) /\ k \in 1 .. Len(r) - 1 /\ Fits(tile, s, r[k], r[k + 1])
    BY <1>2, <1>3, <2>1
  <2>3. n = by[k + 1]
    OBVIOUS
  <2> HIDE DEF r, by, s, n
  <2>4. Before(l, tile, s, n, r[k + 1]) /\ After(l, tile, s, n, r[k])
    BY <2>2, <2>3, LegShows
  <2> QED BY <2>1, <2>4 DEF r, by, s, n
<1> QED
  BY <1>2, <1>3, <1>4, <1>5

\* Where two of them on different sides meet.
Meetings(lines, S) == {lines[i + 1][1] : i \in {j \in 1 .. Len(lines) - 1 : S[j] # S[j + 1]}}

\* Where two lines of different sides meet the line itself changes sides.
LEMMA MeetingTurns ==
    ASSUME NEW tile \in Extent, NEW l \in Seq(Point), NEW lines, NEW at, NEW S,
           Shown(l, tile, lines, at, S), NEW i \in 1 .. Len(lines) - 1, S[i] # S[i + 1]
    PROVE  lines[i + 1][1] \in Turnings(l, tile)
<1> DEFINE j == i + 1
           r == lines[i]
           x == lines[j]
           q == x[1]
           e == Len(r) - 1
           n == at[i][e + 1]
           m == at[j][1 + 1]
<1>1. /\ Len(lines) \in Nat
      /\ \A k \in 1 .. Len(lines) - 1 : Joint(l, lines[k], at[k], lines[k + 1], at[k + 1])
  <2>1. Tracked(l, lines, at)
    BY DEF Shown
  <2> QED BY <2>1, TrackFacts
<1>2. i \in 1 .. Len(lines) /\ j \in 1 .. Len(lines)
  BY <1>1
<1>3. Joint(l, r, at[i], x, at[j])
  BY <1>1
<1> HIDE DEF j
<1>4. /\ r \in Seq(Point) /\ Len(r) >= 2 /\ Len(r) \in Nat /\ Traced(l, r, at[i]) /\ S[i] \in {0, 1}
      /\ \A k \in 1 .. Len(r) - 1 : Before(l, tile, S[i], at[i][k + 1], r[k + 1])
  BY <1>2, ShownFacts
<1>5. /\ x \in Seq(Point) /\ Len(x) >= 2 /\ Len(x) \in Nat /\ Traced(l, x, at[j]) /\ S[j] \in {0, 1}
      /\ \A k \in 1 .. Len(x) - 1 : After(l, tile, S[j], at[j][k + 1], x[k])
  BY <1>2, ShownFacts
<1> HIDE DEF r, x
<1>6. e \in 1 .. Len(r) - 1 /\ e + 1 = Len(r) /\ 1 \in 1 .. Len(x) - 1 /\ 1 \in 1 .. Len(x)
      /\ 1 + 1 \in 1 .. Len(x)
  BY <1>4, <1>5
<1>7. LastOf(r) = q /\ Turn(l, q, at[i][Len(r)], at[j][1])
  BY <1>3 DEF Joint
<1>8. Before(l, tile, S[i], n, q)
  <2>1. Before(l, tile, S[i], at[i][e + 1], r[e + 1])
    BY <1>4, <1>6
  <2> QED BY <1>6, <1>7, <2>1 DEF LastOf
<1>9. After(l, tile, S[j], m, q)
  BY <1>5, <1>6
<1>10. S[j] = 1 - S[i]
  <2>1. S[j] # S[i]
    BY DEF j
  <2> QED BY <1>4, <1>5, <2>1
<1>11. Turn(l, q, at[j][1], m)
  <2>1. Leg(l, x[1], at[j][1], x[1 + 1], at[j][1 + 1])
    BY <1>5, <1>6 DEF Traced
  <2> QED BY <2>1 DEF Leg
<1>12. at[i][Len(r)] \in Int /\ at[j][1] \in Int
  BY <1>4, <1>5, TraceEnds
<1>13. n = at[i][Len(r)]
  BY <1>6
<1>14. n \in 1 .. Len(l) - 1 /\ m \in 1 .. Len(l) - 1
  BY <1>8, <1>9 DEF Before, After
<1> HIDE DEF n, m
<1>15. Turn(l, q, n, m)
  BY <1>7, <1>11, <1>12, <1>13, <1>14, TurnTurn
<1>16. q \in Point
  BY <1>5, <1>6, LineFacts
<1> HIDE DEF q
<1>17. q \in Turnings(l, tile)
  BY <1>4, <1>8, <1>9, <1>10, <1>14, <1>15, <1>16 DEF Turnings
<1> QED
  BY <1>17 DEF q, x, j

\* Where the line changes sides two lines of different sides meet.
LEMMA TurningMeets ==
    ASSUME NEW tile \in Extent, NEW l \in Seq(Point), NEW lines, NEW at, NEW S,
           Shown(l, tile, lines, at, S), NEW q \in Turnings(l, tile)
    PROVE  q \in Meetings(lines, S)
<1>1. Tracked(l, lines, at)
  BY DEF Shown
<1>2. PICK n \in 1 .. Len(l) - 1, m \in 1 .. Len(l) - 1, s \in {0, 1} :
        Before(l, tile, s, n, q) /\ After(l, tile, 1 - s, m, q) /\ Turn(l, q, n, m)
  BY DEF Turnings
<1> DEFINE c == l[n]
           d == l[n + 1]
<1>3. c \in Point /\ d \in Point /\ On(q, c, d) /\ q \in Point
  BY <1>2, LineFacts DEF Before, Turnings
<1>4. 0 < Place(q, c, d)
  <2>1. PICK p : On(p, c, d) /\ Place(p, c, d) < Place(q, c, d)
    BY <1>2 DEF Before
  <2>2. 0 <= Place(p, c, d) /\ Place(p, c, d) \in Int /\ Place(q, c, d) \in Int
    BY <1>3, <2>1, PlaceIs
  <2> QED BY <2>1, <2>2
<1>5. PICK i \in 1 .. Len(lines) : \E k : Passed(l, lines[i], at[i], n, q, k)
  BY <1>1, <1>3, <1>4, TrackPasses
<1>51. PICK k : Passed(l, lines[i], at[i], n, q, k)
  BY <1>5
<1> DEFINE r == lines[i]
           x == r[k]
           y == r[k + 1]
<1>6. /\ k \in 1 .. Len(r) - 1 /\ at[i][k + 1] = n
      /\ Place(x, c, d) < Place(q, c, d) /\ Place(q, c, d) <= Place(y, c, d)
  BY <1>51 DEF Passed
<1>7. /\ r \in Seq(Point) /\ Len(r) >= 2 /\ Traced(l, r, at[i]) /\ Plain(r) /\ S[i] \in {0, 1}
      /\ Len(r) \in Nat
      /\ \A j \in 1 .. Len(r) - 1 : /\ Before(l, tile, S[i], at[i][j + 1], r[j + 1])
                                     /\ After(l, tile, S[i], at[i][j + 1], r[j])
                                     /\ Fits(tile, S[i], r[j], r[j + 1])
  BY ShownFacts
<1>8. On(x, c, d) /\ On(y, c, d)
  BY <1>6, <1>7, LegOn
<1>9. Fits(tile, S[i], x, y)
  BY <1>6, <1>7
<1> HIDE DEF r
<1>10. n \in 1 .. Len(l) - 1 /\ n \in Int
  OBVIOUS
<1> HIDE DEF c, d, x, y
<1>11. Place(x, c, d) \in Int /\ Place(y, c, d) \in Int /\ Place(q, c, d) \in Int
  BY <1>3, <1>8, PlaceIs
<1>12. x \in Point /\ y \in Point
  BY <1>8 DEF On
<1>13. On(q, x, y) /\ On(x, x, y) /\ On(y, x, y)
  <2>1. Place(x, c, d) <= Place(y, c, d) /\ Place(x, c, d) <= Place(q, c, d)
    BY <1>6, <1>11
  <2>2. Between(q, x, y)
    BY <1>3, <1>6, <1>8, <2>1, PlaceBetween
  <2> QED BY <1>3, <1>12, <2>2, EndsOn DEF On
<1>14. S[i] = s
  <2>1. Fits(tile, S[i], x, q)
    BY <1>9, <1>12, <1>13, FitsSub
  <2>2. Before(l, tile, S[i], n, q)
    BY <1>3, <1>6, <1>8, <1>10, <2>1 DEF Before, c, d
  <2> QED BY <1>2, <1>7, <2>2, BeforeOne
<1>15. 1 - s \in {0, 1} /\ 1 - s # s
  OBVIOUS
<1>16. ASSUME NEW t \in {0, 1}, NEW j, After(l, tile, t, j, q), Turn(l, q, n, j)
       PROVE  t = 1 - s
  BY <1>2, <1>10, <1>15, <1>16, AfterTurns
<1>17. q = y
  <2> SUFFICES ASSUME q # y PROVE FALSE
    OBVIOUS
  <2>1. Place(q, c, d) # Place(y, c, d)
    BY <1>3, <1>8, PlaceOrder
  <2>2. Place(q, c, d) < Place(y, c, d)
    BY <1>6, <1>11, <2>1
  <2>3. Fits(tile, S[i], q, y)
    BY <1>9, <1>12, <1>13, FitsSub
  <2>4. After(l, tile, S[i], n, q)
    BY <1>3, <1>8, <1>10, <2>2, <2>3 DEF After, c, d
  <2>5. Turn(l, q, n, n)
    BY <1>10 DEF Turn
  <2>6. S[i] = 1 - s
    BY <1>7, <1>16, <2>4, <2>5
  <2> QED BY <1>14, <1>15, <2>6
<1>18. ~(k + 1 \in 1 .. Len(r) - 1)
  <2> SUFFICES ASSUME k + 1 \in 1 .. Len(r) - 1 PROVE FALSE
    OBVIOUS
  <2> DEFINE h == k + 1
  <2>0. h \in 1 .. Len(r) - 1 /\ r[h] = q /\ at[i][h] = n
    BY <1>6, <1>17 DEF y
  <2> HIDE DEF h
  <2>1. After(l, tile, S[i], at[i][h + 1], q)
    BY <1>7, <2>0
  <2>2. Leg(l, r[h], at[i][h], r[h + 1], at[i][h + 1])
    BY <1>7, <2>0 DEF Traced
  <2>3. Turn(l, q, n, at[i][h + 1])
    BY <2>0, <2>2 DEF Leg
  <2>4. S[i] = 1 - s
    BY <1>7, <1>16, <2>1, <2>3
  <2> QED BY <1>14, <1>15, <2>4
<1>19. k + 1 = Len(r)
  BY <1>6, <1>7, <1>18
<1>20. LastOf(r) = q /\ at[i][Len(r)] = n
  BY <1>6, <1>17, <1>19 DEF y, LastOf
<1>21. Len(lines) \in Nat
  BY <1>1, TrackFacts
<1>22. CASE i = Len(lines)
  <2>1. Closes(l, r, at[i])
    BY <1>1, <1>22, TrackFacts DEF r
  <2>2. Turn(l, q, n, Len(l))
    BY <1>20, <2>1 DEF Closes
  <2>3. n <= m /\ m + 1 \in n + 1 .. Len(l)
    <3>1. n <= m
      BY <1>2 DEF Turn
    <3>2. Len(l) \in Nat
      BY LenProperties
    <3> QED BY <3>1, <3>2
  <2>4. l[m + 1] = q
    BY <2>2, <2>3 DEF Turn
  <2> QED BY <1>2, <2>4, AfterGoesOn
<1>23. CASE i # Len(lines)
  <2> DEFINE j == i + 1
             z == lines[j]
             u == at[j][1]
             w == at[j][1 + 1]
  <2>1. i \in 1 .. Len(lines) - 1 /\ j \in 1 .. Len(lines) /\ j = i + 1
    BY <1>21, <1>23
  <2>2. Joint(l, r, at[i], z, at[j])
    BY <1>1, <2>1, TrackFacts DEF r
  <2> HIDE DEF j
  <2>3. /\ z \in Seq(Point) /\ Len(z) >= 2 /\ Len(z) \in Nat /\ Traced(l, z, at[j]) /\ S[j] \in {0, 1}
        /\ \A h \in 1 .. Len(z) - 1 : After(l, tile, S[j], at[j][h + 1], z[h])
    BY <2>1, ShownFacts
  <2> HIDE DEF z
  <2>4. 1 \in 1 .. Len(z) - 1
    BY <2>3
  <2>5. z[1] = q /\ Turn(l, q, n, u)
    BY <1>20, <2>2 DEF Joint
  <2>6. After(l, tile, S[j], w, q)
    BY <2>3, <2>4, <2>5
  <2>7. Turn(l, q, u, w)
    <3>1. Leg(l, z[1], at[j][1], z[1 + 1], at[j][1 + 1])
      BY <2>3, <2>4 DEF Traced
    <3> QED BY <2>5, <3>1 DEF Leg
  <2>8. u \in Int /\ w \in Int
    BY <2>3, <2>6, TraceEnds DEF After
  <2> HIDE DEF u, w
  <2>9. Turn(l, q, n, w)
    BY <1>10, <2>5, <2>7, <2>8, TurnTurn
  <2>10. S[j] = 1 - s
    BY <1>16, <2>3, <2>6, <2>9
  <2>11. S[i] # S[i + 1] /\ lines[i + 1][1] = q
    BY <1>14, <1>15, <2>1, <2>5, <2>10 DEF z
  <2> QED BY <2>1, <2>11 DEF Meetings
<1> QED
  BY <1>22, <1>23

\* So the points are the same, whichever walk along the line it is.
LEMMA TurningsAre ==
    ASSUME NEW tile \in Extent, NEW l \in Seq(Point), NEW lines, NEW at, NEW S,
           Shown(l, tile, lines, at, S)
    PROVE  Turnings(l, tile) = Meetings(lines, S)
<1>1. ASSUME NEW q \in Meetings(lines, S) PROVE q \in Turnings(l, tile)
  <2>1. PICK i \in 1 .. Len(lines) - 1 : S[i] # S[i + 1] /\ q = lines[i + 1][1]
    BY DEF Meetings
  <2> QED BY <2>1, MeetingTurns
<1> QED
  BY <1>1, TurningMeets

-----------------------------------------------------------------------------
(* The order of the clips does not matter                                  *)

\* One, or two and more.
LEMMA OneOrMore ==
    ASSUME NEW n \in Nat, n >= 1
    PROVE  n = 1 \/ n >= 2
OBVIOUS

\* The nodes of a clip are where the line itself changes sides of the tile.
LEMMA CrossingsAre ==
    ASSUME NEW tile \in Extent, NEW line \in Seq(Point), Len(line) >= 2, FineLine(tile, line)
    PROVE  \A q : q \in Range(Crossings(line, tile)) <=> q \in Turnings(line, tile)
<1> DEFINE runs == Split(line, tile)
<1>1. /\ PartedInto(tile, line, runs)
      /\ \A q : q \in Range(Crossings(line, tile)) <=> q \in Nodes(runs)
  BY SplitIs
<1> HIDE DEF runs
<1>2. PICK at : Tracked(line, RunLines(runs), at)
  BY <1>1 DEF PartedInto
<1>3. /\ runs \in Seq(Run) /\ Len(runs) >= 1 /\ AllFiled(tile, runs) /\ Alternates(runs)
      /\ (Len(runs) = 1 /\ runs[1].line = line) \/ (Len(runs) >= 2 /\ AllPlain(runs))
  BY <1>1 DEF PartedInto
<1>4. /\ Len(RunLines(runs)) = Len(runs) /\ Len(runs) \in Nat
      /\ \A i \in 1 .. Len(runs) : RunLines(runs)[i] = runs[i].line
  BY <1>3, RunLinesAre
<1>5. \A i \in 1 .. Len(runs) : Side(runs[i]) \in {0, 1}
  BY DEF Side
<1>6. CASE Len(runs) = 1 /\ runs[1].line = line
  <2>1. 1 \in 1 .. Len(runs) /\ 2 .. Len(runs) = {}
    BY <1>6
  <2>2. Filed(tile, line, Side(runs[1]))
    BY <1>3, <1>6, <2>1 DEF AllFiled
  <2>3. Turnings(line, tile) = {}
    BY <1>5, <2>1, <2>2, WholeTurns
  <2>4. Nodes(runs) = {}
    BY <2>1 DEF Nodes
  <2> QED BY <1>1, <2>3, <2>4
<1>7. CASE Len(runs) >= 2 /\ AllPlain(runs)
  <2> DEFINE S == [i \in 1 .. Len(runs) |-> Side(runs[i])]
             lines == RunLines(runs)
  <2>1. \A i \in 1 .. Len(runs) : S[i] = Side(runs[i])
    OBVIOUS
  <2> HIDE DEF S, lines
  <2>2. \A i \in 1 .. Len(lines) : /\ Plain(lines[i]) /\ S[i] \in {0, 1}
                                    /\ Filed(tile, lines[i], S[i])
    BY <1>3, <1>4, <1>5, <1>7, <2>1 DEF AllPlain, AllFiled, lines
  <2>3. Shown(line, tile, lines, at, S)
    BY <1>2, <2>2 DEF Shown, lines
  <2>4. Turnings(line, tile) = Meetings(lines, S)
    BY <2>3, TurningsAre
  <2>5. ASSUME NEW j \in 1 .. Len(runs) - 1
        PROVE  /\ j \in 1 .. Len(runs) /\ j + 1 \in 1 .. Len(runs) /\ j + 1 \in 2 .. Len(runs)
               /\ S[j] # S[j + 1] /\ lines[j + 1][1] = runs[j + 1].line[1]
    <3>1. j \in 1 .. Len(runs) /\ j + 1 \in 1 .. Len(runs) /\ j + 1 \in 2 .. Len(runs)
      BY <1>4
    <3>2. S[j + 1] = 1 - S[j] /\ S[j] \in {0, 1}
      BY <1>3, <1>5, <2>1, <3>1 DEF Alternates
    <3>3. lines[j + 1] = runs[j + 1].line
      BY <1>4, <3>1 DEF lines
    <3>4. S[j] # S[j + 1]
      BY <3>2
    <3> QED BY <3>1, <3>3, <3>4
  <2>6. Len(lines) = Len(runs)
    BY <1>4 DEF lines
  <2>7. ASSUME NEW q \in Nodes(runs) PROVE q \in Meetings(lines, S)
    <3>1. PICK i \in 2 .. Len(runs) : q = runs[i].line[1]
      BY DEF Nodes
    <3> DEFINE j == i - 1
    <3>2. j \in 1 .. Len(runs) - 1 /\ j + 1 = i
      BY <1>4
    <3> HIDE DEF j
    <3>3. S[j] # S[j + 1] /\ lines[j + 1][1] = q
      BY <2>5, <3>1, <3>2
    <3> QED BY <2>6, <3>2, <3>3 DEF Meetings
  <2>8. ASSUME NEW q \in Meetings(lines, S) PROVE q \in Nodes(runs)
    <3>1. PICK j \in 1 .. Len(runs) - 1 : q = lines[j + 1][1]
      BY <2>6 DEF Meetings
    <3>2. j + 1 \in 2 .. Len(runs) /\ q = runs[j + 1].line[1]
      BY <2>5, <3>1
    <3> QED BY <3>2 DEF Nodes
  <2> QED BY <1>1, <2>4, <2>7, <2>8
<1> QED
  BY <1>3, <1>6, <1>7

\* Parts that have all met a tile change sides of it where the original does.
LEMMA PartsTurn ==
    ASSUME IInv, \A i \in DOMAIN parts : parts[i].clipped = Tiles, NEW tile \in Tiles,
           Len(parts) >= 2, NEW q
    PROVE  q \in Turnings(original, tile) <=>
             \E i \in 1 .. Len(parts) - 1 :
                /\ Bit(parts[i], tile) # Bit(parts[i + 1], tile)
                /\ q = parts[i + 1].line[1]
<1> DEFINE S == [i \in 1 .. Len(parts) |-> Bit(parts[i], tile)]
           lines == Drawing(parts)
<1>1. /\ original \in Seq(Point) /\ Len(parts) \in Nat
      /\ \A i \in 1 .. Len(parts) : Sound(parts[i]) /\ parts[i].clipped = Tiles
  BY SaneFacts
<1>2. PICK at : Tracked(original, lines, at)
  BY SaneFacts
<1>3. \A i \in 1 .. Len(parts) : Plain(parts[i].line)
  BY DEF IInv, Sane
<1>4. Len(lines) = Len(parts) /\ \A i \in 1 .. Len(parts) : lines[i] = parts[i].line
  <2>1. parts \in Seq(PartType)
    BY DEF IInv, Sane
  <2> QED BY <2>1, DrawingIs
<1>5. \A i \in 1 .. Len(parts) : S[i] = Bit(parts[i], tile)
  OBVIOUS
<1>6. \A i \in 1 .. Len(parts) : S[i] \in {0, 1}
  BY DEF Bit
<1> HIDE DEF S, lines
<1>7. \A i \in 1 .. Len(parts) : Filed(tile, parts[i].line, Bit(parts[i], tile))
  BY <1>1 DEF Sound
<1>8. \A i \in 1 .. Len(lines) : Plain(lines[i]) /\ S[i] \in {0, 1} /\ Filed(tile, lines[i], S[i])
  BY <1>3, <1>4, <1>5, <1>6, <1>7
<1>9. Shown(original, tile, lines, at, S)
  BY <1>2, <1>8 DEF Shown
<1>10. Turnings(original, tile) = Meetings(lines, S)
  BY <1>1, <1>9, Assumed, TurningsAre
<1>11. ASSUME NEW i \in 1 .. Len(parts) - 1
       PROVE  /\ S[i] = Bit(parts[i], tile) /\ S[i + 1] = Bit(parts[i + 1], tile)
              /\ lines[i + 1] = parts[i + 1].line
  <2>1. i \in 1 .. Len(parts) /\ i + 1 \in 1 .. Len(parts)
    BY <1>1
  <2> QED BY <1>4, <1>5, <2>1
<1>12. q \in Meetings(lines, S) <=>
         \E i \in 1 .. Len(parts) - 1 : S[i] # S[i + 1] /\ q = lines[i + 1][1]
  BY <1>4 DEF Meetings
<1> QED
  BY <1>10, <1>11, <1>12

\* Parts that have met all tiles have their nodes where the original changes sides of
\* one of them.
LEMMA OrderSane == IInv => OrderIrrelevant
<1> SUFFICES ASSUME IInv, \A i \in DOMAIN parts : parts[i].clipped = Tiles
             PROVE  {parts[i].line[1] : i \in 2 .. Len(parts)}
                      = UNION {Range(Crossings(original, tile)) : tile \in Tiles}
  BY DEF OrderIrrelevant
<1> DEFINE nodes == {parts[i].line[1] : i \in 2 .. Len(parts)}
<1>1. /\ original \in Seq(Point) /\ Len(original) >= 2
      /\ Len(parts) \in Nat /\ Len(parts) >= 1
      /\ \A i \in 1 .. Len(parts) : Sound(parts[i]) /\ parts[i].clipped = Tiles
  BY SaneFacts
<1>2. \A tile \in Tiles : tile \in Extent /\ FineLine(tile, original)
  BY Assumed DEF IInv, Sane
<1>3. \A tile \in Tiles : \A q :
         q \in Range(Crossings(original, tile)) <=> q \in Turnings(original, tile)
  BY <1>1, <1>2, CrossingsAre
<1>4. ASSUME NEW q
      PROVE  q \in nodes <=> \E tile \in Tiles : q \in Turnings(original, tile)
  <2>1. CASE Len(parts) = 1
    <3>1. 1 \in 1 .. Len(parts) /\ parts[1].line = original /\ 2 .. Len(parts) = {}
      BY <2>1 DEF IInv, Sane
    <3>2. ASSUME NEW tile \in Tiles PROVE Turnings(original, tile) = {}
      <4>1. Filed(tile, original, Bit(parts[1], tile))
        BY <1>1, <3>1 DEF Sound
      <4>2. Bit(parts[1], tile) \in {0, 1}
        BY DEF Bit
      <4> QED BY <1>1, <1>2, <4>1, <4>2, WholeTurns
    <3>3. nodes = {}
      BY <3>1
    <3> QED BY <3>2, <3>3
  <2>2. CASE Len(parts) >= 2
    <3>1. ASSUME NEW i \in 2 .. Len(parts), q = parts[i].line[1]
          PROVE  \E tile \in Tiles : q \in Turnings(original, tile)
      <4> DEFINE j == i - 1
      <4>1. j \in 1 .. Len(parts) - 1 /\ j + 1 = i /\ j \in 1 .. Len(parts)
        BY <1>1
      <4> HIDE DEF j
      <4>2. Apart(parts[j], parts[j + 1])
        BY <4>1 DEF IInv, Sane
      <4>3. PICK tile \in Tiles : Bit(parts[j], tile) # Bit(parts[j + 1], tile)
        BY <1>1, <4>1, <4>2 DEF Apart
      <4> QED BY <2>2, <3>1, <4>1, <4>3, PartsTurn
    <3>2. ASSUME NEW tile \in Tiles, q \in Turnings(original, tile)
          PROVE  q \in nodes
      <4>1. PICK i \in 1 .. Len(parts) - 1 : q = parts[i + 1].line[1]
        BY <2>2, <3>2, PartsTurn
      <4>2. i + 1 \in 2 .. Len(parts)
        BY <1>1
      <4> QED BY <4>1, <4>2
    <3> QED BY <3>1, <3>2
  <2>3. Len(parts) = 1 \/ Len(parts) >= 2
    <3>1. Len(parts) \in Nat /\ Len(parts) >= 1
      BY <1>1
    <3> QED BY <3>1, OneOrMore
  <2> QED BY <2>1, <2>2, <2>3
<1> HIDE DEF nodes
<1>5. nodes = UNION {Range(Crossings(original, tile)) : tile \in Tiles}
  BY <1>3, <1>4
<1> QED
  BY <1>5 DEF nodes

\* Once all parts have met all tiles the clip nodes are the crossings of the uncut
\* line with each tile, in whatever order clip_edge_to_tile was called.
THEOREM OrderIrrelevantAlways == Spec => []OrderIrrelevant
BY OrderSane, SaneAlways, PTL

-----------------------------------------------------------------------------
(* What the code and the graph rely on                                     *)

\* What TopoGraph assumes of the splitting of a line (SplitAssumption) is true of
\* clip_edge_to_tile's: at least one part, none of them a stub, from the begin of
\* the line to its end, each going on where the one before it ends, and in turn
\* inside and outside.
THEOREM SplitIsSplitting ==
    ASSUME NEW tile \in Extent, NEW line \in Seq(Point), Len(line) >= 2, FineLine(tile, line),
           NEW runs, runs = Split(line, tile)
    PROVE  /\ runs \in Seq(Run) /\ Len(runs) >= 1
           /\ \A i \in 1 .. Len(runs) : Len(runs[i].line) >= 2
           /\ runs[1].line[1] = line[1]
           /\ LastOf(runs[Len(runs)].line) = LastOf(line)
           /\ \A i \in 1 .. Len(runs) - 1 :
                 /\ LastOf(runs[i].line) = runs[i + 1].line[1]
                 /\ ~(runs[i].inside <=> runs[i + 1].inside)
<1>1. PartedInto(tile, line, runs)
  BY SplitIs
<1>2. runs \in Seq(Run) /\ Len(runs) >= 1 /\ Alternates(runs)
  BY <1>1 DEF PartedInto
<1>3. /\ Len(RunLines(runs)) = Len(runs) /\ Len(runs) \in Nat
      /\ \A i \in 1 .. Len(runs) : RunLines(runs)[i] = runs[i].line
  BY <1>2, RunLinesAre
<1> DEFINE lines == RunLines(runs)
<1>4. PICK at : Tracked(line, lines, at)
  BY <1>1 DEF PartedInto
<1> HIDE DEF lines
<1>5. /\ Opens(line, lines[1], at[1])
      /\ \A i \in 1 .. Len(lines) - 1 : Joint(line, lines[i], at[i], lines[i + 1], at[i + 1])
      /\ Closes(line, lines[Len(lines)], at[Len(lines)])
      /\ \A i \in 1 .. Len(lines) : Len(lines[i]) >= 2 /\ Traced(line, lines[i], at[i])
                                    /\ lines[i] \in Seq(Point)
  BY <1>4, TrackFacts
<1>6. Len(lines) = Len(runs) /\ \A i \in 1 .. Len(runs) : lines[i] = runs[i].line
  BY <1>3 DEF lines
<1>7. 1 \in 1 .. Len(runs) /\ Len(runs) \in 1 .. Len(runs)
  BY <1>2, <1>3
<1>8. \A i \in 1 .. Len(runs) : Len(runs[i].line) >= 2
  BY <1>5, <1>6
<1>9. runs[1].line[1] = line[1]
  BY <1>5, <1>6, <1>7 DEF Opens
<1>10. LastOf(runs[Len(runs)].line) = LastOf(line)
  <2> DEFINE r == lines[Len(lines)]
             n == at[Len(lines)][Len(r)]
  <2>1. r \in Seq(Point) /\ Len(r) >= 2 /\ Turn(line, LastOf(r), n, Len(line))
    BY <1>5, <1>6, <1>7 DEF Closes
  <2>2. n \in 1 .. Len(line) - 1
    <3>1. Traced(line, r, at[Len(lines)]) /\ Len(r) \in Nat /\ Len(r) >= 2
      BY <1>5, <1>6, <1>7, <2>1, LenProperties
    <3>2. Len(r) \in 1 .. Len(r)
      BY <3>1
    <3> QED BY <3>1, <3>2 DEF Traced
  <2> HIDE DEF r, n
  <2>3. Len(line) \in Nat
    BY LenProperties
  <2>4. Len(line) \in n + 1 .. Len(line)
    BY <2>2, <2>3
  <2>5. LastOf(r) = line[Len(line)]
    BY <2>1, <2>4 DEF Turn
  <2> QED BY <1>6, <1>7, <2>5 DEF LastOf, r
<1>11. ASSUME NEW i \in 1 .. Len(runs) - 1
       PROVE  /\ LastOf(runs[i].line) = runs[i + 1].line[1]
              /\ ~(runs[i].inside <=> runs[i + 1].inside)
  <2>1. i \in 1 .. Len(runs) /\ i + 1 \in 1 .. Len(runs)
    BY <1>3
  <2>2. LastOf(lines[i]) = lines[i + 1][1]
    BY <1>5, <1>6 DEF Joint
  <2>3. lines[i] = runs[i].line /\ lines[i + 1] = runs[i + 1].line
    BY <1>6, <2>1
  <2>4. Side(runs[i + 1]) = 1 - Side(runs[i])
    BY <1>2 DEF Alternates
  <2>5. ~(runs[i].inside <=> runs[i + 1].inside)
    BY <2>4 DEF Side
  <2> QED BY <2>2, <2>3, <2>5
<1> QED
  BY <1>2, <1>8, <1>9, <1>10, <1>11

\* What the code asserts of its runs: one crossing less than there are runs, and
\* the neighbours of a run that is dropped are on one side.
Asserted(w) ==
    LET runs == w.runs
        pos == Min(Short(runs))
    IN  /\ Len(w.crossings) = IF Len(runs) = 0 THEN 0 ELSE Len(runs) - 1
        /\ Short(runs) # {} /\ pos # 1 /\ pos # Len(runs) =>
              (runs[pos - 1].inside <=> runs[pos + 1].inside)

\* Runs that are laid along a path are as asserted.
LEMMA LaidAsserted ==
    ASSUME NEW w, NEW path, NEW side, NEW off, Laid(w.runs, w.crossings, path, side, off)
    PROVE  Asserted(w)
<1> DEFINE runs == w.runs
           pos == Min(Short(runs))
<1>1. /\ runs \in Seq(Run) /\ Len(runs) \in Nat
      /\ Len(w.crossings) = IF Len(runs) = 0 THEN 0 ELSE Len(runs) - 1
      /\ \A i \in 1 .. Len(runs) - 1 : Side(runs[i + 1]) = 1 - Side(runs[i])
  BY LaidIs
<1>2. ASSUME Short(runs) # {}, pos # 1, pos # Len(runs)
      PROVE  runs[pos - 1].inside <=> runs[pos + 1].inside
  <2>1. pos \in 1 .. Len(runs)
    BY <1>1, <1>2, LeastShort
  <2> DEFINE j == pos - 1
             h == pos + 1
  <2>2. j \in 1 .. Len(runs) - 1 /\ pos \in 1 .. Len(runs) - 1 /\ j + 1 = pos /\ pos + 1 = h
    <3> HIDE DEF pos
    <3> QED BY <1>1, <1>2, <2>1
  <2> HIDE DEF j, h, pos
  <2>3. Side(runs[pos]) = 1 - Side(runs[j]) /\ Side(runs[h]) = 1 - Side(runs[pos])
    BY <1>1, <2>2
  <2> DEFINE a == Side(runs[j])
             b == Side(runs[pos])
             c == Side(runs[h])
  <2>4. a \in {0, 1} /\ b = 1 - a /\ c = 1 - b
    BY <2>3 DEF Side
  <2>5. a = c
    <3> HIDE DEF a, b, c
    <3> QED BY <2>4
  <2>6. runs[j].inside <=> runs[h].inside
    BY <2>5 DEF Side
  <2> QED BY <2>6 DEF j, h
<1> QED
  BY <1>1, <1>2 DEF Asserted

\* The assertions of clip_edge_to_tile never fail: the state of the walk is the
\* containment of the vertex it stands at, the neighbours of each touch that is
\* dropped are on one side, and there is one crossing less than there are runs.
THEOREM AssertionsHold ==
    ASSUME NEW tile \in Extent, NEW line \in Seq(Point), Len(line) >= 2, FineLine(tile, line)
    PROVE  /\ \A i \in 1 .. Len(line) : Walked(line, tile)[i].inside <=> Inside(tile, line[i])
           /\ \A n \in Nat : \A f : Dropping(Walk(line, tile), n, f) =>
                 \A i \in 0 .. n : Asserted(f[i])
<1>1. ASSUME NEW i \in 1 .. Len(line)
      PROVE  Walked(line, tile)[i].inside <=> Inside(tile, line[i])
  <2> DEFINE w == Walked(line, tile)[i]
  <2>1. Stands(tile, line, i, w)
    BY WalkStands
  <2> HIDE DEF w
  <2>2. Side(w) = Class(tile, line[i])
    BY <2>1 DEF Stands
  <2>3. w.inside <=> Inside(tile, line[i])
    BY <2>2 DEF Side, Class
  <2> QED BY <2>3 DEF w
<1>2. ASSUME NEW n \in Nat, NEW f, Dropping(Walk(line, tile), n, f), NEW i \in 0 .. n
      PROVE  Asserted(f[i])
  <2> DEFINE done == Walked(line, tile)[Len(line)]
             first == Walk(line, tile)
  <2>1. Len(line) \in 1 .. Len(line)
    <3>1. Len(line) \in Nat
      BY LenProperties
    <3> QED BY <3>1
  <2>2. Stands(tile, line, Len(line), done)
    BY <2>1, WalkStands
  <2>3. first = [runs |-> Whole(done), crossings |-> done.crossings]
    BY DEF Walk, Whole, Current
  <2>4. PICK path, side, off : Laid(Whole(done), done.crossings, path, side, off)
    BY <2>2 DEF Stands, Underway
  <2> HIDE DEF done, first
  <2>5. f[0] = first /\ \A k \in 1 .. n : f[k] = DropTouch(f[k - 1])
    <3>1. f = [k \in 0 .. n |-> IF k = 0 THEN first ELSE DropTouch(f[k - 1])]
      BY <1>2 DEF Dropping, first
    <3>2. 0 \in 0 .. n /\ \A k \in 1 .. n : k \in 0 .. n /\ k # 0
      OBVIOUS
    <3> QED BY <3>1, <3>2
  <2> DEFINE Kept(w) == \E ends : Laid(w.runs, w.crossings, path, side, ends)
             T == {k \in Nat : k <= n /\ ~Kept(f[k])}
  <2>6. T = {}
    <3> SUFFICES ASSUME T # {} PROVE FALSE
      OBVIOUS
    <3>1. PICK k \in T : \A m \in T : k <= m
      <4> HIDE DEF T
      <4>1. T \subseteq Nat
        BY DEF T
      <4> QED BY <4>1, Least
    <3>2. k \in Nat /\ k <= n /\ ~Kept(f[k])
      BY <3>1
    <3>3. CASE k = 0
      <4>1. f[0].runs = Whole(done) /\ f[0].crossings = done.crossings
        BY <2>3, <2>5
      <4> QED BY <2>4, <3>2, <3>3, <4>1
    <3>4. CASE k # 0
      <4> DEFINE j == k - 1
      <4>1. j \in Nat /\ j <= n /\ ~(k <= j) /\ k \in 1 .. n
        BY <3>2, <3>4
      <4>2. f[k] = DropTouch(f[j])
        BY <2>5, <4>1
      <4>3. Kept(f[j])
        <5>1. j \notin T
          <6> HIDE DEF T, j
          <6> QED BY <3>1, <4>1
        <5> HIDE DEF Kept, j
        <5> QED BY <4>1, <5>1
      <4> HIDE DEF j
      <4>4. Kept(f[k])
        BY <4>2, <4>3, DropKeeps
      <4> QED BY <3>2, <4>4
    <3> QED BY <3>3, <3>4
  <2>7. Kept(f[i])
    <3>1. i \in Nat /\ i <= n /\ i \notin T
      <4> HIDE DEF T
      <4> QED BY <2>6
    <3> HIDE DEF Kept
    <3> QED BY <3>1
  <2> QED BY <2>7, LaidAsserted
<1> QED
  BY <1>1, <1>2

=============================================================================
