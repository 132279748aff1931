---------------------------- MODULE AddressProofs ----------------------------
(***************************************************************************)
(* Where a tile and where a path leads.                                    *)
(*                                                                         *)
(* The two global grids, at every number of levels and every point of the  *)
(* lattice: walking agrees with asking, children partition their tile, and *)
(* no two tiles share a name or a key.  The argument is arithmetic.  A     *)
(* tile is a box of whole rows and columns (OneBox); what a factor divides *)
(* is snapped without changing the box it falls in; the powers of two of   *)
(* the levels are taken one level at a time from a least counterexample    *)
(* (Least), as are the bit lengths of GNOSIS.  Of those the walk needs     *)
(* only that each grid has one owner for a point at a level and that       *)
(* owning passes to the parent and to one child.                           *)
(*                                                                         *)
(* The logical paths, of any length: an accepted one stays in the          *)
(* datastore, in a place that only its own logical form leads to, and is   *)
(* fenced if a reserved tree is where it goes.  Reading a path in parts    *)
(* and walking along them are loops, taken a character and a part at a     *)
(* time from a least counterexample too.                                   *)
(***************************************************************************)
EXTENDS TileWalk, SequenceTheorems, WellFoundedInduction, TLAPS

\* A nonempty set of naturals has a least element: the induction of this module.
LEMMA Least ==
    ASSUME NEW T, T \subseteq Nat, T # {}
    PROVE  \E m \in T : \A k \in T : m <= k
<1> DEFINE R == OpToRel(<, Nat)
<1>1. IsWellFoundedOn(R, Nat)
  BY NatLessThanWellFounded
<1>2. PICK m \in T : \A k \in T : ~(<<k, m>> \in R)
  <2> HIDE DEF R
  <2> QED
    BY <1>1, WFMin
<1>3. \A k \in T : ~(k < m)
  BY <1>2 DEF OpToRel
<1> QED
  BY <1>3

-----------------------------------------------------------------------------
(* Snapping *)

Multiple(c, f) == c % f = 0
SnappedTo(c, f) == c - (c % f)

\* What is q times f is a multiple of f,
LEMMA OfMultiple ==
    ASSUME NEW f \in Nat, f > 0, NEW q \in Nat, NEW c \in Nat, c = q * f
    PROVE  Multiple(c, f)
<1>1. q * f <= c /\ c < (q + 1) * f
  BY SMT
<1>2. PICK r \in 0 .. f - 1 : c = q * f + r /\ r = 0
  BY SMT
<1>3. c % f = r
  BY <1>2, SMT
<1> QED
  BY <1>2, <1>3 DEF Multiple

\* and a multiple of f is some q times f.
LEMMA MultipleOf ==
    ASSUME NEW f \in Nat, f > 0, NEW c \in Nat, Multiple(c, f)
    PROVE  \E q \in Nat : c = q * f
<1>1. PICK q \in Nat : q = c \div f
  BY SMT
<1>2. c = q * f + (c % f)
  BY <1>1, SMT
<1> QED
  BY <1>2 DEF Multiple

\* Snapping to f takes what lies between q * f and (q + 1) * f to q * f,
LEMMA SnapIs ==
    ASSUME NEW f \in Nat, f > 0, NEW q \in Nat, NEW c \in Nat, q * f <= c, c < (q + 1) * f
    PROVE  SnappedTo(c, f) = q * f
<1>1. PICK r \in 0 .. f - 1 : c = q * f + r
  <2>1. c - q * f \in 0 .. f - 1
    BY SMT
  <2> QED BY <2>1
<1>2. c % f = r
  BY <1>1, SMT
<1> QED
  BY <1>1, <1>2 DEF SnappedTo

\* so that everything is snapped to some q * f,
LEMMA SnapQuotient ==
    ASSUME NEW f \in Nat, f > 0, NEW c \in Nat
    PROVE  \E q \in Nat : q * f <= c /\ c < (q + 1) * f /\ SnappedTo(c, f) = q * f
<1>1. PICK q \in Nat : q = c \div f /\ q * f <= c /\ c < (q + 1) * f
  BY SMT
<1> QED
  BY <1>1, SnapIs

\* a multiple of f at most f - 1 below.
LEMMA SnapBounds ==
    ASSUME NEW f \in Nat, f > 0, NEW c \in Nat
    PROVE  /\ SnappedTo(c, f) \in Nat /\ Multiple(SnappedTo(c, f), f)
           /\ SnappedTo(c, f) <= c /\ c < SnappedTo(c, f) + f
<1>1. PICK q \in Nat : q * f <= c /\ c < (q + 1) * f /\ SnappedTo(c, f) = q * f
  BY SnapQuotient
<1>2. PICK d \in Nat : d = q * f
  BY SMT
<1>3. Multiple(d, f)
  BY <1>2, OfMultiple
<1>4. (q + 1) * f = d + f
  BY <1>2
<1> QED
  BY <1>1, <1>2, <1>3, <1>4

\* Below a multiple there is room for one more.
LEMMA Fits ==
    ASSUME NEW f \in Nat, f > 0, NEW c \in Nat, Multiple(c, f),
           NEW w \in Nat, Multiple(w, f), c < w
    PROVE  c + f <= w
<1>1. PICK q \in Nat : c = q * f
  BY MultipleOf
<1>2. PICK k \in Nat : w = k * f
  BY MultipleOf
<1>3. q < k
  BY <1>1, <1>2
<1>4. (q + 1) * f <= k * f
  BY <1>3
<1> QED
  BY <1>1, <1>2, <1>4

\* Multiples of f that are less than f apart are the same.
LEMMA Close ==
    ASSUME NEW f \in Nat, f > 0, NEW c \in Nat, Multiple(c, f),
           NEW d \in Nat, Multiple(d, f), c < d + f, d < c + f
    PROVE  c = d
<1>1. c < d => c + f <= d
  BY Fits
<1>2. d < c => d + f <= c
  BY Fits
<1> QED
  BY <1>1, <1>2

\* The columns of children of a column aligned to f are aligned to f.
LEMMA MultiplesAdd ==
    ASSUME NEW f \in Nat, f > 0, NEW c \in Nat, Multiple(c, f), NEW d \in Nat,
           d = c \/ d = c + f \/ d = 2 * c \/ d = 2 * c + f
    PROVE  Multiple(d, f)
<1>1. PICK q \in Nat : c = q * f
  BY MultipleOf
<1>2. d = q * f \/ d = (q + 1) * f \/ d = (2 * q) * f \/ d = (2 * q + 1) * f
  BY <1>1
<1>3. \E k \in Nat : d = k * f
  <2>1. q + 1 \in Nat /\ 2 * q \in Nat /\ 2 * q + 1 \in Nat
    OBVIOUS
  <2> QED BY <1>2, <2>1
<1> QED
  BY <1>3, OfMultiple

\* The column of a child, halved and snapped, is that of its parent.
LEMMA Halved ==
    ASSUME NEW f \in Nat, f > 0, NEW c \in Nat, Multiple(c, f), NEW d \in Nat,
           d = 2 * c \/ d = 2 * c + f, NEW h \in Nat, h = d \div 2
    PROVE  SnappedTo(h, f) = c
<1>1. PICK q \in Nat : c = q * f
  BY MultipleOf
<1>2. c <= h /\ h < c + f
  OBVIOUS
<1>3. q * f <= h /\ h < (q + 1) * f
  BY <1>1, <1>2
<1> QED
  BY <1>1, <1>3, SnapIs

\* A column aligned to f is the first or the second child of its half, snapped.
LEMMA SnapColumn ==
    ASSUME NEW f \in Nat, f > 0, NEW c \in Nat, Multiple(c, f), NEW h \in Nat, h = c \div 2
    PROVE  c = 2 * SnappedTo(h, f) \/ c = 2 * SnappedTo(h, f) + f
<1>1. PICK k \in Nat : c = k * f
  BY MultipleOf
<1>2. PICK q \in Nat : q * f <= h /\ h < (q + 1) * f /\ SnappedTo(h, f) = q * f
  BY SnapQuotient
<1>3. PICK d \in Nat : d = q * f /\ (q + 1) * f = d + f
  BY SMT
<1>4. 2 * d <= c /\ c < 2 * d + 2 * f
  BY <1>2, <1>3
<1>5. Multiple(2 * d, f)
  <2>1. 2 * d = (2 * q) * f /\ 2 * q \in Nat /\ 2 * d \in Nat
    BY <1>3
  <2> QED BY <2>1, OfMultiple
<1>6. c # 2 * d => 2 * d + f <= c
  BY <1>4, <1>5, Fits
<1>7. Multiple(2 * d + f, f)
  <2>1. 2 * d + f = (2 * q + 1) * f /\ 2 * q + 1 \in Nat /\ 2 * d + f \in Nat
    BY <1>3
  <2> QED BY <2>1, OfMultiple
<1>8. c # 2 * d => c = 2 * d + f
  BY <1>4, <1>6, <1>7, Close
<1> QED
  BY <1>2, <1>3, <1>8

-----------------------------------------------------------------------------
(* Boxes of rows and columns *)

Box(s, r, c, f) ==
    [north |-> r * s, south |-> (r + 1) * s, west |-> c * s, east |-> (c + f) * s]
InBox(box, p, turn) ==
    /\ \/ box.north < p.north
       \/ p.north = 0 /\ box.north = 0
    /\ p.north <= box.south
    /\ box.west <= p.east
    /\ \/ p.east < box.east
       \/ p.east = turn /\ box.east = turn
Within(box, c) ==
    /\ box.north <= c.north /\ c.south <= box.south
    /\ box.west <= c.west /\ c.east <= box.east

\* The same in rows and columns.
InRow(s, n, r) == (r * s < n \/ (n = 0 /\ r = 0)) /\ n <= (r + 1) * s
InColumn(s, w, f, e, c) ==
    c * s <= e /\ (e < (c + f) * s \/ (e = w * s /\ c + f = w))

\* Being in a box is being in its row and in its columns.
LEMMA BoxRowsColumns ==
    ASSUME NEW s \in Nat, s > 0, NEW w \in Nat, NEW r \in Nat, NEW c \in Nat, NEW f \in Nat,
           NEW n \in Nat, NEW e \in Nat, NEW p, p.north = n, p.east = e,
           NEW turn \in Nat, turn = w * s
    PROVE  InBox(Box(s, r, c, f), p, turn) <=> InRow(s, n, r) /\ InColumn(s, w, f, e, c)
<1>1. r * s = 0 <=> r = 0
  BY SMT
<1>2. (c + f) * s = w * s <=> c + f = w
  BY SMT
<1>3. InBox(Box(s, r, c, f), p, turn) <=>
         /\ r * s < n \/ (n = 0 /\ r * s = 0)
         /\ n <= (r + 1) * s /\ c * s <= e
         /\ e < (c + f) * s \/ (e = w * s /\ (c + f) * s = w * s)
  BY DEF InBox, Box
<1> QED
  BY <1>1, <1>2, <1>3 DEF InRow, InColumn

\* The row that tile_at computes, by the ceiling, holds the point; the pole too.
LEMMA RowAt ==
    ASSUME NEW s \in Nat, s > 0, NEW h \in Nat, h > 0, NEW n \in Nat, n <= h * s,
           NEW up, up = (n + s - 1) \div s, NEW r, r = IF up = 0 THEN 0 ELSE up - 1
    PROVE  up \in Nat /\ r \in 0 .. h - 1 /\ InRow(s, n, r)
<1>1. up \in Nat /\ up * s <= n + s - 1 /\ n + s - 1 < (up + 1) * s
  BY SMT
<1>2. up <= h
  BY <1>1
<1>3. CASE up = 0
  BY <1>1, <1>3 DEF InRow
<1>4. CASE up > 0
  <2>1. r = up - 1
    BY <1>1, <1>4
  <2>2. (up - 1) * s < n /\ n <= up * s
    BY <1>1, <1>4
  <2> QED
    BY <1>1, <1>2, <1>4, <2>1, <2>2 DEF InRow
<1> QED
  BY <1>1, <1>3, <1>4

\* No other row does.
LEMMA OneRow ==
    ASSUME NEW s \in Nat, s > 0, NEW n \in Nat, NEW q \in Nat, NEW r \in Nat,
           InRow(s, n, q), InRow(s, n, r)
    PROVE  q = r
<1>1. CASE n = 0
  <2>1. q * s >= 0 /\ r * s >= 0
    BY SMT
  <2> QED BY <1>1, <2>1 DEF InRow
<1>2. CASE n > 0
  <2>1. q * s < (r + 1) * s /\ r * s < (q + 1) * s
    BY <1>2 DEF InRow
  <2> QED BY <2>1
<1> QED BY <1>1, <1>2

\* The column that tile_at computes, clamped and snapped, holds the point; the
\* antimeridian too.
LEMMA ColAt ==
    ASSUME NEW s \in Nat, s > 0, NEW w \in Nat, w > 0, NEW f \in Nat, f > 0, Multiple(w, f),
           NEW e \in Nat, e <= w * s,
           NEW k, k = e \div s, NEW c, c = IF k > w - 1 THEN w - 1 ELSE k
    PROVE  /\ c \in Nat /\ SnappedTo(c, f) \in 0 .. w - 1 /\ Multiple(SnappedTo(c, f), f)
           /\ InColumn(s, w, f, e, SnappedTo(c, f))
<1>1. k \in Nat /\ k * s <= e /\ e < (k + 1) * s
  BY SMT
<1>2. k <= w
  BY <1>1
<1>3. c \in 0 .. w - 1 /\ c \in Nat /\ c <= k /\ (c = k \/ (k = w /\ c = w - 1))
  BY <1>1, <1>2
<1>4. PICK col \in Nat : /\ col = SnappedTo(c, f) /\ Multiple(col, f)
                         /\ col <= c /\ c < col + f
  BY <1>3, SnapBounds
<1>5. col + f <= w
  BY <1>3, <1>4, Fits
<1>6. col * s <= k * s
  BY <1>1, <1>3, <1>4
<1>7. CASE c = k
  <2>1. (k + 1) * s <= (col + f) * s
    BY <1>1, <1>4, <1>7
  <2>2. (col + f) * s \in Nat
    BY <1>4
  <2> QED
    BY <1>1, <1>3, <1>4, <1>6, <2>1, <2>2 DEF InColumn
<1>8. CASE k = w /\ c = w - 1
  <2>1. e = w * s
    BY <1>1, <1>8
  <2>2. col + f = w
    BY <1>4, <1>5, <1>8
  <2> QED
    BY <1>1, <1>3, <1>4, <1>6, <1>8, <2>1, <2>2 DEF InColumn
<1> QED
  BY <1>3, <1>7, <1>8

\* No other column aligned to the same factor does.
LEMMA OneCol ==
    ASSUME NEW s \in Nat, s > 0, NEW w \in Nat, NEW f \in Nat, f > 0, NEW e \in Nat,
           NEW q \in Nat, NEW r \in Nat, r < w, q < w,
           Multiple(q, f), Multiple(r, f), Multiple(w, f),
           InColumn(s, w, f, e, q), InColumn(s, w, f, e, r)
    PROVE  q = r
<1>1. q + f <= w /\ r + f <= w
  BY Fits
<1>2. e = w * s => q + f >= w /\ r + f >= w
  <2>1. SUFFICES ASSUME e = w * s PROVE q + f >= w /\ r + f >= w
    OBVIOUS
  <2>2. ASSUME w * s < (q + f) * s PROVE w < q + f
    BY <2>2
  <2>3. ASSUME w * s < (r + f) * s PROVE w < r + f
    BY <2>3
  <2> QED BY <2>1, <2>2, <2>3 DEF InColumn
<1>3. q < r + f /\ r < q + f
  <2>1. CASE e = w * s
    BY <1>2, <2>1
  <2>2. CASE e # w * s
    <3>1. q * s < (r + f) * s /\ r * s < (q + f) * s
      BY <2>2 DEF InColumn
    <3> QED BY <3>1
  <2> QED BY <2>1, <2>2
<1> QED
  BY <1>3, Close

\* Of the boxes of a level one holds the point, rows having one factor each.
LEMMA OneBox ==
    ASSUME NEW s \in Nat, s > 0, NEW w \in Nat, NEW turn \in Nat, turn = w * s,
           NEW n \in Nat, NEW e \in Nat, NEW p, p.north = n, p.east = e,
           NEW r \in Nat, NEW c \in Nat, NEW f \in Nat, f > 0, Multiple(c, f), c < w,
           NEW q \in Nat, NEW d \in Nat, NEW g \in Nat, Multiple(d, g), d < w,
           q = r => g = f, Multiple(w, f),
           InBox(Box(s, r, c, f), p, turn), InBox(Box(s, q, d, g), p, turn)
    PROVE  q = r /\ c = d
<1>1. InRow(s, n, r) /\ InColumn(s, w, f, e, c)
  BY BoxRowsColumns
<1>2. InRow(s, n, q) /\ InColumn(s, w, g, e, d)
  BY BoxRowsColumns
<1>3. q = r
  BY <1>1, <1>2, OneRow
<1>4. c = d
  BY <1>1, <1>2, <1>3, OneCol
<1> QED
  BY <1>3, <1>4

\* Half the rows and columns, half the side.
LEMMA QuarterWithin ==
    ASSUME NEW s \in Nat, NEW r \in Nat, NEW c \in Nat, NEW f \in Nat,
           NEW row \in Nat, row = 2 * r \/ row = 2 * r + 1,
           NEW d \in Nat, NEW g \in Nat, 2 * c <= d, d + g <= 2 * (c + f)
    PROVE  Within(Box(2 * s, r, c, f), Box(s, row, d, g))
<1>1. r * (2 * s) <= row * s /\ (row + 1) * s <= (r + 1) * (2 * s)
  BY SMT
<1>2. c * (2 * s) <= d * s
  <2>1. (2 * c) * s <= d * s
    BY SMT
  <2> QED BY <2>1
<1>3. (d + g) * s <= (c + f) * (2 * s)
  <2>1. (d + g) * s <= (2 * (c + f)) * s
    BY SMT
  <2> QED BY <2>1
<1> QED
  BY <1>1, <1>2, <1>3 DEF Within, Box

\* Within a box, what a smaller box holds the box holds; at the edges of the earth too.
Boxes == [north : Nat, south : Nat, west : Nat, east : Nat]
LEMMA WithinInBox ==
    ASSUME NEW turn \in Nat, NEW box \in Boxes, box.east <= turn, NEW c \in Boxes,
           NEW p \in [north : Nat, east : Nat], Within(box, c), InBox(c, p, turn)
    PROVE  InBox(box, p, turn)
<1>1. PICK north \in Nat, south \in Nat, west \in Nat, east \in Nat :
         box = [north |-> north, south |-> south, west |-> west, east |-> east]
  BY DEF Boxes
<1>2. PICK x \in Nat, y \in Nat, z \in Nat, v \in Nat :
         c = [north |-> x, south |-> y, west |-> z, east |-> v]
  BY DEF Boxes
<1>3. PICK n \in Nat, e \in Nat : n = p.north /\ e = p.east
  OBVIOUS
<1>4. /\ x < n \/ (n = 0 /\ x = 0)
      /\ n <= y /\ z <= e
      /\ e < v \/ (e = turn /\ v = turn)
  BY <1>2, <1>3 DEF InBox
<1>5. north <= x /\ y <= south /\ west <= z /\ v <= east /\ east <= turn
  BY <1>1, <1>2 DEF Within
<1>6. /\ north < n \/ (n = 0 /\ north = 0)
      /\ n <= south /\ west <= e
      /\ e < east \/ (e = turn /\ east = turn)
  BY <1>4, <1>5
<1> QED
  BY <1>1, <1>3, <1>6 DEF InBox

\* The box of whole rows and columns, as such.
LEMMA BoxIs ==
    ASSUME NEW s \in Nat, NEW r \in Nat, NEW c \in Nat, NEW f \in Nat, NEW w \in Nat, c + f <= w
    PROVE  Box(s, r, c, f) \in Boxes /\ Box(s, r, c, f).east <= w * s
<1>1. r * s \in Nat /\ (r + 1) * s \in Nat /\ c * s \in Nat /\ (c + f) * s \in Nat
  OBVIOUS
<1>2. (c + f) * s <= w * s
  OBVIOUS
<1> QED
  BY <1>1, <1>2 DEF Box, Boxes

\* Two boxes of one side, of different rows or of columns that do not meet.
LEMMA BoxesApart ==
    ASSUME NEW s \in Nat, NEW p \in Nat, NEW q \in Nat, NEW d \in Nat, NEW e \in Nat,
           NEW f \in Nat, NEW g \in Nat,
           p + 1 <= q \/ q + 1 <= p \/ d + f <= e \/ e + g <= d
    PROVE  Apart(Box(s, p, d, f), Box(s, q, e, g))
<1>1. \/ (p + 1) * s <= q * s \/ (q + 1) * s <= p * s
      \/ (d + f) * s <= e * s \/ (e + g) * s <= d * s
  <2>1. CASE p + 1 <= q
    BY <2>1
  <2>2. CASE q + 1 <= p
    BY <2>2
  <2>3. CASE d + f <= e
    BY <2>3
  <2>4. CASE e + g <= d
    BY <2>4
  <2> QED BY <2>1, <2>2, <2>3, <2>4
<1> QED
  BY <1>1 DEF Apart, Box

-----------------------------------------------------------------------------
(* Cdb1GlobalGrid: sizes, zones and owners *)

Levels == LodMin .. LodMax
Factors == {1, 2, 3, 4, 6, 12}

\* Each level has tiles to a degree.
LEMMA PerPositive ==
    ASSUME NEW lod \in Levels
    PROVE  Per[lod] \in Nat /\ Per[lod] > 0 /\ (lod <= 0 => Per[lod] = 1)
<1> DEFINE T == {n \in Nat : n <= LodMax /\ ~(Per[n] > 0)}
<1>1. T = {}
  <2> SUFFICES ASSUME T # {} PROVE FALSE
    OBVIOUS
  <2>1. PICK m \in T : \A k \in T : m <= k
    BY Least
  <2>2. CASE m = 0
    BY <2>1, <2>2, LodAssumption
  <2>3. CASE m > 0
    <3>1. m - 1 \in Nat /\ m - 1 \in 0 .. LodMax - 1 /\ m - 1 \notin T
      BY <2>1, <2>3, LodAssumption
    <3>2. Per[m] = 2 * Per[m - 1]
      <4>1. (m - 1) + 1 = m
        BY <2>1
      <4> QED BY <3>1, <4>1, LodAssumption
    <3>3. Per[m - 1] > 0 /\ Per[m - 1] \in Nat
      <4>1. m - 1 \in Levels
        BY <3>1, LodAssumption DEF Levels
      <4>2. Per[m - 1] > 0
        BY <3>1, LodAssumption
      <4> QED BY <4>1, <4>2, LodAssumption DEF Levels
    <3> QED
      BY <2>1, <3>2, <3>3
  <2> QED
    BY <2>1, <2>2, <2>3
<1>2. Per[lod] \in Nat
  BY LodAssumption DEF Levels
<1>3. CASE lod <= 0
  BY <1>3, LodAssumption DEF Levels
<1>4. CASE lod > 0
  <2>1. lod \in Nat /\ lod <= LodMax
    BY <1>4, LodAssumption DEF Levels
  <2>2. lod \notin T
    BY <1>1
  <2> QED
    BY <1>2, <1>4, <2>1, <2>2
<1> QED
  BY <1>3, <1>4, LodAssumption DEF Levels

\* A degree of the finest level is a whole number of degrees of any other.
LEMMA WholePer ==
    ASSUME NEW lod \in 0 .. LodMax
    PROVE  \E m \in Nat : m > 0 /\ Per[LodMax] = m * Per[lod]
<1> DEFINE Good(l) == \E m \in Nat : m > 0 /\ Per[LodMax] = m * Per[l]
           T == {n \in 0 .. LodMax : ~Good(LodMax - n)}
<1>0. LodMax \in Nat
  BY LodAssumption
<1>1. T = {}
  <2> SUFFICES ASSUME T # {} PROVE FALSE
    OBVIOUS
  <2>1. PICK n \in T : \A k \in T : n <= k
    <3>1. T \subseteq Nat
      BY <1>0
    <3> HIDE DEF T
    <3> QED BY <3>1, Least
  <2>2. CASE n = 0
    <3>1. LodMax - n = LodMax
      BY <1>0, <2>2
    <3>2. Per[LodMax] \in Nat
      BY LodAssumption, <1>0
    <3>3. Per[LodMax] = 1 * Per[LodMax]
      BY <3>2
    <3>4. Good(LodMax)
      BY <3>3
    <3> QED BY <2>1, <3>1, <3>4
  <2>3. CASE n > 0
    <3> DEFINE l == LodMax - n
    <3>1. n - 1 \in 0 .. LodMax /\ n - 1 \notin T /\ l \in 0 .. LodMax - 1
          /\ LodMax - (n - 1) = l + 1
      BY <1>0, <2>1, <2>3
    <3>2. PICK m \in Nat : m > 0 /\ Per[LodMax] = m * Per[l + 1]
      BY <3>1
    <3>3. Per[l + 1] = 2 * Per[l]
      BY <3>1, LodAssumption
    <3>4. Per[l] \in Nat
      <4>1. l \in Levels
        BY <3>1, LodAssumption DEF Levels
      <4> QED BY <4>1, LodAssumption DEF Levels
    <3> HIDE DEF l
    <3>5. Per[LodMax] = (2 * m) * Per[l] /\ 2 * m \in Nat /\ 2 * m > 0
      BY <3>2, <3>3, <3>4
    <3>6. Good(l)
      BY <3>5
    <3> QED BY <2>1, <3>6 DEF l
  <2> QED
    BY <1>0, <2>1, <2>2, <2>3
<1>2. LodMax - lod \in 0 .. LodMax /\ LodMax - (LodMax - lod) = lod
  BY <1>0
<1>3. LodMax - lod \notin T
  BY <1>1
<1> QED
  BY <1>2, <1>3

\* A side is an even number of units and a degree a whole number of sides.
LEMMA Sides ==
    ASSUME NEW lod \in Levels
    PROVE  /\ \E m \in Nat : m > 0 /\ Side(lod) = 2 * m
           /\ Per[lod] * Side(lod) = Degree
<1>1. PICK m \in Nat : m > 0 /\ Per[LodMax] = m * Per[lod]
  <2>1. CASE lod >= 0
    BY <2>1, WholePer, LodAssumption DEF Levels
  <2>2. CASE lod < 0
    <3>1. Per[lod] = 1 /\ Per[LodMax] \in Nat /\ Per[LodMax] > 0
      BY <2>2, PerPositive, LodAssumption DEF Levels
    <3> QED BY <3>1
  <2> QED BY <2>1, <2>2, LodAssumption DEF Levels
<1>2. Per[lod] \in Nat /\ Per[lod] > 0
  BY PerPositive
<1>3. Degree = (2 * m) * Per[lod]
  BY <1>1, <1>2 DEF Degree
<1>4. Side(lod) = 2 * m
  BY <1>1, <1>2, <1>3 DEF Side
<1> QED
  BY <1>1, <1>2, <1>3, <1>4

\* From level 0 on the next level halves the side; below, it keeps it.
LEMMA NextSide ==
    ASSUME NEW lod \in Levels, lod < LodMax
    PROVE  /\ lod + 1 \in Levels
           /\ lod < 0 => Per[lod + 1] = 1 /\ Per[lod] = 1 /\ Side(lod + 1) = Side(lod)
           /\ lod >= 0 => Per[lod + 1] = 2 * Per[lod] /\ Side(lod) = 2 * Side(lod + 1)
<1>1. lod + 1 \in Levels
  BY LodAssumption DEF Levels
<1>2. CASE lod < 0
  BY <1>1, <1>2, PerPositive, LodAssumption DEF Levels, Side
<1>3. CASE lod >= 0
  <2>1. Per[lod + 1] = 2 * Per[lod]
    BY <1>3, LodAssumption DEF Levels
  <2>2. PICK m \in Nat : m > 0 /\ Side(lod) = 2 * m
    BY Sides
  <2>3. PICK k \in Nat : k > 0 /\ Side(lod + 1) = 2 * k
    BY <1>1, Sides
  <2>4. Per[lod] * (2 * m) = (2 * Per[lod]) * (2 * k)
    BY <1>1, <2>1, <2>2, <2>3, Sides
  <2>5. Per[lod] \in Nat /\ Per[lod] > 0
    BY PerPositive
  <2>6. m = 2 * k
    BY <2>4, <2>5
  <2> QED
    BY <1>1, <1>3, <2>1, <2>2, <2>3, <2>6, LodAssumption DEF Levels
<1> QED
  BY <1>1, <1>2, <1>3, LodAssumption DEF Levels
\* A zone is one of six widths,
LEMMA ZoneWidths ==
    ASSUME NEW a \in 0 .. 89
    PROVE  ZoneWidth(a) \in Factors
<1> DEFINE Is(i) == /\ i \in 1 .. 6 /\ a < ZoneBands[i][1]
                   /\ \A j \in 1 .. i - 1 : ~(a < ZoneBands[j][1])
<1>1. \E i \in 1 .. 6 : Is(i)
  <2>1. CASE a < 50
    <3>1. Is(1) BY <2>1 DEF ZoneBands
    <3> QED BY <3>1
  <2>2. CASE a >= 50 /\ a < 70
    <3>1. Is(2) BY <2>2 DEF ZoneBands
    <3> QED BY <3>1
  <2>3. CASE a >= 70 /\ a < 75
    <3>1. Is(3) BY <2>3 DEF ZoneBands
    <3> QED BY <3>1
  <2>4. CASE a >= 75 /\ a < 80
    <3>1. Is(4) BY <2>4 DEF ZoneBands
    <3> QED BY <3>1
  <2>5. CASE a >= 80 /\ a < 89
    <3>1. Is(5) BY <2>5 DEF ZoneBands
    <3> QED BY <3>1
  <2>6. CASE a >= 89
    <3>1. Is(6) BY <2>6 DEF ZoneBands
    <3> QED BY <3>1
  <2> QED BY <2>1, <2>2, <2>3, <2>4, <2>5, <2>6
<1>2. PICK i \in 1 .. 6 : ZoneWidth(a) = ZoneBands[i][2]
  BY <1>1 DEF ZoneWidth
<1> QED
  BY <1>2 DEF ZoneBands, Factors

\* and a row in range has a geocell and such a factor.
LEMMA RowFactor ==
    ASSUME NEW lod \in Levels, NEW row \in 0 .. Height(lod) - 1
    PROVE  /\ Factor(lod, row) \in Nat /\ Factor(lod, row) \in Factors
           /\ Geocell(lod, row) \in 0 .. 179
<1>1. PICK m \in Nat : m = Per[lod] /\ m > 0
  BY PerPositive
<1>2. row \in Nat /\ row < 180 * m
  BY <1>1 DEF Height
<1>3. row \div m \in 0 .. 179
  <2>1. row \div m \in Nat /\ (row \div m) * m <= row
    BY <1>1, <1>2
  <2> DEFINE q == row \div m
  <2> HIDE DEF q
  <2>2. q * m < 180 * m
    BY <1>1, <1>2, <2>1 DEF q
  <2>3. q < 180
    BY <1>1, <2>1, <2>2 DEF q
  <2> QED BY <2>1, <2>3 DEF q
<1>4. PICK g \in 0 .. 179 : g = Geocell(lod, row)
  BY <1>1, <1>3 DEF Geocell
<1>5. Factor(lod, row) = ZoneWidth(IF g < 90 THEN 89 - g ELSE g - 90)
  BY <1>4 DEF Factor
<1>6. (IF g < 90 THEN 89 - g ELSE g - 90) \in 0 .. 89
  OBVIOUS
<1> QED
  BY <1>4, <1>5, <1>6, ZoneWidths DEF Factors


Cdb1Turn == 360 * Degree
Cdb1Points == [north : 0 .. 180 * Degree, east : 0 .. Cdb1Turn]

\* The earth is a whole number of rows and columns, which every factor divides.
LEMMA Sizes ==
    ASSUME NEW lod \in Levels
    PROVE  /\ Side(lod) \in Nat /\ Side(lod) > 0
           /\ Height(lod) \in Nat /\ Height(lod) > 0 /\ Height(lod) * Side(lod) = 180 * Degree
           /\ Width(lod) \in Nat /\ Width(lod) > 0 /\ Width(lod) * Side(lod) = Cdb1Turn
           /\ Degree \in Nat /\ Degree > 0
           /\ \A f \in Factors : f \in Nat /\ f > 0 /\ Multiple(Width(lod), f)
<1>1. PICK m \in Nat : m = Per[lod] /\ m > 0
  BY PerPositive
<1>2. PICK s \in Nat : s = Side(lod) /\ s > 0
  BY Sides
<1>3. m * s = Degree
  BY <1>1, <1>2, Sides
<1>4. (180 * m) * s = 180 * (m * s) /\ (360 * m) * s = 360 * (m * s)
  OBVIOUS
<1>5. m * s \in Nat /\ m * s > 0
  BY <1>1, <1>2
<1>6. \A f \in Factors : f \in Nat /\ f > 0 /\ Multiple(360 * m, f)
  BY <1>1 DEF Factors, Multiple
<1> QED
  BY <1>1, <1>2, <1>3, <1>4, <1>5, <1>6 DEF Height, Width, Cdb1Turn

\* The rows of children lie in the geocell of their parent.
LEMMA HalfRow ==
    ASSUME NEW r \in Nat, NEW p \in Nat, p > 0, NEW i \in {0, 1}
    PROVE  (2 * r + i) \div (2 * p) = r \div p
<1>1. PICK q \in Nat : q = r \div p /\ q * p <= r /\ r < (q + 1) * p
  BY SMT
<1>2. q * (2 * p) <= 2 * r + i
  BY <1>1
<1>3. 2 * r + i < (q + 1) * (2 * p)
  <2>1. (q + 1) * (2 * p) = 2 * ((q + 1) * p)
    BY <1>1
  <2>2. (q + 1) * p \in Nat
    BY <1>1
  <2> QED BY <1>1, <2>1, <2>2
<1>4. PICK a \in Nat, b \in Nat : a = 2 * r + i /\ b = 2 * p /\ b > 0
  OBVIOUS
<1>5. a \div b = q
  BY <1>2, <1>3, <1>4
<1> QED
  BY <1>1, <1>4, <1>5

\* Hence children are coalesced as their parent.
LEMMA SameFactor ==
    ASSUME NEW lod \in Levels, lod < LodMax, NEW row \in 0 .. Height(lod) - 1
    PROVE  /\ lod < 0 => /\ row \in 0 .. Height(lod + 1) - 1
                         /\ Width(lod + 1) = Width(lod)
                         /\ Factor(lod + 1, row) = Factor(lod, row)
           /\ lod >= 0 => /\ Width(lod + 1) = 2 * Width(lod)
                          /\ \A i \in {0, 1} :
                                /\ 2 * row + i \in 0 .. Height(lod + 1) - 1
                                /\ Factor(lod + 1, 2 * row + i) = Factor(lod, row)
<1>1. PICK m \in Nat : m = Per[lod] /\ m > 0
  BY PerPositive
<1>2. row \in Nat /\ row < 180 * m
  BY <1>1 DEF Height
<1>0. lod \in Int
  BY LodAssumption DEF Levels
<1>3. CASE lod < 0
  <2>1. Per[lod + 1] = Per[lod]
    BY <1>3, NextSide
  <2> QED
    BY <1>0, <1>3, <2>1 DEF Height, Width, Factor, Geocell
<1>4. CASE lod >= 0
  <2>1. Per[lod + 1] = 2 * m
    BY <1>1, <1>4, NextSide
  <2>2. ASSUME NEW i \in {0, 1}
        PROVE  /\ 2 * row + i \in 0 .. Height(lod + 1) - 1
               /\ Factor(lod + 1, 2 * row + i) = Factor(lod, row)
    <3>1. 2 * row + i \in 0 .. Height(lod + 1) - 1
      BY <1>1, <1>2, <2>1 DEF Height
    <3>2. Geocell(lod + 1, 2 * row + i) = Geocell(lod, row)
      BY <1>1, <1>2, <2>1, HalfRow DEF Geocell
    <3> QED
      BY <3>1, <3>2 DEF Factor
  <2>3. Width(lod + 1) = 2 * Width(lod)
    BY <1>1, <2>1 DEF Width
  <2> QED
    BY <1>0, <1>4, <2>2, <2>3
<1> QED
  BY <1>3, <1>4, LodAssumption DEF Levels


Cdb1Tiles == {t \in [level : Levels, row : Nat, col : Nat] : Address(t)}

\* A tile by its numbers.
LEMMA TileNumbers ==
    ASSUME NEW t \in Cdb1Tiles
    PROVE  \E lod \in Levels, r \in Nat, c \in Nat, f \in Nat, s \in Nat, w \in Nat :
              /\ t = [level |-> lod, row |-> r, col |-> c]
              /\ lod = t.level /\ lod \in Int
              /\ s = Side(lod) /\ s > 0 /\ w = Width(lod) /\ w * s = Cdb1Turn
              /\ r \in 0 .. Height(lod) - 1 /\ c \in 0 .. w - 1
              /\ f = Factor(lod, r) /\ f > 0 /\ Multiple(c, f) /\ Multiple(w, f) /\ c + f <= w
              /\ TileExtent(t) = Box(s, r, c, f)
<1>1. PICK lod \in Levels, r \in Nat, c \in Nat : t = [level |-> lod, row |-> r, col |-> c]
  BY DEF Cdb1Tiles
<1>2. /\ lod \in Int /\ r \in 0 .. Height(lod) - 1 /\ c \in 0 .. Width(lod) - 1
      /\ Multiple(c, Factor(lod, r))
  BY <1>1, LodAssumption DEF Cdb1Tiles, Address, Levels, Multiple
<1>3. PICK f \in Nat : f = Factor(lod, r) /\ f \in Factors
  BY <1>2, RowFactor
<1>4. PICK s \in Nat, w \in Nat : /\ s = Side(lod) /\ s > 0 /\ w = Width(lod) /\ w > 0
                                  /\ w * s = Cdb1Turn /\ f > 0 /\ Multiple(w, f)
  BY <1>3, Sizes
<1>5. c + f <= w
  BY <1>2, <1>3, <1>4, Fits
<1>6. TileExtent(t) = Box(s, r, c, f)
  BY <1>1, <1>3, <1>4 DEF TileExtent, Box
<1> QED
  BY <1>1, <1>2, <1>3, <1>4, <1>5, <1>6

\* Numbers in range and aligned make a tile.
LEMMA IsTile ==
    ASSUME NEW lod \in Levels, NEW r \in 0 .. Height(lod) - 1, NEW c \in 0 .. Width(lod) - 1,
           Multiple(c, Factor(lod, r))
    PROVE  [level |-> lod, row |-> r, col |-> c] \in Cdb1Tiles
<1>1. r \in Nat /\ c \in Nat
  BY Sizes
<1> QED
  BY <1>1 DEF Cdb1Tiles, Address, Levels, Multiple

\* tile_at gives an address whose tile owns the point.
LEMMA TileAtOwns ==
    ASSUME NEW p \in Cdb1Points, NEW lod \in Levels
    PROVE  /\ TileAt(p, lod) \in Cdb1Tiles /\ TileAt(p, lod).level = lod
           /\ InBox(TileExtent(TileAt(p, lod)), p, Cdb1Turn)
<1>1. PICK s \in Nat : s = Side(lod) /\ s > 0
  BY Sizes
<1>2. PICK h \in Nat : h = Height(lod) /\ h > 0 /\ h * s = 180 * Degree
  BY <1>1, Sizes
<1>3. PICK w \in Nat : w = Width(lod) /\ w > 0 /\ w * s = Cdb1Turn
  BY <1>1, Sizes
<1>4. PICK n \in Nat : n = p.north /\ n <= h * s
  BY <1>2, Sizes DEF Cdb1Points
<1>5. PICK e \in Nat : e = p.east /\ e <= w * s
  BY <1>3, Sizes DEF Cdb1Points
<1>6. PICK up, r : up = (n + s - 1) \div s /\ r = IF up = 0 THEN 0 ELSE up - 1
  OBVIOUS
<1>7. up \in Nat /\ r \in 0 .. h - 1 /\ InRow(s, n, r)
  BY <1>1, <1>2, <1>4, <1>6, RowAt
<1>8. AtMost(AtLeast(up - 1, 0), h - 1) = r
  BY <1>2, <1>6, <1>7 DEF AtMost, AtLeast
<1>9. PICK f \in Nat : f = Factor(lod, r) /\ f > 0 /\ Multiple(w, f)
  BY <1>2, <1>3, <1>7, RowFactor, Sizes
<1>10. PICK k, c : k = e \div s /\ c = IF k > w - 1 THEN w - 1 ELSE k
  OBVIOUS
<1>11. /\ c \in Nat /\ SnappedTo(c, f) \in 0 .. w - 1 /\ Multiple(SnappedTo(c, f), f)
       /\ InColumn(s, w, f, e, SnappedTo(c, f))
  BY <1>1, <1>3, <1>5, <1>9, <1>10, ColAt
<1>12. AtMost(k, w - 1) = c
  BY <1>10 DEF AtMost
<1>13. PICK col \in 0 .. w - 1 : col = SnappedTo(c, f)
  BY <1>11
<1>14. TileAt(p, lod) = [level |-> lod, row |-> r, col |-> col]
  <2>1. TileAt(p, lod) = Snapped(lod, AtMost(AtLeast(up - 1, 0), h - 1), AtMost(k, w - 1))
    BY <1>1, <1>2, <1>3, <1>4, <1>5, <1>6, <1>10 DEF TileAt
  <2> QED BY <1>8, <1>9, <1>12, <1>13, <2>1 DEF Snapped, SnappedTo
<1>15. TileAt(p, lod) \in Cdb1Tiles
  BY <1>2, <1>3, <1>7, <1>9, <1>11, <1>13, <1>14, IsTile
<1>16. TileExtent(TileAt(p, lod)) = Box(s, r, col, f)
  BY <1>1, <1>9, <1>14 DEF TileExtent, Box
<1>17. InBox(Box(s, r, col, f), p, Cdb1Turn)
  <2>1. col \in Nat /\ r \in Nat /\ Cdb1Turn \in Nat
    BY <1>2, <1>3, <1>7
  <2> QED BY <1>1, <1>3, <1>4, <1>5, <1>7, <1>11, <1>13, <2>1, BoxRowsColumns
<1> QED
  BY <1>14, <1>15, <1>16, <1>17

\* No other tile of the level does.
LEMMA OneOwner ==
    ASSUME NEW p \in Cdb1Points, NEW t \in Cdb1Tiles, NEW u \in Cdb1Tiles, t.level = u.level,
           InBox(TileExtent(t), p, Cdb1Turn), InBox(TileExtent(u), p, Cdb1Turn)
    PROVE  t = u
<1>1. PICK lod \in Levels, r \in Nat, c \in Nat, f \in Nat, s \in Nat, w \in Nat :
          /\ t = [level |-> lod, row |-> r, col |-> c]
          /\ lod = t.level /\ lod \in Int
          /\ s = Side(lod) /\ s > 0 /\ w = Width(lod) /\ w * s = Cdb1Turn
          /\ r \in 0 .. Height(lod) - 1 /\ c \in 0 .. w - 1
          /\ f = Factor(lod, r) /\ f > 0 /\ Multiple(c, f) /\ Multiple(w, f) /\ c + f <= w
          /\ TileExtent(t) = Box(s, r, c, f)
  BY TileNumbers
<1>2. PICK q \in Nat, d \in Nat, g \in Nat :
          /\ u = [level |-> lod, row |-> q, col |-> d]
          /\ d \in 0 .. w - 1
          /\ g = Factor(lod, q) /\ Multiple(d, g)
          /\ TileExtent(u) = Box(s, q, d, g)
  BY <1>1, TileNumbers
<1>3. PICK n \in Nat, e \in Nat : n = p.north /\ e = p.east
  BY Sizes DEF Cdb1Points, Cdb1Turn
<1>4. Cdb1Turn \in Nat
  BY <1>1
<1>5. InBox(Box(s, r, c, f), p, Cdb1Turn) /\ InBox(Box(s, q, d, g), p, Cdb1Turn)
  BY <1>1, <1>2
<1>6. q = r => g = f
  BY <1>1, <1>2
<1>7. c < w /\ d < w
  BY <1>1, <1>2
<1>8. s > 0 /\ w * s = Cdb1Turn /\ f > 0 /\ Multiple(c, f) /\ Multiple(w, f) /\ Multiple(d, g)
  BY <1>1, <1>2
<1>9. q = r /\ c = d
  BY <1>3, <1>4, <1>5, <1>6, <1>7, <1>8, OneBox
<1> QED
  BY <1>1, <1>2, <1>9

-----------------------------------------------------------------------------
(* Cdb1GlobalGrid: parents and children *)

\* The children of a tile are tiles of the next level, within it, whose parent it is.
LEMMA ChildrenOfTile ==
    ASSUME NEW t \in Cdb1Tiles, t.level < LodMax, NEW child \in Children(t)
    PROVE  /\ child \in Cdb1Tiles /\ child.level = t.level + 1
           /\ Parent(child) = t
           /\ Within(TileExtent(t), TileExtent(child))
<1>1. PICK lod \in Levels, r \in Nat, c \in Nat, f \in Nat, s \in Nat, w \in Nat :
          /\ t = [level |-> lod, row |-> r, col |-> c]
          /\ lod = t.level /\ lod \in Int
          /\ s = Side(lod) /\ s > 0 /\ w = Width(lod) /\ w * s = Cdb1Turn
          /\ r \in 0 .. Height(lod) - 1 /\ c \in 0 .. w - 1
          /\ f = Factor(lod, r) /\ f > 0 /\ Multiple(c, f) /\ Multiple(w, f) /\ c + f <= w
          /\ TileExtent(t) = Box(s, r, c, f)
  BY TileNumbers
<1>2. lod + 1 \in Levels /\ lod < LodMax
  BY <1>1, NextSide
<1>3. CASE lod < 0
  <2>1. child = [level |-> lod + 1, row |-> r, col |-> c]
    BY <1>1, <1>3 DEF Children
  <2>2. /\ r \in 0 .. Height(lod + 1) - 1 /\ Width(lod + 1) = w
        /\ Factor(lod + 1, r) = f /\ Side(lod + 1) = s
    BY <1>1, <1>2, <1>3, SameFactor, NextSide
  <2>3. child \in Cdb1Tiles
    BY <1>1, <1>2, <2>1, <2>2, IsTile
  <2>4. Parent(child) = t
    BY <1>1, <1>3, <2>1 DEF Parent
  <2>5. TileExtent(child) = Box(s, r, c, f)
    BY <1>1, <2>1, <2>2 DEF TileExtent, Box
  <2>6. Within(Box(s, r, c, f), Box(s, r, c, f))
    BY DEF Box, Within
  <2> QED BY <1>1, <2>1, <2>3, <2>4, <2>5, <2>6
<1>4. CASE lod >= 0
  <2>1. PICK row \in Nat, col \in Nat :
            /\ child = [level |-> lod + 1, row |-> row, col |-> col]
            /\ row = 2 * r \/ row = 2 * r + 1
            /\ col = 2 * c \/ col = 2 * c + f
    BY <1>1, <1>4 DEF Children
  <2>2. /\ row \in 0 .. Height(lod + 1) - 1 /\ Factor(lod + 1, row) = f
        /\ Width(lod + 1) = 2 * w
    <3>1. PICK i \in {0, 1} : row = 2 * r + i
      BY <2>1
    <3> QED BY <1>1, <1>2, <1>4, <3>1, SameFactor
  <2>3. Multiple(col, f)
    BY <1>1, <2>1, MultiplesAdd
  <2>4. col + f <= 2 * (c + f) /\ 2 * c <= col /\ col < 2 * w
    BY <1>1, <2>1
  <2>5. child \in Cdb1Tiles
    <3>1. col \in 0 .. Width(lod + 1) - 1
      BY <2>2, <2>4, <1>1
    <3> QED BY <1>2, <2>1, <2>2, <2>3, <3>1, IsTile
  <2>6. Parent(child) = t
    <3>1. row \div 2 = r
      BY <2>1
    <3>2. PICK h \in Nat : h = col \div 2
      BY <2>1
    <3>3. SnappedTo(h, f) = c
      BY <1>1, <2>1, <3>2, Halved
    <3>4. Parent(child) = Snapped(lod, r, h)
      <4>1. child.level = lod + 1 /\ child.row = row /\ child.col = col
        BY <2>1
      <4>2. ~(lod + 1 <= 0) /\ (lod + 1) - 1 = lod
        BY <1>1, <1>4
      <4> QED BY <3>1, <3>2, <4>1, <4>2 DEF Parent
    <3> QED BY <1>1, <3>3, <3>4 DEF Snapped, SnappedTo
  <2>7. Within(TileExtent(t), TileExtent(child))
    <3>1. PICK k \in Nat : k = Side(lod + 1) /\ s = 2 * k
      BY <1>1, <1>2, <1>4, NextSide, Sizes
    <3>2. TileExtent(child) = Box(k, row, col, f)
      BY <2>1, <2>2, <3>1 DEF TileExtent, Box
    <3>3. Within(Box(2 * k, r, c, f), Box(k, row, col, f))
      BY <2>1, <2>4, QuarterWithin
    <3> QED BY <1>1, <3>1, <3>2, <3>3
  <2> QED BY <1>1, <2>1, <2>5, <2>6, <2>7
<1> QED
  BY <1>1, <1>3, <1>4

\* No two children of a tile overlap.
LEMMA ChildrenApart ==
    ASSUME NEW t \in Cdb1Tiles, t.level < LodMax, NEW a \in Children(t), NEW b \in Children(t),
           a # b
    PROVE  Apart(TileExtent(a), TileExtent(b))
<1>1. PICK lod \in Levels, r \in Nat, c \in Nat, f \in Nat :
          /\ t = [level |-> lod, row |-> r, col |-> c]
          /\ lod = t.level /\ lod \in Int
          /\ r \in 0 .. Height(lod) - 1 /\ f = Factor(lod, r)
  BY TileNumbers
<1>2. lod >= 0
  BY <1>1 DEF Children
<1>3. PICK s \in Nat : s = Side(lod + 1) /\ s > 0
  BY <1>1, NextSide, Sizes
<1>4. PICK p \in {2 * r, 2 * r + 1}, d \in {2 * c, 2 * c + f} :
          a = [level |-> lod + 1, row |-> p, col |-> d]
  BY <1>1, <1>2 DEF Children
<1>5. PICK q \in {2 * r, 2 * r + 1}, e \in {2 * c, 2 * c + f} :
          b = [level |-> lod + 1, row |-> q, col |-> e]
  BY <1>1, <1>2 DEF Children
<1>6. Factor(lod + 1, p) = f /\ Factor(lod + 1, q) = f
  <2>1. /\ Factor(lod + 1, 2 * r + 0) = f /\ Factor(lod + 1, 2 * r + 1) = f
    BY <1>1, <1>2, SameFactor
  <2> QED BY <2>1
<1>7. TileExtent(a) = Box(s, p, d, f) /\ TileExtent(b) = Box(s, q, e, f)
  BY <1>3, <1>4, <1>5, <1>6 DEF TileExtent, Box
<1>8. p + 1 <= q \/ q + 1 <= p \/ d + f <= e \/ e + f <= d
  BY <1>4, <1>5
<1>9. p \in Nat /\ q \in Nat /\ d \in Nat /\ e \in Nat
  OBVIOUS
<1>10. Apart(Box(s, p, d, f), Box(s, q, e, f))
  BY <1>8, <1>9, BoxesApart
<1> QED
  BY <1>7, <1>10

\* A tile is a child of its parent, a tile of the level before.
LEMMA ParentOfTile ==
    ASSUME NEW t \in Cdb1Tiles, t.level > LodMin
    PROVE  /\ Parent(t) \in Cdb1Tiles /\ Parent(t).level = t.level - 1
           /\ t \in Children(Parent(t))
<1>1. PICK lod \in Levels, r \in Nat, c \in Nat, f \in Nat, w \in Nat :
          /\ t = [level |-> lod, row |-> r, col |-> c]
          /\ lod = t.level /\ lod \in Int
          /\ w = Width(lod)
          /\ r \in 0 .. Height(lod) - 1 /\ c \in 0 .. w - 1
          /\ f = Factor(lod, r) /\ f > 0 /\ Multiple(c, f)
  BY TileNumbers
<1>2. PICK l \in Levels : l = lod - 1 /\ l + 1 = lod /\ l < LodMax /\ l \in Int
  BY <1>1, LodAssumption DEF Levels
<1>3. CASE l < 0
  <2>1. Parent(t) = [level |-> l, row |-> r, col |-> c]
    BY <1>1, <1>2, <1>3 DEF Parent
  <2>2. Height(l) = Height(lod) /\ Width(l) = Width(lod) /\ Factor(l, r) = f
    <3>1. Per[l] = Per[lod]
      BY <1>2, <1>3, NextSide
    <3>2. Height(l) = Height(lod)
      BY <3>1 DEF Height
    <3> QED BY <1>1, <1>2, <1>3, <3>2, SameFactor
  <2>3. Parent(t) \in Cdb1Tiles
    BY <1>1, <2>1, <2>2, IsTile
  <2>4. t \in Children(Parent(t))
    BY <1>1, <1>2, <1>3, <2>1 DEF Children
  <2> QED BY <1>1, <1>2, <2>1, <2>3, <2>4
<1>4. CASE l >= 0
  <2>1. PICK q \in Nat : q = r \div 2 /\ (r = 2 * q \/ r = 2 * q + 1)
    OBVIOUS
  <2>2. Height(lod) = 2 * Height(l) /\ w = 2 * Width(l)
        /\ Height(l) \in Nat /\ Width(l) \in Nat
    <3>1. Per[lod] = 2 * Per[l]
      BY <1>2, <1>4, NextSide
    <3>2. Per[l] \in Nat
      BY PerPositive
    <3> QED BY <1>1, <3>1, <3>2 DEF Height, Width
  <2>3. q \in 0 .. Height(l) - 1
    BY <1>1, <2>1, <2>2
  <2>4. Factor(l, q) = f
    <3>1. Factor(lod, 2 * q + 0) = Factor(l, q) /\ Factor(lod, 2 * q + 1) = Factor(l, q)
      BY <1>2, <1>4, <2>3, SameFactor
    <3> QED BY <1>1, <2>1, <3>1
  <2>5. PICK h \in Nat : h = c \div 2 /\ 2 * h <= c
    OBVIOUS
  <2>6. PICK d \in Nat : d = SnappedTo(h, f) /\ Multiple(d, f) /\ d <= h
    BY <1>1, <2>5, SnapBounds
  <2>7. c = 2 * d \/ c = 2 * d + f
    BY <1>1, <2>5, <2>6, SnapColumn
  <2>8. d \in 0 .. Width(l) - 1
    BY <1>1, <2>2, <2>5, <2>6
  <2>9. Parent(t) = [level |-> l, row |-> q, col |-> d]
    <3>1. Parent(t) = Snapped(l, q, h)
      BY <1>1, <1>2, <1>4, <2>1, <2>5 DEF Parent
    <3> QED BY <2>4, <2>6, <3>1 DEF Snapped, SnappedTo
  <2>10. Parent(t) \in Cdb1Tiles
    BY <2>3, <2>4, <2>6, <2>8, <2>9, IsTile
  <2>11. t \in Children(Parent(t))
    <3> DEFINE u == Parent(t)
    <3>1. u.level = l /\ u.row = q /\ u.col = d
      BY <2>9
    <3>2. ~(l < 0)
      BY <1>2, <1>4
    <3> HIDE DEF u
    <3>3. Children(u) = [level : {l + 1}, row : {2 * q, 2 * q + 1}, col : {2 * d, 2 * d + f}]
      BY <2>4, <3>1, <3>2 DEF Children
    <3> QED BY <1>1, <1>2, <2>1, <2>7, <3>3 DEF u
  <2> QED BY <1>1, <1>2, <2>9, <2>10, <2>11
<1> QED
  BY <1>2, <1>3, <1>4

\* The box of a tile, as such.
LEMMA TileBox ==
    ASSUME NEW t \in Cdb1Tiles
    PROVE  TileExtent(t) \in Boxes /\ TileExtent(t).east <= Cdb1Turn /\ Cdb1Turn \in Nat
<1>1. PICK r \in Nat, c \in Nat, f \in Nat, s \in Nat, w \in Nat :
          w * s = Cdb1Turn /\ c + f <= w /\ TileExtent(t) = Box(s, r, c, f)
  BY TileNumbers
<1>2. Box(s, r, c, f) \in Boxes /\ Box(s, r, c, f).east <= w * s
  BY <1>1, BoxIs
<1>3. w * s \in Nat
  OBVIOUS
<1> QED
  BY <1>1, <1>2, <1>3

\* What a tile owns its parent owns.
LEMMA ParentOwns ==
    ASSUME NEW t \in Cdb1Tiles, t.level > LodMin, NEW p \in Cdb1Points,
           InBox(TileExtent(t), p, Cdb1Turn)
    PROVE  InBox(TileExtent(Parent(t)), p, Cdb1Turn)
<1>1. PICK u \in Cdb1Tiles : u = Parent(t) /\ u.level < LodMax /\ t \in Children(u)
  BY ParentOfTile, LodAssumption DEF Cdb1Tiles, Levels
<1>2. Within(TileExtent(u), TileExtent(t))
  BY <1>1, ChildrenOfTile
<1>3. /\ TileExtent(u) \in Boxes /\ TileExtent(u).east <= Cdb1Turn /\ Cdb1Turn \in Nat
      /\ TileExtent(t) \in Boxes
  BY TileBox
<1>4. p \in [north : Nat, east : Nat]
  <2>1. 0 \in Levels
    BY LodAssumption DEF Levels
  <2>2. 180 * Degree \in Nat
    BY <2>1, Sizes
  <2> QED BY <1>3, <2>2 DEF Cdb1Points
<1>5. InBox(TileExtent(u), p, Cdb1Turn)
  BY <1>2, <1>3, <1>4, WithinInBox
<1> QED
  BY <1>1, <1>5

\* One child, and no more, owns what the tile owns: the child of tile_at.
LEMMA ChildOwns ==
    ASSUME NEW t \in Cdb1Tiles, t.level < LodMax, NEW p \in Cdb1Points,
           InBox(TileExtent(t), p, Cdb1Turn)
    PROVE  \E child \in Children(t) : \A other \in Children(t) :
              InBox(TileExtent(other), p, Cdb1Turn) <=> other = child
<1>1. PICK l \in Levels : l = t.level + 1 /\ l - 1 = t.level /\ l > LodMin
  <2>1. PICK lod \in Int : lod = t.level /\ lod \in LodMin .. LodMax
    BY LodAssumption DEF Cdb1Tiles, Levels
  <2>2. lod + 1 \in Levels /\ (lod + 1) - 1 = lod /\ lod + 1 > LodMin
    BY <2>1, LodAssumption DEF Levels
  <2> QED BY <2>1, <2>2
<1>2. PICK child \in Cdb1Tiles : child.level = l /\ InBox(TileExtent(child), p, Cdb1Turn)
  BY TileAtOwns
<1>3. /\ Parent(child) \in Cdb1Tiles /\ Parent(child).level = t.level
      /\ child \in Children(Parent(child))
  BY <1>1, <1>2, ParentOfTile
<1>4. InBox(TileExtent(Parent(child)), p, Cdb1Turn)
  BY <1>1, <1>2, ParentOwns
<1>5. Parent(child) = t
  BY <1>3, <1>4, OneOwner
<1>6. ASSUME NEW other \in Children(t), InBox(TileExtent(other), p, Cdb1Turn)
      PROVE  other = child
  <2>1. other \in Cdb1Tiles /\ other.level = l
    BY <1>1, ChildrenOfTile
  <2> QED BY <1>2, <1>6, <2>1, OneOwner
<1> QED
  BY <1>2, <1>3, <1>5, <1>6

-----------------------------------------------------------------------------
(* GnosisGlobalGrid: powers of two and bit lengths *)

GnosisLevels == 0 .. LevelMax

\* What is assumed of the powers of two.
LEMMA ScaleFacts ==
    /\ LevelMax \in Nat /\ Scale \in [0 .. LevelMax -> Nat] /\ Scale[0] = 1
    /\ \A n \in 0 .. LevelMax - 1 : Scale[n + 1] = 2 * Scale[n]
BY GnosisAssumption DEF Gnosis!LevelAssumption

\* They are positive,
LEMMA ScalePositive ==
    ASSUME NEW n \in GnosisLevels
    PROVE  Scale[n] \in Nat /\ Scale[n] > 0
<1> DEFINE T == {k \in Nat : k <= LevelMax /\ ~(Scale[k] > 0)}
<1>1. T = {}
  <2> SUFFICES ASSUME T # {} PROVE FALSE
    OBVIOUS
  <2>1. PICK m \in T : \A k \in T : m <= k
    BY Least
  <2>2. CASE m = 0
    BY <2>1, <2>2, ScaleFacts
  <2>3. CASE m > 0
    <3>1. m - 1 \in 0 .. LevelMax - 1 /\ (m - 1) + 1 = m /\ m - 1 \notin T
      BY <2>1, <2>3, ScaleFacts
    <3>2. Scale[m] = 2 * Scale[m - 1]
      BY <3>1, ScaleFacts
    <3>3. Scale[m - 1] > 0 /\ Scale[m - 1] \in Nat
      BY <3>1, ScaleFacts
    <3> QED
      BY <2>1, <3>2, <3>3
  <2> QED
    BY <2>1, <2>2, <2>3
<1>2. n \in Nat /\ n <= LevelMax /\ Scale[n] \in Nat
  BY ScaleFacts DEF GnosisLevels
<1>3. n \notin T
  BY <1>1
<1> QED
  BY <1>2, <1>3

\* each a multiple of those before,
LEMMA ScaleDivides ==
    ASSUME NEW n \in GnosisLevels, NEW m \in 0 .. n
    PROVE  \E k \in Nat : k > 0 /\ Scale[n] = k * Scale[m]
<1> DEFINE Good(j) == \E k \in Nat : k > 0 /\ Scale[m + j] = k * Scale[m]
           T == {j \in Nat : m + j <= LevelMax /\ ~Good(j)}
<1>0. m \in Nat /\ n \in Nat /\ n <= LevelMax /\ LevelMax \in Nat
  BY ScaleFacts DEF GnosisLevels
<1>1. T = {}
  <2> SUFFICES ASSUME T # {} PROVE FALSE
    OBVIOUS
  <2>1. PICK j \in T : \A k \in T : j <= k
    <3>1. T \subseteq Nat
      OBVIOUS
    <3> HIDE DEF T
    <3> QED BY <3>1, Least
  <2>2. CASE j = 0
    <3>1. m + j = m
      BY <1>0, <2>2
    <3>2. Scale[m] \in Nat
      BY <1>0, ScaleFacts
    <3>3. Good(j)
      <4>1. Scale[m + j] = 1 * Scale[m]
        BY <3>1, <3>2
      <4> QED BY <4>1
    <3> QED BY <2>1, <3>3
  <2>3. CASE j > 0
    <3> DEFINE l == m + (j - 1)
    <3>1. j - 1 \in Nat /\ l \in 0 .. LevelMax - 1 /\ l + 1 = m + j
      BY <1>0, <2>1, <2>3
    <3>2. j - 1 \notin T
      BY <2>1, <2>3
    <3>3. PICK k \in Nat : k > 0 /\ Scale[l] = k * Scale[m]
      BY <1>0, <3>1, <3>2
    <3>4. Scale[l + 1] = 2 * Scale[l]
      BY <3>1, ScaleFacts
    <3>5. Scale[m] \in Nat
      BY <1>0, ScaleFacts
    <3>6. Scale[m + j] = (2 * k) * Scale[m] /\ 2 * k \in Nat /\ 2 * k > 0
      BY <3>1, <3>3, <3>4, <3>5
    <3>7. Good(j)
      BY <3>6
    <3> QED BY <2>1, <3>7
  <2> QED
    BY <2>1, <2>2, <2>3
<1>2. n - m \in Nat /\ m + (n - m) = n
  BY <1>0
<1>3. n - m \notin T
  BY <1>1
<1> QED
  BY <1>0, <1>2, <1>3

\* none smaller than those before,
LEMMA ScaleMonotonic ==
    ASSUME NEW n \in GnosisLevels, NEW m \in 0 .. n
    PROVE  Scale[m] <= Scale[n]
<1>1. PICK k \in Nat : k > 0 /\ Scale[n] = k * Scale[m]
  BY ScaleDivides
<1>2. m \in GnosisLevels
  BY ScaleFacts DEF GnosisLevels
<1>3. Scale[m] \in Nat
  BY <1>2, ScalePositive
<1> QED
  BY <1>1, <1>3

\* and symmetric about half the number of levels.
LEMMA ScaleProduct ==
    ASSUME NEW n \in GnosisLevels
    PROVE  Scale[n] * Scale[LevelMax - n] = Scale[LevelMax]
<1> DEFINE T == {k \in Nat : k <= LevelMax /\ Scale[k] * Scale[LevelMax - k] # Scale[LevelMax]}
<1>0. LevelMax \in Nat
  BY ScaleFacts
<1>1. T = {}
  <2> SUFFICES ASSUME T # {} PROVE FALSE
    OBVIOUS
  <2>1. PICK m \in T : \A k \in T : m <= k
    BY Least
  <2>2. CASE m = 0
    <3>1. LevelMax - 0 = LevelMax /\ Scale[LevelMax] \in Nat
      BY <1>0, ScaleFacts
    <3> QED BY <2>1, <2>2, <3>1, ScaleFacts
  <2>3. CASE m > 0
    <3>1. PICK k \in Nat, j \in Nat :
             k = m - 1 /\ k + 1 = m /\ j = LevelMax - m /\ LevelMax - k = j + 1
             /\ k \in 0 .. LevelMax - 1 /\ j \in 0 .. LevelMax - 1
      BY <1>0, <2>1, <2>3
    <3>2. k \notin T
      BY <2>1, <2>3, <3>1
    <3>3. Scale[k] * Scale[j + 1] = Scale[LevelMax]
      BY <1>0, <3>1, <3>2
    <3>4. Scale[m] = 2 * Scale[k] /\ Scale[j + 1] = 2 * Scale[j]
      BY <3>1, ScaleFacts
    <3>5. PICK x \in Nat, y \in Nat : x = Scale[k] /\ y = Scale[j]
      <4>1. k \in GnosisLevels /\ j \in GnosisLevels
        BY <1>0, <3>1 DEF GnosisLevels
      <4> QED BY <4>1, ScalePositive
    <3>6. (2 * x) * y = x * (2 * y)
      BY SMT
    <3>7. Scale[m] * Scale[j] = Scale[LevelMax]
      BY <3>3, <3>4, <3>5, <3>6
    <3> QED
      BY <2>1, <3>1, <3>7
  <2> QED
    BY <2>1, <2>2, <2>3
<1>2. n \in Nat /\ n <= LevelMax
  BY <1>0 DEF GnosisLevels
<1>3. n \notin T
  BY <1>1
<1> QED
  BY <1>2, <1>3

\* The bit length of d is the b with 2^(b - 1) <= d < 2^b, which is found,
LEMMA BitLengthIs ==
    ASSUME NEW n \in GnosisLevels, NEW d \in Nat, NEW b \in 0 .. n,
           d < Scale[b], b > 0 => Scale[b - 1] <= d
    PROVE  Gnosis!BitLength(n, d) = b
<1> DEFINE Is(x) == d < Scale[x] /\ \A k \in 0 .. x - 1 : Scale[k] <= d
<1>0. n \in Nat /\ n <= LevelMax /\ LevelMax \in Nat
  BY ScaleFacts DEF GnosisLevels
<1>1. Is(b)
  <2> SUFFICES ASSUME NEW k \in 0 .. b - 1 PROVE Scale[k] <= d
    OBVIOUS
  <2>1. b - 1 \in GnosisLevels /\ b > 0 /\ k \in GnosisLevels
    BY <1>0 DEF GnosisLevels
  <2>2. Scale[k] <= Scale[b - 1]
    BY <2>1, ScaleMonotonic
  <2>3. Scale[k] \in Nat /\ Scale[b - 1] \in Nat
    BY <2>1, ScalePositive
  <2> QED BY <2>1, <2>2, <2>3
<1>2. ASSUME NEW x \in 0 .. n, Is(x) PROVE x = b
  <2>1. Scale[x] \in Nat /\ Scale[b] \in Nat
    <3>1. x \in GnosisLevels /\ b \in GnosisLevels
      BY <1>0 DEF GnosisLevels
    <3> QED BY <3>1, ScalePositive
  <2>2. ~(x < b)
    <3>1. x < b => Scale[x] <= d
      BY <1>1
    <3> QED BY <1>2, <2>1, <3>1
  <2>3. ~(b < x)
    <3>1. b < x => Scale[b] <= d
      BY <1>2
    <3> QED BY <2>1, <3>1
  <2> QED BY <2>2, <2>3
<1>3. (CHOOSE x \in 0 .. n : Is(x)) = b
  <2> HIDE DEF Is
  <2> QED BY <1>1, <1>2
<1> QED
  BY <1>3 DEF Gnosis!BitLength

\* and which there is for what is below 2^n.
LEMMA BitLengthExists ==
    ASSUME NEW n \in GnosisLevels, NEW d \in Nat, d < Scale[n]
    PROVE  \E b \in 0 .. n : /\ b = Gnosis!BitLength(n, d)
                             /\ d < Scale[b] /\ (b > 0 => Scale[b - 1] <= d)
<1> DEFINE T == {k \in Nat : k <= n /\ d < Scale[k]}
<1>0. n \in Nat /\ n <= LevelMax /\ LevelMax \in Nat
  BY ScaleFacts DEF GnosisLevels
<1>1. n \in T
  BY <1>0
<1>2. PICK b \in T : \A k \in T : b <= k
  <2>1. T \subseteq Nat /\ T # {}
    BY <1>1
  <2> HIDE DEF T
  <2> QED BY <2>1, Least
<1>3. b > 0 => Scale[b - 1] <= d
  <2> SUFFICES ASSUME b > 0 PROVE Scale[b - 1] <= d
    OBVIOUS
  <2>1. b - 1 \in Nat /\ b - 1 <= n /\ b - 1 \notin T
    BY <1>0, <1>2
  <2>2. Scale[b - 1] \in Nat
    BY <1>0, <2>1, ScaleFacts
  <2> QED BY <2>1, <2>2
<1>4. b \in 0 .. n /\ d < Scale[b]
  BY <1>0, <1>2
<1> HIDE DEF T
<1>5. Gnosis!BitLength(n, d) = b
  BY <1>3, <1>4, BitLengthIs
<1> QED
  BY <1>3, <1>4, <1>5

-----------------------------------------------------------------------------
(* GnosisGlobalGrid: sizes and factors *)

GnosisTurn == 4 * Gnosis!Side(0)
GnosisPoints == [north : 0 .. GnosisTurn \div 2, east : 0 .. GnosisTurn]

\* The earth is a whole number of rows and columns at every level.
LEMMA GnosisSizes ==
    ASSUME NEW n \in GnosisLevels
    PROVE  \E s \in Nat, z \in Nat :
              /\ z = Scale[n] /\ z > 0 /\ s = Gnosis!Side(n) /\ s > 0
              /\ Gnosis!Height(n) = 2 * z /\ Gnosis!Width(n) = 4 * z
              /\ GnosisTurn \in Nat /\ (4 * z) * s = GnosisTurn
              /\ (2 * z) * s = GnosisTurn \div 2
<1>0. n \in Nat /\ n <= LevelMax /\ LevelMax \in Nat /\ LevelMax - n \in GnosisLevels
      /\ 0 \in GnosisLevels /\ LevelMax \in GnosisLevels
  BY ScaleFacts DEF GnosisLevels
<1>1. PICK z \in Nat : z = Scale[n] /\ z > 0
  BY ScalePositive
<1>2. PICK y \in Nat : y = Scale[LevelMax - n] /\ y > 0
  BY <1>0, ScalePositive
<1>3. PICK x \in Nat : x = Scale[LevelMax] /\ x > 0
  BY <1>0, ScalePositive
<1>4. z * y = x
  BY <1>1, <1>2, <1>3, ScaleProduct
<1>5. PICK s \in Nat : s = 2 * y /\ s > 0 /\ s = Gnosis!Side(n)
  BY <1>2 DEF Gnosis!Side
<1>6. GnosisTurn = 8 * x
  BY <1>0, <1>3 DEF GnosisTurn, Gnosis!Side
<1>7. (4 * z) * s = 8 * (z * y) /\ (2 * z) * s = 4 * (z * y)
  BY <1>5
<1>8. (8 * x) \div 2 = 4 * x
  OBVIOUS
<1>9. GnosisTurn \in Nat /\ (4 * z) * s = GnosisTurn /\ (2 * z) * s = GnosisTurn \div 2
  BY <1>3, <1>4, <1>6, <1>7, <1>8
<1>10. Gnosis!Height(n) = 2 * z /\ Gnosis!Width(n) = 4 * z
  BY <1>1 DEF Gnosis!Height, Gnosis!Width
<1>11. z = Scale[n] /\ z > 0 /\ s = Gnosis!Side(n) /\ s > 0
  BY <1>1, <1>5
<1> HIDE DEF GnosisTurn
<1> QED
  BY <1>9, <1>10, <1>11

\* The bit length of a row, and its factor.
LEMMA GnosisRow ==
    ASSUME NEW n \in GnosisLevels, NEW row \in 0 .. Gnosis!Height(n) - 1
    PROVE  \E d \in Nat, b \in 0 .. n :
              /\ d = Gnosis!PoleDistance(n, row) /\ d < Scale[b] /\ (b > 0 => Scale[b - 1] <= d)
              /\ n - b \in GnosisLevels
              /\ Gnosis!Factor(n, row) = Scale[n - b]
<1>0. n \in Nat /\ n <= LevelMax /\ LevelMax \in Nat
  BY ScaleFacts DEF GnosisLevels
<1>1. PICK z \in Nat : z = Scale[n] /\ Gnosis!Height(n) = 2 * z
  BY GnosisSizes
<1>2. PICK d \in Nat : d = Gnosis!PoleDistance(n, row) /\ d < Scale[n]
  BY <1>1 DEF Gnosis!PoleDistance
<1>3. PICK b \in 0 .. n : /\ b = Gnosis!BitLength(n, d)
                          /\ d < Scale[b] /\ (b > 0 => Scale[b - 1] <= d)
  BY <1>2, BitLengthExists
<1>4. n - b \in GnosisLevels
  BY <1>0 DEF GnosisLevels
<1>5. b >= n => Scale[n - b] = 1
  <2>1. b >= n => n - b = 0
    BY <1>0
  <2> QED BY <2>1, ScaleFacts
<1>6. Gnosis!Factor(n, row) = Scale[n - b]
  BY <1>0, <1>2, <1>3, <1>5 DEF Gnosis!Factor
<1> QED
  BY <1>2, <1>3, <1>4, <1>6

\* The factor of a row divides the number of columns.
LEMMA GnosisFactor ==
    ASSUME NEW n \in GnosisLevels, NEW row \in 0 .. Gnosis!Height(n) - 1
    PROVE  \E f \in Nat, w \in Nat :
              f = Gnosis!Factor(n, row) /\ f > 0 /\ w = Gnosis!Width(n) /\ Multiple(w, f)
<1>0. n \in Nat /\ n <= LevelMax /\ LevelMax \in Nat
  BY ScaleFacts DEF GnosisLevels
<1>1. PICK b \in 0 .. n : n - b \in GnosisLevels /\ Gnosis!Factor(n, row) = Scale[n - b]
  BY GnosisRow
<1>2. PICK f \in Nat : f = Scale[n - b] /\ f > 0
  BY <1>1, ScalePositive
<1>3. n - b \in 0 .. n
  BY <1>0
<1>4. PICK k \in Nat : Scale[n] = k * f
  BY <1>2, <1>3, ScaleDivides
<1>5. PICK w \in Nat : w = Gnosis!Width(n) /\ w = 4 * (k * f)
  BY <1>4, GnosisSizes
<1>6. w = (4 * k) * f /\ 4 * k \in Nat
  BY <1>5
<1>7. Multiple(w, f)
  BY <1>2, <1>6, OfMultiple
<1> QED
  BY <1>1, <1>2, <1>5, <1>7

\* A row of children is coalesced as its parent or, at a pole, twice as much.
LEMMA GnosisNextFactor ==
    ASSUME NEW n \in GnosisLevels, n < LevelMax, NEW r \in 0 .. Gnosis!Height(n) - 1,
           NEW row \in Nat, row = 2 * r \/ row = 2 * r + 1
    PROVE  /\ n + 1 \in GnosisLevels /\ row \in 0 .. Gnosis!Height(n + 1) - 1
           /\ \/ Gnosis!Factor(n + 1, row) = Gnosis!Factor(n, r)
              \/ Gnosis!Factor(n + 1, row) = 2 * Gnosis!Factor(n, r)
<1>0. n \in Nat /\ n <= LevelMax /\ LevelMax \in Nat /\ n + 1 \in GnosisLevels
  BY ScaleFacts DEF GnosisLevels
<1>1. PICK z \in Nat : z = Scale[n] /\ z > 0 /\ Gnosis!Height(n) = 2 * z
  BY GnosisSizes
<1>2. Gnosis!Height(n + 1) = 4 * z
  <2>1. Scale[n + 1] = 2 * z
    BY <1>0, <1>1, ScaleFacts
  <2> QED BY <2>1 DEF Gnosis!Height
<1>3. row \in 0 .. Gnosis!Height(n + 1) - 1
  BY <1>1, <1>2
<1>4. PICK d \in Nat, b \in 0 .. n :
          /\ d = Gnosis!PoleDistance(n, r) /\ d < Scale[b] /\ (b > 0 => Scale[b - 1] <= d)
          /\ n - b \in GnosisLevels
          /\ Gnosis!Factor(n, r) = Scale[n - b]
  BY GnosisRow
<1>5. PICK e \in Nat, a \in 0 .. n + 1 :
          /\ e = Gnosis!PoleDistance(n + 1, row) /\ e < Scale[a] /\ (a > 0 => Scale[a - 1] <= e)
          /\ (n + 1) - a \in GnosisLevels
          /\ Gnosis!Factor(n + 1, row) = Scale[(n + 1) - a]
  BY <1>0, <1>3, GnosisRow
<1>6. e = 2 * d \/ e = 2 * d + 1
  <2>1. d = IF r < 2 * z - 1 - r THEN r ELSE 2 * z - 1 - r
    BY <1>1, <1>4 DEF Gnosis!PoleDistance
  <2>2. e = IF row < 4 * z - 1 - row THEN row ELSE 4 * z - 1 - row
    BY <1>2, <1>5 DEF Gnosis!PoleDistance
  <2> QED BY <1>1, <2>1, <2>2
<1>7. CASE b > 0
  <2>1. b - 1 \in 0 .. LevelMax - 1 /\ (b - 1) + 1 = b
    BY <1>0, <1>7
  <2>2. PICK x \in Nat : x = Scale[b - 1] /\ Scale[b] = 2 * x
    <3>1. Scale[(b - 1) + 1] = 2 * Scale[b - 1]
      BY <2>1, ScaleFacts
    <3>2. Scale[b - 1] \in Nat
      <4>1. b - 1 \in GnosisLevels
        BY <1>0, <2>1 DEF GnosisLevels
      <4> QED BY <4>1, ScalePositive
    <3> QED BY <2>1, <3>1, <3>2
  <2>3. b \in 0 .. LevelMax - 1 /\ Scale[b + 1] = 2 * Scale[b]
    BY <1>0, ScaleFacts
  <2>4. e < Scale[b + 1] /\ Scale[b] <= e
    BY <1>4, <1>6, <1>7, <2>2, <2>3
  <2>5. a = b + 1
    <3>1. b + 1 \in 0 .. n + 1 /\ (b + 1) - 1 = b
      BY <1>0
    <3>2. Gnosis!BitLength(n + 1, e) = b + 1
      BY <1>0, <2>4, <3>1, BitLengthIs
    <3>3. Gnosis!BitLength(n + 1, e) = a
      BY <1>0, <1>5, BitLengthIs
    <3> QED BY <3>2, <3>3
  <2>6. (n + 1) - a = n - b
    BY <1>0, <2>5
  <2> QED BY <1>0, <1>3, <1>4, <1>5, <2>6
<1>8. CASE b = 0
  <2>1. d = 0 /\ (e = 0 \/ e = 1) /\ n - b = n
    BY <1>0, <1>4, <1>6, <1>8, ScaleFacts
  <2>2. PICK x \in Nat : x = Scale[n] /\ Scale[n + 1] = 2 * x
    BY <1>0, <1>1, ScaleFacts
  <2>3. CASE e = 0
    <3>1. a = 0
      <4>1. Gnosis!BitLength(n + 1, e) = 0
        <5>1. 0 \in 0 .. n + 1
          BY <1>0
        <5> QED BY <1>0, <2>3, <5>1, ScaleFacts, BitLengthIs
      <4>2. Gnosis!BitLength(n + 1, e) = a
        BY <1>0, <1>5, BitLengthIs
      <4> QED BY <4>1, <4>2
    <3>2. (n + 1) - a = n + 1
      BY <1>0, <3>1
    <3> QED BY <1>0, <1>3, <1>4, <1>5, <2>1, <2>2, <3>2
  <2>4. CASE e = 1
    <3>1. a = 1
      <4>1. Gnosis!BitLength(n + 1, e) = 1
        <5>1. 1 \in 0 .. n + 1 /\ 1 - 1 = 0 /\ 0 \in 0 .. LevelMax - 1 /\ 0 + 1 = 1
          BY <1>0
        <5>2. Scale[0] = 1 /\ Scale[0 + 1] = 2 * Scale[0]
          BY <5>1, ScaleFacts
        <5>3. e < Scale[1] /\ Scale[1 - 1] <= e
          BY <2>4, <5>1, <5>2
        <5> QED BY <1>0, <5>1, <5>3, BitLengthIs
      <4>2. Gnosis!BitLength(n + 1, e) = a
        BY <1>0, <1>5, BitLengthIs
      <4> QED BY <4>1, <4>2
    <3>2. (n + 1) - a = n
      BY <1>0, <3>1
    <3> QED BY <1>0, <1>3, <1>4, <1>5, <2>1, <3>2
  <2> QED BY <2>1, <2>3, <2>4
<1> QED
  BY <1>0, <1>7, <1>8

-----------------------------------------------------------------------------
(* GnosisGlobalGrid: owners and children *)

GnosisTiles == {t \in [level : GnosisLevels, row : Nat, col : Nat] : Gnosis!Address(t)}

\* A tile by its numbers.
LEMMA GnosisNumbers ==
    ASSUME NEW t \in GnosisTiles
    PROVE  \E n \in GnosisLevels, r \in Nat, c \in Nat, f \in Nat, s \in Nat, w \in Nat :
              /\ t = [level |-> n, row |-> r, col |-> c]
              /\ n = t.level /\ n \in Nat
              /\ s = Gnosis!Side(n) /\ s > 0 /\ w = Gnosis!Width(n) /\ w * s = GnosisTurn
              /\ r \in 0 .. Gnosis!Height(n) - 1 /\ c \in 0 .. w - 1
              /\ f = Gnosis!Factor(n, r) /\ f > 0 /\ Multiple(c, f) /\ Multiple(w, f)
              /\ c + f <= w
              /\ Gnosis!TileExtent(t) = Box(s, r, c, f)
<1>1. PICK n \in GnosisLevels, r \in Nat, c \in Nat : t = [level |-> n, row |-> r, col |-> c]
  BY DEF GnosisTiles
<1>2. /\ n \in Nat /\ r \in 0 .. Gnosis!Height(n) - 1 /\ c \in 0 .. Gnosis!Width(n) - 1
      /\ Multiple(c, Gnosis!Factor(n, r))
  BY <1>1, ScaleFacts DEF GnosisTiles, Gnosis!Address, GnosisLevels, Multiple
<1>3. PICK f \in Nat, w \in Nat : /\ f = Gnosis!Factor(n, r) /\ f > 0
                                  /\ w = Gnosis!Width(n) /\ Multiple(w, f)
  BY <1>2, GnosisFactor
<1>4. PICK s \in Nat : s = Gnosis!Side(n) /\ s > 0 /\ w * s = GnosisTurn
  BY <1>3, GnosisSizes
<1>5. c + f <= w
  BY <1>2, <1>3, Fits
<1>6. Gnosis!TileExtent(t) = Box(s, r, c, f)
  BY <1>1, <1>3, <1>4 DEF Gnosis!TileExtent, Box
<1> QED
  BY <1>1, <1>2, <1>3, <1>4, <1>5, <1>6

\* Numbers in range and aligned make a tile.
LEMMA IsGnosisTile ==
    ASSUME NEW n \in GnosisLevels, NEW r \in 0 .. Gnosis!Height(n) - 1,
           NEW c \in 0 .. Gnosis!Width(n) - 1, Multiple(c, Gnosis!Factor(n, r))
    PROVE  [level |-> n, row |-> r, col |-> c] \in GnosisTiles
<1>1. r \in Nat /\ c \in Nat
  BY GnosisSizes
<1> QED
  BY <1>1 DEF GnosisTiles, Gnosis!Address, GnosisLevels, Multiple

\* tile_at gives an address whose tile owns the point.
LEMMA GnosisTileAtOwns ==
    ASSUME NEW p \in GnosisPoints, NEW n \in GnosisLevels
    PROVE  /\ Gnosis!TileAt(p, n) \in GnosisTiles /\ Gnosis!TileAt(p, n).level = n
           /\ InBox(Gnosis!TileExtent(Gnosis!TileAt(p, n)), p, GnosisTurn)
<1>1. PICK s \in Nat, z \in Nat :
         /\ z > 0 /\ s = Gnosis!Side(n) /\ s > 0
         /\ Gnosis!Height(n) = 2 * z /\ Gnosis!Width(n) = 4 * z
         /\ GnosisTurn \in Nat /\ (4 * z) * s = GnosisTurn
         /\ (2 * z) * s = GnosisTurn \div 2
  BY GnosisSizes
<1>2. PICK h \in Nat : h = Gnosis!Height(n) /\ h > 0 /\ h * s = GnosisTurn \div 2
  BY <1>1
<1>3. PICK w \in Nat : w = Gnosis!Width(n) /\ w > 0 /\ w * s = GnosisTurn
  BY <1>1
<1>4. PICK y \in Nat : y = p.north /\ y <= h * s
  BY <1>1, <1>2 DEF GnosisPoints
<1>5. PICK x \in Nat : x = p.east /\ x <= w * s
  BY <1>1, <1>3 DEF GnosisPoints
<1>6. PICK up, r : up = (y + s - 1) \div s /\ r = IF up = 0 THEN 0 ELSE up - 1
  OBVIOUS
<1>7. up \in Nat /\ r \in 0 .. h - 1 /\ InRow(s, y, r)
  BY <1>1, <1>2, <1>4, <1>6, RowAt
<1>8. PICK f \in Nat : f = Gnosis!Factor(n, r) /\ f > 0 /\ Multiple(w, f)
  BY <1>2, <1>3, <1>7, GnosisFactor
<1>9. PICK k, c : k = x \div s /\ c = IF k > w - 1 THEN w - 1 ELSE k
  OBVIOUS
<1>10. /\ c \in Nat /\ SnappedTo(c, f) \in 0 .. w - 1 /\ Multiple(SnappedTo(c, f), f)
       /\ InColumn(s, w, f, x, SnappedTo(c, f))
  BY <1>1, <1>3, <1>5, <1>8, <1>9, ColAt
<1>11. PICK col \in 0 .. w - 1 : col = SnappedTo(c, f)
  BY <1>10
<1>12. Gnosis!TileAt(p, n) = [level |-> n, row |-> r, col |-> col]
  <2>1. Gnosis!TileAt(p, n) = Gnosis!Snapped(n, r, c)
    BY <1>1, <1>3, <1>4, <1>5, <1>6, <1>9 DEF Gnosis!TileAt
  <2> QED BY <1>8, <1>11, <2>1 DEF Gnosis!Snapped, SnappedTo
<1>13. Gnosis!TileAt(p, n) \in GnosisTiles
  BY <1>2, <1>3, <1>7, <1>8, <1>10, <1>11, <1>12, IsGnosisTile
<1>14. Gnosis!TileExtent(Gnosis!TileAt(p, n)) = Box(s, r, col, f)
  BY <1>1, <1>8, <1>12 DEF Gnosis!TileExtent, Box
<1>15. InBox(Box(s, r, col, f), p, GnosisTurn)
  <2>1. col \in Nat /\ r \in Nat
    BY <1>2, <1>3, <1>7
  <2> QED BY <1>1, <1>3, <1>4, <1>5, <1>7, <1>10, <1>11, <2>1, BoxRowsColumns
<1> QED
  BY <1>12, <1>13, <1>14, <1>15

\* No other tile of the level does.
LEMMA OneGnosisOwner ==
    ASSUME NEW p \in GnosisPoints, NEW t \in GnosisTiles, NEW u \in GnosisTiles,
           t.level = u.level,
           InBox(Gnosis!TileExtent(t), p, GnosisTurn), InBox(Gnosis!TileExtent(u), p, GnosisTurn)
    PROVE  t = u
<1>1. PICK n \in GnosisLevels, r \in Nat, c \in Nat, f \in Nat, s \in Nat, w \in Nat :
          /\ t = [level |-> n, row |-> r, col |-> c]
          /\ n = t.level
          /\ s = Gnosis!Side(n) /\ s > 0 /\ w = Gnosis!Width(n) /\ w * s = GnosisTurn
          /\ c \in 0 .. w - 1
          /\ f = Gnosis!Factor(n, r) /\ f > 0 /\ Multiple(c, f) /\ Multiple(w, f)
          /\ Gnosis!TileExtent(t) = Box(s, r, c, f)
  BY GnosisNumbers
<1>2. PICK q \in Nat, d \in Nat, g \in Nat :
          /\ u = [level |-> n, row |-> q, col |-> d]
          /\ d \in 0 .. w - 1
          /\ g = Gnosis!Factor(n, q) /\ Multiple(d, g)
          /\ Gnosis!TileExtent(u) = Box(s, q, d, g)
  BY <1>1, GnosisNumbers
<1>4. GnosisTurn \in Nat
  BY <1>1
<1>3. PICK y \in Nat, x \in Nat : y = p.north /\ x = p.east
  BY <1>4 DEF GnosisPoints
<1>5. InBox(Box(s, r, c, f), p, GnosisTurn) /\ InBox(Box(s, q, d, g), p, GnosisTurn)
  BY <1>1, <1>2
<1>6. q = r => g = f
  BY <1>1, <1>2
<1>7. c < w /\ d < w
  BY <1>1, <1>2
<1>8. s > 0 /\ w * s = GnosisTurn /\ f > 0 /\ Multiple(c, f) /\ Multiple(w, f) /\ Multiple(d, g)
  BY <1>1, <1>2
<1>9. q = r /\ c = d
  BY <1>3, <1>4, <1>5, <1>6, <1>7, <1>8, OneBox
<1> QED
  BY <1>1, <1>2, <1>9

\* What a child is, in numbers.
IsGnosisChild(child, n, r, c, f) ==
    \E row \in Nat, col \in Nat, g \in Nat :
       /\ child = [level |-> n + 1, row |-> row, col |-> col]
       /\ row = 2 * r \/ row = 2 * r + 1
       /\ g = Gnosis!Factor(n + 1, row) /\ (g = f \/ g = 2 * f) /\ Multiple(col, g)
       /\ col = 2 * c \/ (col = 2 * c + f /\ g = f)

\* Every child is such.
LEMMA GnosisChild ==
    ASSUME NEW t \in GnosisTiles, t.level < LevelMax, NEW child \in Gnosis!Children(t),
           NEW n \in GnosisLevels, NEW r \in Nat, NEW c \in Nat, NEW f \in Nat, f > 0,
           t = [level |-> n, row |-> r, col |-> c], f = Gnosis!Factor(n, r),
           r \in 0 .. Gnosis!Height(n) - 1, Multiple(c, f)
    PROVE  IsGnosisChild(child, n, r, c, f)
<1>0. n \in Nat /\ LevelMax \in Nat /\ n < LevelMax
  BY ScaleFacts DEF GnosisLevels
<1>1. PICK row \in Nat, col \in Nat :
          /\ child = [level |-> n + 1, row |-> row, col |-> col]
          /\ row = 2 * r \/ row = 2 * r + 1
          /\ col \in 2 * c .. 2 * c + 2 * f - 1
          /\ (col - 2 * c) % Gnosis!Factor(n + 1, row) = 0
  BY DEF Gnosis!Children
<1>2. PICK g \in Nat : g = Gnosis!Factor(n + 1, row) /\ (g = f \/ g = 2 * f)
  BY <1>0, <1>1, GnosisNextFactor
<1>3. PICK j \in Nat : j = col - 2 * c /\ Multiple(j, g) /\ j < 2 * f
  BY <1>1, <1>2 DEF Multiple
<1>4. j = 0 \/ (j = f /\ g = f)
  <2>1. Multiple(0, g)
    <3>1. 0 = 0 * g /\ g > 0
      BY <1>2
    <3> QED BY <3>1, OfMultiple
  <2>2. j > 0 => g <= j
    <3>1. 0 < j => 0 + g <= j
      BY <1>2, <1>3, <2>1, Fits
    <3> QED BY <3>1
  <2>3. CASE g = 2 * f
    BY <1>3, <2>2, <2>3
  <2>4. CASE g = f
    <3>1. Multiple(f, f)
      <4>1. f = 1 * f
        OBVIOUS
      <4> QED BY <4>1, OfMultiple
    <3>2. j > 0 => j = f
      BY <1>3, <2>2, <2>4, <3>1, Close
    <3> QED BY <1>3, <2>4, <3>2
  <2> QED BY <1>2, <2>3, <2>4
<1>5. Multiple(col, g)
  <2>1. CASE g = f
    <3>1. col = 2 * c \/ col = 2 * c + f
      BY <1>3, <1>4
    <3> QED BY <2>1, <3>1, MultiplesAdd
  <2>2. CASE g = 2 * f
    <3>1. PICK q \in Nat : c = q * f
      BY MultipleOf
    <3>2. col = q * g /\ g > 0
      BY <1>2, <1>3, <1>4, <2>2, <3>1
    <3> QED BY <3>2, OfMultiple
  <2> QED BY <1>2, <2>1, <2>2
<1>6. col = 2 * c \/ (col = 2 * c + f /\ g = f)
  BY <1>3, <1>4
<1> QED
  BY <1>1, <1>2, <1>5, <1>6 DEF IsGnosisChild

\* The children of a tile are tiles of the next level, within it, whose parent it is,
\* three of them where a row is coalesced twice as much.
LEMMA GnosisChildrenOfTile ==
    ASSUME NEW t \in GnosisTiles, t.level < LevelMax, NEW child \in Gnosis!Children(t)
    PROVE  /\ child \in GnosisTiles /\ child.level = t.level + 1
           /\ Gnosis!Parent(child) = t
           /\ Within(Gnosis!TileExtent(t), Gnosis!TileExtent(child))
<1>1. PICK n \in GnosisLevels, r \in Nat, c \in Nat, f \in Nat, s \in Nat, w \in Nat :
          /\ t = [level |-> n, row |-> r, col |-> c]
          /\ n = t.level /\ n \in Nat
          /\ s = Gnosis!Side(n) /\ s > 0 /\ w = Gnosis!Width(n) /\ w * s = GnosisTurn
          /\ r \in 0 .. Gnosis!Height(n) - 1 /\ c \in 0 .. w - 1
          /\ f = Gnosis!Factor(n, r) /\ f > 0 /\ Multiple(c, f) /\ Multiple(w, f) /\ c + f <= w
          /\ Gnosis!TileExtent(t) = Box(s, r, c, f)
  BY GnosisNumbers
<1>2. PICK row \in Nat, col \in Nat, g \in Nat :
          /\ child = [level |-> n + 1, row |-> row, col |-> col]
          /\ row = 2 * r \/ row = 2 * r + 1
          /\ g = Gnosis!Factor(n + 1, row) /\ (g = f \/ g = 2 * f) /\ Multiple(col, g)
          /\ col = 2 * c \/ (col = 2 * c + f /\ g = f)
  <2>1. IsGnosisChild(child, n, r, c, f)
    BY <1>1, GnosisChild
  <2> QED BY <2>1 DEF IsGnosisChild
<1>3. n + 1 \in GnosisLevels /\ row \in 0 .. Gnosis!Height(n + 1) - 1 /\ n < LevelMax
  BY <1>1, <1>2, GnosisNextFactor
<1>4. Gnosis!Width(n + 1) = 2 * w /\ s = 2 * Gnosis!Side(n + 1) /\ Gnosis!Side(n + 1) \in Nat
  <2>0. n \in 0 .. LevelMax - 1 /\ LevelMax - n = (LevelMax - (n + 1)) + 1
        /\ LevelMax - (n + 1) \in 0 .. LevelMax - 1 /\ LevelMax - (n + 1) \in GnosisLevels
    BY <1>1, <1>3, ScaleFacts DEF GnosisLevels
  <2>1. Scale[n + 1] = 2 * Scale[n]
    BY <2>0, ScaleFacts
  <2>2. Scale[LevelMax - n] = 2 * Scale[LevelMax - (n + 1)]
    BY <2>0, ScaleFacts
  <2>3. Scale[n] \in Nat /\ Scale[LevelMax - (n + 1)] \in Nat
    BY <1>1, <2>0, ScalePositive
  <2> QED BY <1>1, <2>1, <2>2, <2>3 DEF Gnosis!Width, Gnosis!Side
<1>5. PICK k \in Nat : k = Gnosis!Side(n + 1) /\ s = 2 * k
  BY <1>4
<1>6. child \in GnosisTiles
  <2>1. col \in 0 .. Gnosis!Width(n + 1) - 1
    BY <1>1, <1>2, <1>4
  <2> QED BY <1>2, <1>3, <2>1, IsGnosisTile
<1>7. Gnosis!Parent(child) = t
  <2>1. row \div 2 = r
    BY <1>2
  <2>2. PICK h \in Nat : h = col \div 2
    BY <1>2
  <2>3. SnappedTo(h, f) = c
    BY <1>1, <1>2, <2>2, Halved
  <2>4. Gnosis!Parent(child) = Gnosis!Snapped(n, r, h)
    <3>1. child.level = n + 1 /\ child.row = row /\ child.col = col /\ (n + 1) - 1 = n
      BY <1>1, <1>2
    <3> QED BY <2>1, <2>2, <3>1 DEF Gnosis!Parent
  <2> QED BY <1>1, <2>3, <2>4 DEF Gnosis!Snapped, SnappedTo
<1>8. Within(Gnosis!TileExtent(t), Gnosis!TileExtent(child))
  <2>1. Gnosis!TileExtent(child) = Box(k, row, col, g)
    BY <1>2, <1>5 DEF Gnosis!TileExtent, Box
  <2>2. 2 * c <= col /\ col + g <= 2 * (c + f)
    BY <1>2
  <2>3. Within(Box(2 * k, r, c, f), Box(k, row, col, g))
    BY <1>2, <2>2, QuarterWithin
  <2> QED BY <1>1, <1>5, <2>1, <2>3
<1> QED
  BY <1>1, <1>2, <1>6, <1>7, <1>8

-----------------------------------------------------------------------------
(* GnosisGlobalGrid: parents *)

\* No two children of a tile overlap.
LEMMA GnosisChildrenApart ==
    ASSUME NEW t \in GnosisTiles, t.level < LevelMax,
           NEW a \in Gnosis!Children(t), NEW b \in Gnosis!Children(t), a # b
    PROVE  Apart(Gnosis!TileExtent(a), Gnosis!TileExtent(b))
<1>1. PICK n \in GnosisLevels, r \in Nat, c \in Nat, f \in Nat :
          /\ t = [level |-> n, row |-> r, col |-> c]
          /\ n = t.level /\ n \in Nat
          /\ r \in 0 .. Gnosis!Height(n) - 1
          /\ f = Gnosis!Factor(n, r) /\ f > 0 /\ Multiple(c, f)
  BY GnosisNumbers
<1>2. IsGnosisChild(a, n, r, c, f) /\ IsGnosisChild(b, n, r, c, f)
  BY <1>1, GnosisChild
<1>3. PICK p \in Nat, d \in Nat, g \in Nat :
          /\ a = [level |-> n + 1, row |-> p, col |-> d]
          /\ p = 2 * r \/ p = 2 * r + 1
          /\ g = Gnosis!Factor(n + 1, p)
          /\ d = 2 * c \/ (d = 2 * c + f /\ g = f)
  BY <1>2 DEF IsGnosisChild
<1>4. PICK q \in Nat, e \in Nat, h \in Nat :
          /\ b = [level |-> n + 1, row |-> q, col |-> e]
          /\ q = 2 * r \/ q = 2 * r + 1
          /\ h = Gnosis!Factor(n + 1, q)
          /\ e = 2 * c \/ (e = 2 * c + f /\ h = f)
  BY <1>2 DEF IsGnosisChild
<1>5. PICK s \in Nat : s = Gnosis!Side(n + 1)
  <2>1. n + 1 \in GnosisLevels
    BY <1>1, ScaleFacts DEF GnosisLevels
  <2> QED BY <2>1, GnosisSizes
<1>6. Gnosis!TileExtent(a) = Box(s, p, d, g) /\ Gnosis!TileExtent(b) = Box(s, q, e, h)
  BY <1>3, <1>4, <1>5 DEF Gnosis!TileExtent, Box
<1>7. p = q => g = h
  BY <1>3, <1>4
<1>8. ~(p = q /\ d = e)
  BY <1>3, <1>4
<1>9. p + 1 <= q \/ q + 1 <= p \/ d + g <= e \/ e + h <= d
  BY <1>3, <1>4, <1>7, <1>8
<1>10. Apart(Box(s, p, d, g), Box(s, q, e, h))
  BY <1>9, BoxesApart
<1> QED
  BY <1>6, <1>10

\* A tile is a child of its parent, a tile of the level before.
LEMMA GnosisParentOfTile ==
    ASSUME NEW t \in GnosisTiles, t.level > 0
    PROVE  /\ Gnosis!Parent(t) \in GnosisTiles /\ Gnosis!Parent(t).level = t.level - 1
           /\ t \in Gnosis!Children(Gnosis!Parent(t))
<1>1. PICK n \in GnosisLevels, r \in Nat, c \in Nat, g \in Nat, w \in Nat :
          /\ t = [level |-> n, row |-> r, col |-> c]
          /\ n = t.level /\ n \in Nat
          /\ w = Gnosis!Width(n)
          /\ r \in 0 .. Gnosis!Height(n) - 1 /\ c \in 0 .. w - 1
          /\ g = Gnosis!Factor(n, r) /\ g > 0 /\ Multiple(c, g)
  BY GnosisNumbers
<1>2. PICK l \in GnosisLevels : l = n - 1 /\ l + 1 = n /\ l < LevelMax /\ l \in Nat
  BY <1>1, ScaleFacts DEF GnosisLevels
<1>3. PICK q \in Nat : q = r \div 2 /\ (r = 2 * q \/ r = 2 * q + 1)
  OBVIOUS
<1>4. Gnosis!Height(n) = 2 * Gnosis!Height(l) /\ w = 2 * Gnosis!Width(l)
      /\ Gnosis!Height(l) \in Nat /\ Gnosis!Width(l) \in Nat
  <2>1. Scale[l + 1] = 2 * Scale[l]
    BY <1>2, ScaleFacts DEF GnosisLevels
  <2>2. Scale[l] \in Nat
    BY ScalePositive
  <2> QED BY <1>1, <1>2, <2>1, <2>2 DEF Gnosis!Height, Gnosis!Width
<1>5. q \in 0 .. Gnosis!Height(l) - 1
  BY <1>1, <1>3, <1>4
<1>6. PICK f \in Nat : f = Gnosis!Factor(l, q) /\ f > 0
  BY <1>5, GnosisFactor
<1>7. g = f \/ g = 2 * f
  BY <1>1, <1>2, <1>3, <1>5, <1>6, GnosisNextFactor
<1>8. Multiple(c, f)
  <2>1. CASE g = f
    BY <1>1, <2>1
  <2>2. CASE g = 2 * f
    <3>1. PICK k \in Nat : c = k * g
      BY <1>1, MultipleOf
    <3>2. c = (2 * k) * f /\ 2 * k \in Nat
      BY <2>2, <3>1
    <3> QED BY <1>6, <3>2, OfMultiple
  <2> QED BY <1>7, <2>1, <2>2
<1>9. PICK h \in Nat : h = c \div 2 /\ 2 * h <= c
  OBVIOUS
<1>10. PICK d \in Nat : d = SnappedTo(h, f) /\ Multiple(d, f) /\ d <= h
  BY <1>6, <1>9, SnapBounds
<1>11. c = 2 * d \/ c = 2 * d + f
  BY <1>6, <1>8, <1>9, <1>10, SnapColumn
<1>12. d \in 0 .. Gnosis!Width(l) - 1
  BY <1>1, <1>4, <1>9, <1>10
<1>13. Gnosis!Parent(t) = [level |-> l, row |-> q, col |-> d]
  <2>1. Gnosis!Parent(t) = Gnosis!Snapped(l, q, h)
    BY <1>1, <1>2, <1>3, <1>9 DEF Gnosis!Parent
  <2> QED BY <1>6, <1>10, <2>1 DEF Gnosis!Snapped, SnappedTo
<1>14. Gnosis!Parent(t) \in GnosisTiles
  BY <1>5, <1>6, <1>10, <1>12, <1>13, IsGnosisTile
<1>15. c \in 2 * d .. 2 * d + 2 * f - 1 /\ (c - 2 * d) % g = 0
  <2>1. PICK j \in Nat : j = c - 2 * d /\ (j = 0 \/ j = f)
    BY <1>11
  <2>2. CASE j = 0
    <3>1. Multiple(j, g)
      <4>1. j = 0 * g
        BY <2>2
      <4> QED BY <1>1, <4>1, OfMultiple
    <3> QED BY <1>6, <2>1, <2>2, <3>1 DEF Multiple
  <2>3. CASE j = f
    <3>1. g = f
      <4>1. SUFFICES ASSUME g = 2 * f PROVE FALSE
        BY <1>7
      <4>2. PICK k \in Nat : c = k * g
        BY <1>1, MultipleOf
      <4>3. PICK i \in Nat : d = i * f
        BY <1>6, <1>10, MultipleOf
      <4>4. (2 * k) * f = (2 * i + 1) * f
        BY <2>1, <2>3, <4>1, <4>2, <4>3
      <4>5. 2 * k = 2 * i + 1
        BY <1>6, <4>4
      <4> QED BY <4>5
    <3>2. Multiple(j, g)
      <4>1. j = 1 * g
        BY <2>3, <3>1
      <4> QED BY <1>1, <4>1, OfMultiple
    <3> QED BY <1>6, <2>1, <2>3, <3>2 DEF Multiple
  <2> QED BY <2>1, <2>2, <2>3
<1>16. t \in Gnosis!Children(Gnosis!Parent(t))
  <2> DEFINE u == Gnosis!Parent(t)
  <2>1. u.level = l /\ u.row = q /\ u.col = d
    BY <1>13
  <2> HIDE DEF u
  <2>2. t \in [level : {l + 1}, row : {r},
               col : {k \in 2 * d .. 2 * d + 2 * f - 1 : (k - 2 * d) % Gnosis!Factor(l + 1, r) = 0}]
    BY <1>1, <1>2, <1>15
  <2>3. r \in {2 * q, 2 * q + 1}
    BY <1>3
  <2>4. t \in Gnosis!Children(u)
    BY <1>6, <2>1, <2>2, <2>3 DEF Gnosis!Children
  <2> QED BY <2>4 DEF u
<1> QED
  BY <1>1, <1>2, <1>13, <1>14, <1>16

\* The box of a tile, as such.
LEMMA GnosisBox ==
    ASSUME NEW t \in GnosisTiles
    PROVE  /\ Gnosis!TileExtent(t) \in Boxes /\ Gnosis!TileExtent(t).east <= GnosisTurn
           /\ GnosisTurn \in Nat
<1>1. PICK r \in Nat, c \in Nat, f \in Nat, s \in Nat, w \in Nat :
          w * s = GnosisTurn /\ c + f <= w /\ Gnosis!TileExtent(t) = Box(s, r, c, f)
  BY GnosisNumbers
<1>2. Box(s, r, c, f) \in Boxes /\ Box(s, r, c, f).east <= w * s
  BY <1>1, BoxIs
<1>3. w * s \in Nat
  OBVIOUS
<1> QED
  BY <1>1, <1>2, <1>3

\* What a tile owns its parent owns.
LEMMA GnosisParentOwns ==
    ASSUME NEW t \in GnosisTiles, t.level > 0, NEW p \in GnosisPoints,
           InBox(Gnosis!TileExtent(t), p, GnosisTurn)
    PROVE  InBox(Gnosis!TileExtent(Gnosis!Parent(t)), p, GnosisTurn)
<1>1. PICK u \in GnosisTiles :
          u = Gnosis!Parent(t) /\ u.level < LevelMax /\ t \in Gnosis!Children(u)
  BY GnosisParentOfTile, ScaleFacts DEF GnosisTiles, GnosisLevels
<1>2. Within(Gnosis!TileExtent(u), Gnosis!TileExtent(t))
  BY <1>1, GnosisChildrenOfTile
<1>3. /\ Gnosis!TileExtent(u) \in Boxes /\ Gnosis!TileExtent(u).east <= GnosisTurn
      /\ Gnosis!TileExtent(t) \in Boxes /\ GnosisTurn \in Nat
  BY GnosisBox
<1>4. p \in [north : Nat, east : Nat]
  <2>1. GnosisTurn \div 2 \in Nat
    BY <1>3
  <2> QED BY <1>3, <2>1 DEF GnosisPoints
<1>5. InBox(Gnosis!TileExtent(u), p, GnosisTurn)
  BY <1>2, <1>3, <1>4, WithinInBox
<1> QED
  BY <1>1, <1>5

\* One child, and no more, owns what the tile owns.
LEMMA GnosisChildOwns ==
    ASSUME NEW t \in GnosisTiles, t.level < LevelMax, NEW p \in GnosisPoints,
           InBox(Gnosis!TileExtent(t), p, GnosisTurn)
    PROVE  \E child \in Gnosis!Children(t) : \A other \in Gnosis!Children(t) :
              InBox(Gnosis!TileExtent(other), p, GnosisTurn) <=> other = child
<1>1. PICK l \in GnosisLevels : l = t.level + 1 /\ l - 1 = t.level /\ l > 0
  <2>1. t.level \in GnosisLevels
    BY DEF GnosisTiles
  <2> QED BY <2>1, ScaleFacts DEF GnosisLevels
<1>2. PICK child \in GnosisTiles :
         child.level = l /\ InBox(Gnosis!TileExtent(child), p, GnosisTurn)
  BY GnosisTileAtOwns
<1>3. /\ Gnosis!Parent(child) \in GnosisTiles /\ Gnosis!Parent(child).level = t.level
      /\ child \in Gnosis!Children(Gnosis!Parent(child))
  BY <1>1, <1>2, GnosisParentOfTile
<1>4. InBox(Gnosis!TileExtent(Gnosis!Parent(child)), p, GnosisTurn)
  BY <1>1, <1>2, GnosisParentOwns
<1>5. Gnosis!Parent(child) = t
  BY <1>3, <1>4, OneGnosisOwner
<1>6. ASSUME NEW other \in Gnosis!Children(t), InBox(Gnosis!TileExtent(other), p, GnosisTurn)
      PROVE  other = child
  <2>1. other \in GnosisTiles /\ other.level = l
    BY <1>1, GnosisChildrenOfTile
  <2> QED BY <1>2, <1>6, <2>1, OneGnosisOwner
<1> QED
  BY <1>2, <1>3, <1>5, <1>6

-----------------------------------------------------------------------------
(* The walk *)

Tiles == IF grid = "cdb1" THEN Cdb1Tiles ELSE GnosisTiles
Points == IF grid = "cdb1" THEN Cdb1Points ELSE GnosisPoints

\* The inductive invariant.
WalkInv == grid \in Grid /\ point \in Points /\ tile \in Tiles /\ Owns(tile, point)

\* The circumference by grid,
LEMMA Turns == Turn["cdb1"] = Cdb1Turn /\ Turn["gnosis"] = GnosisTurn
BY DEF Turn, ByGrid, Grid, Cdb1Turn, GnosisTurn

\* and the points asked for, on the earth.
LEMMA PointsAsked ==
    ASSUME NEW g \in Grid
    PROVE  /\ g = "cdb1" => [north : Norths[g], east : Easts[g]] \subseteq Cdb1Points
           /\ g = "gnosis" => [north : Norths[g], east : Easts[g]] \subseteq GnosisPoints
<1>1. Norths[g] \subseteq 0 .. Turn[g] \div 2 /\ Easts[g] \subseteq 0 .. Turn[g]
  BY PointAssumption
<1>2. CASE g = "cdb1"
  <2>1. Degree \in Nat
    <3>1. 0 \in Levels
      BY LodAssumption DEF Levels
    <3> QED BY <3>1, Sizes
  <2>2. (360 * Degree) \div 2 = 180 * Degree
    BY <2>1
  <2>3. Norths[g] \subseteq 0 .. 180 * Degree /\ Easts[g] \subseteq 0 .. Cdb1Turn
    BY <1>1, <1>2, <2>2, Turns DEF Cdb1Turn
  <2> QED BY <1>2, <2>3 DEF Cdb1Points
<1>3. CASE g = "gnosis"
  <2>1. Norths[g] \subseteq 0 .. GnosisTurn \div 2 /\ Easts[g] \subseteq 0 .. GnosisTurn
    BY <1>1, <1>3, Turns
  <2> QED BY <1>3, <2>1 DEF GnosisPoints
<1> QED
  BY <1>2, <1>3 DEF Grid

\* Owning a point is having it in one's box.
LEMMA OwnsIsInBox ==
    ASSUME NEW t, NEW p
    PROVE  /\ grid = "cdb1" => (Owns(t, p) <=> InBox(TileExtent(t), p, Cdb1Turn))
           /\ grid = "gnosis" => (Owns(t, p) <=> InBox(Gnosis!TileExtent(t), p, GnosisTurn))
<1>1. CASE grid = "cdb1"
  <2>1. ExtentOf(grid, t) = TileExtent(t) /\ Turn[grid] = Cdb1Turn
    BY <1>1, Turns DEF ExtentOf
  <2> QED BY <1>1, <2>1 DEF Owns, InBox
<1>2. CASE grid = "gnosis"
  <2>1. ExtentOf(grid, t) = Gnosis!TileExtent(t) /\ Turn[grid] = GnosisTurn
    BY <1>2, Turns DEF ExtentOf
  <2> QED BY <1>2, <2>1 DEF Owns, InBox
<1> QED
  BY <1>1, <1>2

\* The walk begins with the tile that tile_at gives,
LEMMA WalkInit == Init => WalkInv
<1> SUFFICES ASSUME Init PROVE WalkInv
  OBVIOUS
<1>1. grid \in Grid /\ point \in [north : Norths[grid], east : Easts[grid]]
      /\ tile = TileAtPoint(grid, point, Coarsest[grid])
  BY DEF Init
<1>2. CASE grid = "cdb1"
  <2>1. point \in Cdb1Points
    BY <1>1, <1>2, PointsAsked
  <2>2. tile = TileAt(point, LodMin) /\ LodMin \in Levels
    BY <1>1, <1>2, LodAssumption DEF TileAtPoint, Coarsest, ByGrid, Levels
  <2>3. tile \in Cdb1Tiles /\ InBox(TileExtent(tile), point, Cdb1Turn)
    BY <2>1, <2>2, TileAtOwns
  <2> QED BY <1>1, <1>2, <2>1, <2>3, OwnsIsInBox DEF WalkInv, Tiles, Points
<1>3. CASE grid = "gnosis"
  <2>1. point \in GnosisPoints
    BY <1>1, <1>3, PointsAsked
  <2>2. tile = Gnosis!TileAt(point, 0) /\ 0 \in GnosisLevels
    BY <1>1, <1>3, ScaleFacts DEF TileAtPoint, Coarsest, ByGrid, GnosisLevels
  <2>3. tile \in GnosisTiles /\ InBox(Gnosis!TileExtent(tile), point, GnosisTurn)
    BY <2>1, <2>2, GnosisTileAtOwns
  <2> QED BY <1>1, <1>3, <2>1, <2>3, OwnsIsInBox DEF WalkInv, Tiles, Points
<1> QED
  BY <1>1, <1>2, <1>3 DEF Grid

\* stays between the coarsest level and the finest,
LEMMA Levelled ==
    ASSUME WalkInv
    PROVE  /\ grid = "cdb1" => Coarsest[grid] = LodMin /\ Finest[grid] = LodMax
           /\ grid = "gnosis" => Coarsest[grid] = 0 /\ Finest[grid] = LevelMax
BY DEF WalkInv, Coarsest, Finest, ByGrid

\* and keeps owning the point, up to the parent and down to the child.
LEMMA WalkNext == WalkInv /\ [Next]_vars => WalkInv'
<1> SUFFICES ASSUME WalkInv, [Next]_vars PROVE WalkInv'
  OBVIOUS
<1>1. grid \in Grid /\ point \in Points /\ tile \in Tiles /\ Owns(tile, point)
  BY DEF WalkInv
<1>2. grid' = grid /\ point' = point
  BY DEF Next, Descend, Ascend, vars
<1>3. tile' \in Tiles /\ Owns(tile', point)
  <2>1. CASE Descend
    <3>1. PICK child \in ChildrenOf(grid, tile) : Owns(child, point) /\ tile' = child
      BY <2>1 DEF Descend
    <3>2. tile.level < Finest[grid]
      BY <2>1 DEF Descend
    <3>3. CASE grid = "cdb1"
      <4>1. tile' \in Cdb1Tiles
        BY <1>1, <3>1, <3>2, <3>3, Levelled, ChildrenOfTile DEF ChildrenOf, Tiles
      <4> QED BY <3>1, <3>3, <4>1 DEF Tiles
    <3>4. CASE grid = "gnosis"
      <4>1. tile' \in GnosisTiles
        BY <1>1, <3>1, <3>2, <3>4, Levelled, GnosisChildrenOfTile DEF ChildrenOf, Tiles
      <4> QED BY <3>1, <3>4, <4>1 DEF Tiles
    <3> QED BY <1>1, <3>3, <3>4 DEF Grid
  <2>2. CASE Ascend
    <3>1. tile.level > Coarsest[grid] /\ tile' = ParentOf(grid, tile)
      BY <2>2 DEF Ascend
    <3>2. CASE grid = "cdb1"
      <4>1. tile \in Cdb1Tiles /\ point \in Cdb1Points /\ tile.level > LodMin
            /\ tile' = Parent(tile) /\ InBox(TileExtent(tile), point, Cdb1Turn)
        BY <1>1, <3>1, <3>2, Levelled, OwnsIsInBox DEF ParentOf, Tiles, Points
      <4>2. Parent(tile) \in Cdb1Tiles /\ InBox(TileExtent(Parent(tile)), point, Cdb1Turn)
        BY <4>1, ParentOfTile, ParentOwns
      <4> QED BY <3>2, <4>1, <4>2, OwnsIsInBox DEF Tiles
    <3>3. CASE grid = "gnosis"
      <4>1. tile \in GnosisTiles /\ point \in GnosisPoints /\ tile.level > 0
            /\ tile' = Gnosis!Parent(tile) /\ InBox(Gnosis!TileExtent(tile), point, GnosisTurn)
        BY <1>1, <3>1, <3>3, Levelled, OwnsIsInBox DEF ParentOf, Tiles, Points
      <4>2. Gnosis!Parent(tile) \in GnosisTiles
            /\ InBox(Gnosis!TileExtent(Gnosis!Parent(tile)), point, GnosisTurn)
        BY <4>1, GnosisParentOfTile, GnosisParentOwns
      <4> QED BY <3>3, <4>1, <4>2, OwnsIsInBox DEF Tiles
    <3> QED BY <1>1, <3>2, <3>3 DEF Grid
  <2>3. CASE UNCHANGED vars
    BY <1>1, <2>3 DEF vars
  <2> QED BY <2>1, <2>2, <2>3 DEF Next
<1> QED
  BY <1>1, <1>2, <1>3 DEF WalkInv, Tiles, Points, Owns

-----------------------------------------------------------------------------
(* What the walk shows *)

\* The owner at its level is the tile that tile_at gives there.
LEMMA InvAgrees == WalkInv => WalkAgrees
<1> SUFFICES ASSUME WalkInv PROVE WalkAgrees
  OBVIOUS
<1>1. grid \in Grid /\ point \in Points /\ tile \in Tiles /\ Owns(tile, point)
  BY DEF WalkInv
<1>2. CASE grid = "cdb1"
  <2>1. point \in Cdb1Points /\ tile \in Cdb1Tiles /\ InBox(TileExtent(tile), point, Cdb1Turn)
    BY <1>1, <1>2, OwnsIsInBox DEF Points, Tiles
  <2>2. tile.level \in Levels
    BY <2>1 DEF Cdb1Tiles
  <2>3. PICK u \in Cdb1Tiles : /\ u = TileAt(point, tile.level) /\ u.level = tile.level
                               /\ InBox(TileExtent(u), point, Cdb1Turn)
    BY <2>1, <2>2, TileAtOwns
  <2>4. tile = u
    BY <2>1, <2>3, OneOwner
  <2> QED BY <1>1, <1>2, <2>3, <2>4 DEF WalkAgrees, TileAtPoint
<1>3. CASE grid = "gnosis"
  <2>1. point \in GnosisPoints /\ tile \in GnosisTiles
        /\ InBox(Gnosis!TileExtent(tile), point, GnosisTurn)
    BY <1>1, <1>3, OwnsIsInBox DEF Points, Tiles
  <2>2. tile.level \in GnosisLevels
    BY <2>1 DEF GnosisTiles
  <2>3. PICK u \in GnosisTiles : /\ u = Gnosis!TileAt(point, tile.level) /\ u.level = tile.level
                                 /\ InBox(Gnosis!TileExtent(u), point, GnosisTurn)
    BY <2>1, <2>2, GnosisTileAtOwns
  <2>4. tile = u
    BY <2>1, <2>3, OneGnosisOwner
  <2> QED BY <1>1, <1>3, <2>3, <2>4 DEF WalkAgrees, TileAtPoint
<1> QED
  BY <1>1, <1>2, <1>3 DEF Grid

\* The children of a tile partition it.
LEMMA InvPartition == WalkInv => ChildrenPartition
<1> SUFFICES ASSUME WalkInv, tile.level < Finest[grid] PROVE ChildrenPartition
  BY DEF ChildrenPartition
<1>1. grid \in Grid /\ point \in Points /\ tile \in Tiles /\ Owns(tile, point)
  BY DEF WalkInv
<1>2. CASE grid = "cdb1"
  <2>1. /\ point \in Cdb1Points /\ tile \in Cdb1Tiles /\ InBox(TileExtent(tile), point, Cdb1Turn)
        /\ tile.level < LodMax /\ ChildrenOf(grid, tile) = Children(tile)
    BY <1>1, <1>2, Levelled, OwnsIsInBox DEF Points, Tiles, ChildrenOf
  <2>2. \A t : ExtentOf(grid, t) = TileExtent(t) /\ ParentOf(grid, t) = Parent(t)
               /\ (Accepted(grid, t) <=> Address(t))
    BY <1>2 DEF ExtentOf, ParentOf, Accepted
  <2>3. ASSUME NEW child \in Children(tile)
        PROVE  /\ Accepted(grid, child) /\ ParentOf(grid, child) = tile
               /\ Within(ExtentOf(grid, tile), ExtentOf(grid, child))
    <3>1. /\ child \in Cdb1Tiles /\ Parent(child) = tile
          /\ Within(TileExtent(tile), TileExtent(child))
      BY <2>1, ChildrenOfTile
    <3> QED BY <2>2, <3>1 DEF Cdb1Tiles
  <2>4. ASSUME NEW a \in Children(tile), NEW b \in Children(tile), a # b
        PROVE  Apart(ExtentOf(grid, a), ExtentOf(grid, b))
    BY <2>1, <2>2, <2>4, ChildrenApart
  <2>5. \E child \in Children(tile) : \A other \in Children(tile) :
           InBox(TileExtent(other), point, Cdb1Turn) <=> other = child
    BY <2>1, ChildOwns
  <2>6. \E child \in Children(tile) : \A other \in Children(tile) :
           Owns(other, point) <=> other = child
    BY <1>2, <2>5, OwnsIsInBox
  <2> QED BY <2>1, <2>3, <2>4, <2>6 DEF ChildrenPartition, Within
<1>3. CASE grid = "gnosis"
  <2>1. /\ point \in GnosisPoints /\ tile \in GnosisTiles
        /\ InBox(Gnosis!TileExtent(tile), point, GnosisTurn)
        /\ tile.level < LevelMax /\ ChildrenOf(grid, tile) = Gnosis!Children(tile)
    BY <1>1, <1>3, Levelled, OwnsIsInBox DEF Points, Tiles, ChildrenOf
  <2>2. \A t : ExtentOf(grid, t) = Gnosis!TileExtent(t) /\ ParentOf(grid, t) = Gnosis!Parent(t)
               /\ (Accepted(grid, t) <=> Gnosis!Address(t))
    BY <1>3 DEF ExtentOf, ParentOf, Accepted
  <2>3. ASSUME NEW child \in Gnosis!Children(tile)
        PROVE  /\ Accepted(grid, child) /\ ParentOf(grid, child) = tile
               /\ Within(ExtentOf(grid, tile), ExtentOf(grid, child))
    <3>1. /\ child \in GnosisTiles /\ Gnosis!Parent(child) = tile
          /\ Within(Gnosis!TileExtent(tile), Gnosis!TileExtent(child))
      BY <2>1, GnosisChildrenOfTile
    <3> QED BY <2>2, <3>1 DEF GnosisTiles
  <2>4. ASSUME NEW a \in Gnosis!Children(tile), NEW b \in Gnosis!Children(tile), a # b
        PROVE  Apart(ExtentOf(grid, a), ExtentOf(grid, b))
    BY <2>1, <2>2, <2>4, GnosisChildrenApart
  <2>5. \E child \in Gnosis!Children(tile) : \A other \in Gnosis!Children(tile) :
           InBox(Gnosis!TileExtent(other), point, GnosisTurn) <=> other = child
    BY <2>1, GnosisChildOwns
  <2>6. \E child \in Gnosis!Children(tile) : \A other \in Gnosis!Children(tile) :
           Owns(other, point) <=> other = child
    BY <1>3, <2>5, OwnsIsInBox
  <2> QED BY <2>1, <2>3, <2>4, <2>6 DEF ChildrenPartition, Within
<1> QED
  BY <1>1, <1>2, <1>3 DEF Grid

\* Stepping through parents and children leads to the tile that tile_at gives for the
\* point, and that tile owns the point: for every number of levels and every point of
\* both grids, the poles and the antimeridian included.
THEOREM WalkAlwaysAgrees == Spec => []WalkAgrees
BY WalkInit, WalkNext, InvAgrees, PTL DEF Spec

\* The children of every tile of the walk are addresses, apart from each other, within
\* the tile, have it for their parent, and one of them owns the point.
THEOREM ChildrenAlwaysPartition == Spec => []ChildrenPartition
BY WalkInit, WalkNext, InvPartition, PTL DEF Spec

-----------------------------------------------------------------------------
(* Names of CDB 1.x: division, zones and places *)

Divided(c, b, q, r) == c \div b = q /\ c % b = r

\* Quotient and remainder are found from any q * b + r with r < b,
LEMMA Division ==
    ASSUME NEW b \in Nat, b > 0, NEW q \in Nat, NEW r \in Nat, r < b,
           NEW c \in Nat, c = q * b + r
    PROVE  Divided(c, b, q, r)
<1>1. q * b <= c /\ c < (q + 1) * b
  BY SMT
<1>2. c \div b = q
  BY <1>1, SMT
<1>3. c % b = r
  BY SMT
<1> QED
  BY <1>2, <1>3 DEF Divided

HasRemainder(c, b) ==
    \E q \in Nat, r \in Nat : q = c \div b /\ r < b /\ c = q * b + r

\* and there always are such.
LEMMA Remainder ==
    ASSUME NEW b \in Nat, b > 0, NEW c \in Nat
    PROVE  HasRemainder(c, b)
<1>1. PICK q \in Nat : q = c \div b
  BY SMT
<1>2. c = q * b + (c % b) /\ c % b \in Nat /\ c % b < b
  BY <1>1, SMT
<1> QED
  BY <1>1, <1>2 DEF HasRemainder

\* Columns of a geocell and its zone, multiplied in either order.
LEMMA ThreeFactors ==
    ASSUME NEW k \in Nat, NEW m \in Nat, NEW f \in Nat
    PROVE  ((k + 1) * m) * f = (k * f + f) * m
<1>1. (k + 1) * m = k * m + m /\ (k * f + f) * m = (k * f) * m + f * m
  BY SMT
<1>2. (k * m + m) * f = (k * m) * f + m * f
  BY SMT
<1>3. (k * m) * f = (k * f) * m /\ m * f = f * m
  BY SMT
<1> QED
  BY <1>1, <1>2, <1>3

\* The zone table of the migrator is that of the grid.
LEMMA SameZones ==
    ASSUME NEW lat \in -90 .. 89, NEW a \in 0 .. 89, a = IF lat >= 0 THEN lat ELSE -lat - 1
    PROVE  CellWidth(lat) = ZoneWidth(a)
<1> DEFINE First(i) == a < ZoneBands[i][1] /\ \A j \in 1 .. i - 1 : ~(a < ZoneBands[j][1])
           fits == {i \in 1 .. 6 : a < GrammarBands[i][1]}
           Lowest(i) == \A j \in fits : i <= j
<1>1. GrammarBands = ZoneBands
  BY DEF GrammarBands, ZoneBands
<1>2. fits # {}
  BY DEF GrammarBands
<1>3. CellWidth(lat) = GrammarBands[CHOOSE i \in fits : Lowest(i)][2]
  BY <1>2 DEF CellWidth
<1>4. ZoneWidth(a) = ZoneBands[CHOOSE i \in 1 .. 6 : First(i)][2]
  BY DEF ZoneWidth
<1>5. \A i : (i \in fits /\ Lowest(i)) <=> (i \in 1 .. 6 /\ First(i))
  <2>1. ASSUME NEW i \in 1 .. 6, First(i) PROVE i \in fits /\ Lowest(i)
    <3>1. ASSUME NEW j \in fits PROVE i <= j
      <4>1. j \in 1 .. 6 /\ a < ZoneBands[j][1]
        BY <1>1, <3>1
      <4>2. ~(j \in 1 .. i - 1)
        BY <2>1, <4>1
      <4> QED BY <4>1, <4>2
    <3> QED BY <1>1, <2>1, <3>1
  <2>2. ASSUME NEW i \in fits, Lowest(i) PROVE i \in 1 .. 6 /\ First(i)
    <3>1. i \in 1 .. 6 /\ a < ZoneBands[i][1]
      BY <1>1, <2>2
    <3>2. ASSUME NEW j \in 1 .. i - 1 PROVE ~(a < ZoneBands[j][1])
      <4>1. j \in 1 .. 6 /\ ~(i <= j)
        BY <3>1
      <4> QED BY <1>1, <2>2, <4>1
    <3> QED BY <3>1, <3>2
  <2> QED BY <2>1, <2>2
<1>6. (CHOOSE i \in fits : Lowest(i)) = CHOOSE i \in 1 .. 6 : First(i)
  <2> HIDE DEF fits, Lowest, First
  <2>1. \A i : (i \in fits /\ Lowest(i)) = (i \in 1 .. 6 /\ First(i))
    BY <1>5
  <2> QED BY <2>1
<1> QED
  BY <1>1, <1>3, <1>4, <1>6

-----------------------------------------------------------------------------
(* The place of a tile in its geocell: the g-th geocell of a column, counted *)
(* from the north, and the k-th of that zone from longitude -180; the i-th   *)
(* row and the j-th column of the tiles of the geocell.                      *)

ZoneFactor(g) == ZoneWidth(IF g < 90 THEN 89 - g ELSE g - 90)
Places ==
    {at \in [lod : Levels, g : 0 .. 179, i : Nat, k : Nat, j : Nat] :
        /\ at.i < Per[at.lod] /\ at.j < Per[at.lod]
        /\ at.k * ZoneFactor(at.g) + ZoneFactor(at.g) <= 360}
PlacedTile(at) ==
    [level |-> at.lod, row |-> at.g * Per[at.lod] + at.i,
     col |-> (at.k * Per[at.lod] + at.j) * ZoneFactor(at.g)]
PlacedName(at) ==
    [lat |-> 89 - at.g, lon |-> at.k * ZoneFactor(at.g) - 180, lod |-> at.lod,
     uref |-> (Per[at.lod] - 1) - at.i, rref |-> at.j]

\* The zone of a geocell has one of six widths.
LEMMA ZoneFactors ==
    ASSUME NEW g \in 0 .. 179
    PROVE  ZoneFactor(g) \in Factors /\ ZoneFactor(g) \in Nat /\ ZoneFactor(g) > 0
<1>1. (IF g < 90 THEN 89 - g ELSE g - 90) \in 0 .. 89
  OBVIOUS
<1>2. ZoneFactor(g) \in Factors
  BY <1>1, ZoneWidths DEF ZoneFactor
<1> QED
  BY <1>2 DEF Factors

\* Every tile has a place in a geocell,
LEMMA EveryTilePlaced ==
    ASSUME NEW t \in Cdb1Tiles
    PROVE  \E at \in Places : t = PlacedTile(at) /\ at.lod = t.level
<1>1. PICK lod \in Levels, r \in Nat, c \in Nat, f \in Nat :
          /\ t = [level |-> lod, row |-> r, col |-> c]
          /\ lod = t.level
          /\ r \in 0 .. Height(lod) - 1 /\ c \in 0 .. Width(lod) - 1
          /\ f = Factor(lod, r) /\ f > 0 /\ Multiple(c, f)
  BY TileNumbers
<1>2. PICK m \in Nat : m = Per[lod] /\ m > 0
  BY PerPositive
<1>3. PICK g \in 0 .. 179 : g = r \div m /\ f = ZoneFactor(g) /\ f \in Factors
  BY <1>1, <1>2, RowFactor DEF Geocell, Factor, ZoneFactor
<1>4. PICK i \in Nat : r = g * m + i /\ i < m
  <2>1. HasRemainder(r, m)
    BY <1>2, Remainder
  <2> QED BY <1>3, <2>1 DEF HasRemainder
<1>5. PICK x \in Nat : c = x * f
  BY <1>1, MultipleOf
<1>6. PICK k \in Nat, j \in Nat : x = k * m + j /\ j < m
  <2>1. HasRemainder(x, m)
    BY <1>2, Remainder
  <2> QED BY <2>1 DEF HasRemainder
<1>7. k * f + f <= 360
  <2>1. (k * m) * f <= c /\ c < 360 * m
    <3>1. k * m <= x
      BY <1>2, <1>6
    <3>2. (k * m) * f <= x * f
      BY <1>2, <3>1
    <3> QED BY <1>1, <1>2, <1>5, <3>2 DEF Width
  <2>2. (k * f) * m < 360 * m
    BY <1>2, <2>1
  <2>3. k * f < 360
    <3> DEFINE y == k * f
    <3>1. y \in Nat /\ y * m < 360 * m
      BY <2>2
    <3> HIDE DEF y
    <3>2. y < 360
      BY <1>2, <3>1
    <3> QED BY <3>2 DEF y
  <2> QED BY <1>3, <2>3 DEF Factors
<1>8. PICK at : at = [lod |-> lod, g |-> g, i |-> i, k |-> k, j |-> j]
  OBVIOUS
<1>9. at \in Places
  BY <1>2, <1>3, <1>4, <1>6, <1>7, <1>8 DEF Places
<1>10. t = PlacedTile(at)
  BY <1>1, <1>2, <1>3, <1>4, <1>5, <1>6, <1>8 DEF PlacedTile
<1> QED
  BY <1>1, <1>8, <1>9, <1>10

\* and every place is that of a tile.
LEMMA PlacedIsTile ==
    ASSUME NEW at \in Places
    PROVE  PlacedTile(at) \in Cdb1Tiles
<1>1. PICK lod \in Levels, g \in 0 .. 179, i \in Nat, k \in Nat, j \in Nat :
          at = [lod |-> lod, g |-> g, i |-> i, k |-> k, j |-> j]
  BY DEF Places
<1>2. PICK m \in Nat : m = Per[lod] /\ m > 0
  BY PerPositive
<1>3. PICK f \in Nat : f = ZoneFactor(g) /\ f > 0
  BY ZoneFactors
<1>4. g \in Nat /\ m > 0 /\ f > 0 /\ i < m /\ j < m /\ k * f + f <= 360
  BY <1>1, <1>2, <1>3 DEF Places
<1>5. PlacedTile(at) = [level |-> lod, row |-> g * m + i, col |-> (k * m + j) * f]
  BY <1>1, <1>2, <1>3 DEF PlacedTile
<1>6. PICK r \in Nat, x \in Nat, c \in Nat : r = g * m + i /\ x = k * m + j /\ c = x * f
  <2>1. g * m + i \in Nat /\ k * m + j \in Nat /\ (k * m + j) * f \in Nat
    BY <1>4
  <2> QED BY <2>1
<1>7. r \in 0 .. Height(lod) - 1
  <2>1. g * m + i < (g + 1) * m /\ (g + 1) * m <= 180 * m
    BY <1>4
  <2> QED BY <1>2, <1>6, <2>1 DEF Height
<1>8. c \in 0 .. Width(lod) - 1
  <2>1. x < (k + 1) * m
    BY <1>4, <1>6
  <2>2. x * f < ((k + 1) * m) * f
    BY <1>4, <2>1
  <2>3. ((k + 1) * m) * f = (k * f + f) * m
    BY ThreeFactors
  <2>4. (k * f + f) * m <= 360 * m
    <3> DEFINE y == k * f + f
    <3>1. y \in Nat /\ y <= 360
      BY <1>4
    <3> HIDE DEF y
    <3>2. y * m <= 360 * m
      BY <3>1
    <3> QED BY <3>2 DEF y
  <2>5. c < 360 * m
    BY <1>6, <2>2, <2>3, <2>4
  <2> QED BY <1>2, <2>5 DEF Width
<1>9. Factor(lod, r) = f
  <2>1. Divided(r, m, g, i)
    BY <1>4, <1>6, Division
  <2> QED BY <1>2, <1>3, <2>1 DEF Divided, Factor, Geocell, ZoneFactor
<1>10. Multiple(c, f)
  BY <1>4, <1>6, OfMultiple
<1>11. PlacedTile(at) = [level |-> lod, row |-> r, col |-> c]
  BY <1>5, <1>6
<1> QED
  BY <1>7, <1>8, <1>9, <1>10, <1>11, IsTile

-----------------------------------------------------------------------------
(* Names of CDB 1.x: there and back *)

\* The width the migrator finds by latitude is the factor of the geocell.
LEMMA GeocellWidth ==
    ASSUME NEW g \in 0 .. 179
    PROVE  CellWidth(89 - g) = ZoneFactor(g)
<1> DEFINE lat == 89 - g
           a == IF g < 90 THEN 89 - g ELSE g - 90
<1>1. lat \in -90 .. 89 /\ a \in 0 .. 89 /\ a = IF lat >= 0 THEN lat ELSE -lat - 1
  OBVIOUS
<1> HIDE DEF lat, a
<1>2. CellWidth(lat) = ZoneWidth(a)
  BY <1>1, SameZones
<1> QED
  BY <1>2 DEF lat, a, ZoneFactor

\* per_geocell_address of a placed tile.
LEMMA NameOfPlaced ==
    ASSUME NEW at \in Places
    PROVE  PerGeocell(PlacedTile(at)) = PlacedName(at)
<1>1. PICK lod \in Levels, g \in 0 .. 179, i \in Nat, k \in Nat, j \in Nat :
          at = [lod |-> lod, g |-> g, i |-> i, k |-> k, j |-> j]
  BY DEF Places
<1>2. PICK m \in Nat : m = Per[lod] /\ m > 0
  BY PerPositive
<1>3. PICK f \in Nat : f = ZoneFactor(g) /\ f > 0
  BY ZoneFactors
<1>4. g \in Nat /\ m > 0 /\ f > 0 /\ i < m /\ j < m /\ k * f + f <= 360
  BY <1>1, <1>2, <1>3 DEF Places
<1>5. PlacedTile(at) = [level |-> lod, row |-> g * m + i, col |-> (k * m + j) * f]
  BY <1>1, <1>2, <1>3 DEF PlacedTile
<1>6. PlacedName(at) = [lat |-> 89 - g, lon |-> k * f - 180, lod |-> lod,
                        uref |-> (m - 1) - i, rref |-> j]
  BY <1>1, <1>2, <1>3 DEF PlacedName
<1>7. PICK r \in Nat, y \in Nat, b \in Nat, c \in Nat :
          r = g * m + i /\ y = j * f /\ b = m * f /\ c = (k * m + j) * f
  <2>1. g * m + i \in Nat /\ j * f \in Nat /\ m * f \in Nat /\ (k * m + j) * f \in Nat
    BY <1>4
  <2> QED BY <2>1
<1>8. PlacedTile(at) = [level |-> lod, row |-> r, col |-> c]
  BY <1>5, <1>7
<1>9. r \div m = g /\ r % m = i
  <2>1. Divided(r, m, g, i)
    BY <1>4, <1>7, Division
  <2> QED BY <2>1 DEF Divided
<1>10. c \div b = k /\ c % b = y
  <2>1. b > 0 /\ y < b
    BY <1>4, <1>7
  <2>2. c = k * b + y
    <3>1. (k * m + j) * f = (k * m) * f + j * f
      BY SMT
    <3>2. (k * m) * f = k * (m * f)
      BY SMT
    <3> QED BY <1>7, <3>1, <3>2
  <2>3. Divided(c, b, k, y)
    BY <2>1, <2>2, Division
  <2> QED BY <2>3 DEF Divided
<1>11. y \div f = j
  <2>1. y = j * f + 0
    BY <1>7
  <2>2. Divided(y, f, j, 0)
    BY <1>4, <2>1, Division
  <2> QED BY <2>2 DEF Divided
<1>12. CellWidth(89 - g) = f
  BY <1>3, GeocellWidth
<1>13. PICK lat \in Int : lat = 89 - g /\ CellWidth(lat) = f
  BY <1>12
<1> QED
  BY <1>2, <1>6, <1>7, <1>8, <1>9, <1>10, <1>11, <1>13 DEF PerGeocell

\* global_address of its name, the tile at the middle of it, is the tile.
LEMMA NameLeadsBack ==
    ASSUME NEW at \in Places
    PROVE  GlobalAddress(PlacedName(at)) = PlacedTile(at)
<1>1. PICK lod \in Levels, g \in 0 .. 179, i \in Nat, k \in Nat, j \in Nat :
          at = [lod |-> lod, g |-> g, i |-> i, k |-> k, j |-> j]
  BY DEF Places
<1>2. PICK m \in Nat : m = Per[lod] /\ m > 0
  BY PerPositive
<1>3. PICK f \in Nat : f = ZoneFactor(g) /\ f > 0
  BY ZoneFactors
<1>4. g \in Nat /\ m > 0 /\ f > 0 /\ i < m /\ j < m /\ k * f + f <= 360
  BY <1>1, <1>2, <1>3 DEF Places
<1>5. PlacedTile(at) = [level |-> lod, row |-> g * m + i, col |-> (k * m + j) * f]
  BY <1>1, <1>2, <1>3 DEF PlacedTile
<1>6. PlacedName(at) = [lat |-> 89 - g, lon |-> k * f - 180, lod |-> lod,
                        uref |-> (m - 1) - i, rref |-> j]
  BY <1>1, <1>2, <1>3 DEF PlacedName
<1>7. PICK r \in Nat, x \in Nat, c \in Nat : r = g * m + i /\ x = k * m + j /\ c = x * f
  <2>1. g * m + i \in Nat /\ k * m + j \in Nat /\ (k * m + j) * f \in Nat
    BY <1>4
  <2> QED BY <2>1
<1>8. PICK t \in Cdb1Tiles : t = PlacedTile(at) /\ t = [level |-> lod, row |-> r, col |-> c]
  BY <1>5, <1>7, PlacedIsTile
<1>9. PICK h \in Nat : h > 0 /\ Side(lod) = 2 * h
  BY Sides
<1>10. Degree = m * (2 * h) /\ Side(lod) \div 2 = h
  <2>1. m * (2 * h) = Degree
    BY <1>2, <1>9, Sides
  <2>2. (2 * h) \div 2 = h
    OBVIOUS
  <2> QED BY <1>9, <2>1, <2>2
<1>11. /\ r \in 0 .. Height(lod) - 1 /\ c + f <= Width(lod)
       /\ TileExtent(t) = Box(2 * h, r, c, f)
  <2>1. Divided(r, m, g, i)
    BY <1>4, <1>7, Division
  <2>2. Factor(lod, r) = f
    BY <1>2, <1>3, <2>1 DEF Divided, Factor, Geocell, ZoneFactor
  <2>3. PICK r2 \in Nat, c2 \in Nat, f2 \in Nat :
           /\ t = [level |-> t.level, row |-> r2, col |-> c2]
           /\ r2 \in 0 .. Height(t.level) - 1 /\ f2 = Factor(t.level, r2)
           /\ c2 + f2 <= Width(t.level)
    BY TileNumbers
  <2>4. r2 = r /\ c2 = c /\ t.level = lod
    BY <1>8, <2>3
  <2> QED BY <1>8, <1>9, <2>2, <2>3, <2>4 DEF TileExtent, Box

\* The middle of the tile.
<1>12. PICK n \in Nat, e \in Nat : n = (2 * r + 1) * h /\ e = (2 * c + f) * h
  <2>1. (2 * r + 1) * h \in Nat /\ (2 * c + f) * h \in Nat
    OBVIOUS
  <2> QED BY <2>1
<1>13. (g + 1) * (m * (2 * h)) - (2 * ((m - 1) - i) + 1) * h = n
  <2>1. PICK z \in Nat : z = g * m
    OBVIOUS
  <2>2. (g + 1) * m = z + m
    BY <1>4, <2>1
  <2>3. (g + 1) * (m * (2 * h)) = (2 * ((g + 1) * m)) * h
    BY <1>4
  <2>4. PICK y \in Nat : y = 2 * ((m - 1) - i) + 1 /\ 2 * r + 1 = 2 * (z + m) - y
    BY <1>4, <1>7, <2>1
  <2>5. (2 * (z + m)) * h - y * h = (2 * (z + m) - y) * h
    BY SMT
  <2> QED BY <1>12, <2>2, <2>3, <2>4, <2>5
<1>14. (k * f) * (m * (2 * h)) + (2 * j + 1) * h * f = e
  <2>1. (k * f) * (m * (2 * h)) = (2 * ((k * m) * f)) * h
    BY SMT
  <2>2. (2 * j + 1) * h * f = (2 * (j * f) + f) * h
    BY SMT
  <2>3. c = (k * m) * f + j * f
    BY <1>7
  <2>4. PICK a \in Nat, b \in Nat : a = (k * m) * f /\ b = j * f
    <3>1. (k * m) * f \in Nat /\ j * f \in Nat
      BY SMT
    <3> QED BY <3>1
  <2>5. (2 * a) * h + (2 * b + f) * h = (2 * (a + b) + f) * h
    BY SMT
  <2> QED BY <1>12, <2>1, <2>2, <2>3, <2>4, <2>5
<1>15. PICK p : p = [north |-> n, east |-> e]
  OBVIOUS
<1>16. GlobalAddress(PlacedName(at)) = TileAt(p, lod)
  <2>1. PICK name : /\ name = PlacedName(at)
                    /\ name.lat = 89 - g /\ name.lon = k * f - 180 /\ name.lod = lod
                    /\ name.uref = (m - 1) - i /\ name.rref = j
    BY <1>6
  <2>2. CellWidth(name.lat) = f
    BY <1>3, <2>1, GeocellWidth
  <2>3. 90 - name.lat = g + 1 /\ name.lon + 180 = k * f
    BY <1>4, <2>1
  <2>4. (90 - name.lat) * Degree - (2 * name.uref + 1) * h = n
    BY <1>10, <1>13, <2>1, <2>3
  <2>5. (name.lon + 180) * Degree + (2 * name.rref + 1) * h * CellWidth(name.lat) = e
    BY <1>10, <1>14, <2>1, <2>2, <2>3
  <2> QED BY <1>10, <1>15, <2>1, <2>4, <2>5 DEF GlobalAddress
<1>17. /\ r * (2 * h) < n /\ n <= (r + 1) * (2 * h)
       /\ c * (2 * h) <= e /\ e < (c + f) * (2 * h)
  BY <1>4, <1>9, <1>12
<1>18. InBox(TileExtent(t), p, Cdb1Turn)
  BY <1>11, <1>15, <1>17 DEF InBox, Box
<1>19. p \in Cdb1Points
  <2>1. PICK y \in Nat, w \in Nat : /\ y = Height(lod) /\ w = Width(lod)
                                    /\ y * (2 * h) = 180 * Degree /\ w * (2 * h) = Cdb1Turn
    BY <1>9, Sizes
  <2>2. r + 1 <= y /\ c + f <= w
    BY <1>11, <2>1
  <2>3. (r + 1) * (2 * h) <= y * (2 * h) /\ (c + f) * (2 * h) <= w * (2 * h)
    BY <2>2
  <2>4. n <= y * (2 * h) /\ e <= w * (2 * h)
    BY <1>17, <2>3
  <2>5. n \in 0 .. 180 * Degree /\ e \in 0 .. Cdb1Turn
    BY <2>1, <2>4
  <2> QED BY <1>15, <2>5 DEF Cdb1Points
<1>20. TileAt(p, lod) \in Cdb1Tiles /\ TileAt(p, lod).level = lod
       /\ InBox(TileExtent(TileAt(p, lod)), p, Cdb1Turn)
  BY <1>19, TileAtOwns
<1>21. TileAt(p, lod) = t
  BY <1>8, <1>18, <1>19, <1>20, OneOwner
<1> QED
  BY <1>8, <1>16, <1>21

-----------------------------------------------------------------------------
(* Names and keys, one to one *)

\* Such a name is a valid CDB 1.x name: its longitude is aligned to the zone.
LEMMA PlacedNameable ==
    ASSUME NEW at \in Places
    PROVE  Nameable(PlacedName(at))
<1>1. PICK lod \in Levels, g \in 0 .. 179, i \in Nat, k \in Nat, j \in Nat :
          at = [lod |-> lod, g |-> g, i |-> i, k |-> k, j |-> j]
  BY DEF Places
<1>2. PICK m \in Nat : m = Per[lod] /\ m > 0
  BY PerPositive
<1>3. PICK f \in Nat : f = ZoneFactor(g) /\ f > 0
  BY ZoneFactors
<1>4. g \in Nat /\ m > 0 /\ f > 0 /\ i < m /\ j < m /\ k * f + f <= 360
  BY <1>1, <1>2, <1>3 DEF Places
<1>5. f \in {1, 2, 3, 4, 6, 12}
  BY <1>3, ZoneFactors DEF Factors
<1>6. PlacedName(at) = [lat |-> 89 - g, lon |-> k * f - 180, lod |-> lod,
                        uref |-> (m - 1) - i, rref |-> j]
  BY <1>1, <1>2, <1>3 DEF PlacedName
<1>7. PICK lat \in -90 .. 89, lon \in -180 .. 179 :
          lat = 89 - g /\ lon = k * f - 180 /\ lon % f = 0
  <2>1. \A x \in {1, 2, 3, 4, 6, 12} : k * x + x <= 360 =>
           k * x - 180 \in -180 .. 179 /\ (k * x - 180) % x = 0
    OBVIOUS
  <2>2. k * f - 180 \in -180 .. 179 /\ (k * f - 180) % f = 0
    BY <1>4, <1>5, <2>1
  <2>3. 89 - g \in -90 .. 89
    OBVIOUS
  <2> QED BY <2>2, <2>3
<1>8. CellWidth(lat) = f
  BY <1>3, <1>7, GeocellWidth
<1>9. (m - 1) - i \in 0 .. m - 1 /\ j \in 0 .. m - 1
  BY <1>4
<1> QED
  BY <1>2, <1>6, <1>7, <1>8, <1>9 DEF Nameable

\* A tile has a valid name, which leads back to it.
LEMMA TileNamed ==
    ASSUME NEW t \in Cdb1Tiles
    PROVE  Nameable(PerGeocell(t)) /\ GlobalAddress(PerGeocell(t)) = t
<1>1. PICK at \in Places : t = PlacedTile(at)
  BY EveryTilePlaced
<1> QED
  BY <1>1, NameOfPlaced, NameLeadsBack, PlacedNameable

\* Every UREF and RREF of its geocell leads to a tile that has that name.
LEMMA NamesLead ==
    ASSUME NEW t \in Cdb1Tiles, NEW u \in 0 .. Per[t.level] - 1, NEW v \in 0 .. Per[t.level] - 1
    PROVE  PerGeocell(GlobalAddress(Renamed(PerGeocell(t), u, v))) = Renamed(PerGeocell(t), u, v)
<1>0. PICK at \in Places : t = PlacedTile(at) /\ at.lod = t.level
  BY EveryTilePlaced
<1>1. PICK lod \in Levels, g \in 0 .. 179, i \in Nat, k \in Nat, j \in Nat :
          at = [lod |-> lod, g |-> g, i |-> i, k |-> k, j |-> j]
  BY DEF Places
<1>2. PICK m \in Nat : m = Per[lod] /\ m > 0
  BY PerPositive
<1>3. PICK f \in Nat : f = ZoneFactor(g) /\ f > 0
  BY ZoneFactors
<1>4. g \in Nat /\ m > 0 /\ f > 0 /\ i < m /\ j < m /\ k * f + f <= 360
  BY <1>1, <1>2, <1>3 DEF Places
<1>5. PlacedName(at) = [lat |-> 89 - g, lon |-> k * f - 180, lod |-> lod,
                        uref |-> (m - 1) - i, rref |-> j]
  BY <1>1, <1>2, <1>3 DEF PlacedName
<1>6. u \in Nat /\ v \in Nat /\ u < m /\ v < m
  BY <1>0, <1>1, <1>2
<1>7. PICK x \in Nat : x = (m - 1) - u /\ x < m /\ u = (m - 1) - x
  BY <1>6
<1>8. PICK to : to = [lod |-> lod, g |-> g, i |-> x, k |-> k, j |-> v]
  OBVIOUS
<1>9. to \in Places
  BY <1>2, <1>3, <1>4, <1>6, <1>7, <1>8 DEF Places
<1>10. PerGeocell(t) = [lat |-> 89 - g, lon |-> k * f - 180, lod |-> lod,
                        uref |-> (m - 1) - i, rref |-> j]
  BY <1>0, <1>5, NameOfPlaced
<1>11. PlacedName(to) = [lat |-> 89 - g, lon |-> k * f - 180, lod |-> lod,
                         uref |-> u, rref |-> v]
  BY <1>2, <1>3, <1>7, <1>8 DEF PlacedName
<1>12. Renamed(PerGeocell(t), u, v) = PlacedName(to)
  BY <1>10, <1>11 DEF Renamed
<1> QED
  BY <1>9, <1>12, NameLeadsBack, NameOfPlaced

-----------------------------------------------------------------------------
(* Keys *)

\* The fields of a key are wide enough for every level.
LEMMA KeyFields ==
    /\ RowField \in Nat /\ RowField > 0 /\ ColField \in Nat /\ ColField > 0
    /\ \A n \in GnosisLevels : Gnosis!Height(n) <= RowField /\ Gnosis!Width(n) <= ColField
<1>1. LevelMax \in GnosisLevels
  BY ScaleFacts DEF GnosisLevels
<1>2. Scale[LevelMax] \in Nat /\ Scale[LevelMax] > 0
  BY <1>1, ScalePositive
<1>3. RowField = 2 * Scale[LevelMax] /\ ColField = 4 * Scale[LevelMax]
  BY GnosisAssumption DEF Gnosis!KeyAssumption
<1>4. ASSUME NEW n \in GnosisLevels
      PROVE  Gnosis!Height(n) <= RowField /\ Gnosis!Width(n) <= ColField
  <2>1. n \in 0 .. LevelMax
    BY DEF GnosisLevels
  <2>2. Scale[n] <= Scale[LevelMax]
    BY <1>1, <2>1, ScaleMonotonic
  <2>3. Scale[n] \in Nat
    BY ScalePositive
  <2> QED BY <1>2, <1>3, <2>2, <2>3 DEF Gnosis!Height, Gnosis!Width
<1> QED
  BY <1>2, <1>3, <1>4

\* Unpacking the key of a tile gives the tile.
LEMMA KeyUnpacks ==
    ASSUME NEW t \in GnosisTiles
    PROVE  Gnosis!FromKey(Gnosis!Key(t)) = {t}
<1>1. PICK n \in GnosisLevels, r \in Nat, c \in Nat :
          /\ t = [level |-> n, row |-> r, col |-> c]
          /\ n \in Nat /\ r \in 0 .. Gnosis!Height(n) - 1 /\ c \in 0 .. Gnosis!Width(n) - 1
  BY GnosisNumbers
<1>2. PICK R \in Nat, C \in Nat : R = RowField /\ C = ColField /\ R > 0 /\ C > 0
                                  /\ r < R /\ c < C
  <2>1. Gnosis!Height(n) \in Nat /\ Gnosis!Width(n) \in Nat
    BY GnosisSizes
  <2> QED BY <1>1, <2>1, KeyFields
<1>3. PICK a \in Nat, key \in Nat, d \in Nat, b \in Nat :
          a = n * R + r /\ key = a * C + c /\ b = R * C /\ d = r * C + c
  <2>1. n * R + r \in Nat /\ R * C \in Nat /\ r * C + c \in Nat
    BY <1>1
  <2>2. (n * R + r) * C + c \in Nat
    BY <1>1, <2>1
  <2> QED BY <2>1, <2>2
<1>4. Gnosis!Key(t) = key
  BY <1>1, <1>2, <1>3 DEF Gnosis!Key
<1>5. key \div C = a /\ key % C = c
  <2>1. Divided(key, C, a, c)
    BY <1>2, <1>3, Division
  <2> QED BY <2>1 DEF Divided
<1>6. a % R = r
  <2>1. Divided(a, R, n, r)
    BY <1>1, <1>2, <1>3, Division
  <2> QED BY <2>1 DEF Divided
<1>7. key \div b = n
  <2>1. key = n * b + d
    <3>1. (n * R + r) * C = (n * R) * C + r * C
      BY <1>1
    <3>2. (n * R) * C = n * (R * C)
      BY <1>1
    <3> QED BY <1>1, <1>3, <3>1, <3>2
  <2>2. b > 0 /\ d < b
    <3>1. (r + 1) * C <= R * C
      BY <1>2
    <3>2. r * C + c < (r + 1) * C
      BY <1>2
    <3> QED BY <1>2, <1>3, <3>1, <3>2
  <2>3. Divided(key, b, n, d)
    BY <1>1, <2>1, <2>2, Division
  <2> QED BY <2>3 DEF Divided
<1>8. Gnosis!Address(t)
  BY DEF GnosisTiles
<1> QED
  BY <1>1, <1>2, <1>3, <1>4, <1>5, <1>6, <1>7, <1>8 DEF Gnosis!FromKey

\* A key that unpacks is the key of the tile it unpacks to.
LEMMA UnpackedKey ==
    ASSUME NEW key \in Nat, NEW t \in Gnosis!FromKey(key)
    PROVE  Gnosis!Address(t) /\ Gnosis!Key(t) = key
<1>1. PICK R \in Nat, C \in Nat : R = RowField /\ C = ColField /\ R > 0 /\ C > 0
  BY KeyFields
<1>2. HasRemainder(key, C)
  BY <1>1, Remainder
<1>3. PICK a \in Nat, c \in Nat : a = key \div C /\ c < C /\ key = a * C + c
  BY <1>2 DEF HasRemainder
<1>4. HasRemainder(a, R)
  BY <1>1, Remainder
<1>5. PICK n \in Nat, r \in Nat : n = a \div R /\ r < R /\ a = n * R + r
  BY <1>4 DEF HasRemainder
<1>6. key % C = c /\ a % R = r
  <2>1. Divided(key, C, a, c)
    BY <1>1, <1>3, Division
  <2>2. Divided(a, R, n, r)
    BY <1>1, <1>5, Division
  <2> QED BY <2>1, <2>2 DEF Divided
<1>7. key \div (R * C) = n
  <2>1. PICK b \in Nat, d \in Nat : b = R * C /\ d = r * C + c
    <3>1. R * C \in Nat /\ r * C + c \in Nat
      BY <1>1
    <3> QED BY <3>1
  <2>2. key = n * b + d
    <3>1. (n * R + r) * C = (n * R) * C + r * C
      BY <1>1
    <3>2. (n * R) * C = n * (R * C)
      BY <1>1
    <3>3. key = (n * R + r) * C + c
      BY <1>3, <1>5
    <3>4. (n * R) * C \in Nat /\ r * C \in Nat
      BY <1>1
    <3> QED BY <2>1, <3>1, <3>2, <3>3, <3>4
  <2>3. b > 0 /\ d < b
    <3>1. (r + 1) * C <= R * C
      BY <1>1, <1>5
    <3>2. r * C + c < (r + 1) * C
      BY <1>1, <1>3
    <3> QED BY <1>1, <2>1, <3>1, <3>2
  <2>4. Divided(key, b, n, d)
    BY <2>1, <2>2, <2>3, Division
  <2> QED BY <2>1, <2>4 DEF Divided
<1>8. t = [level |-> n, row |-> r, col |-> c] /\ Gnosis!Address(t)
  BY <1>1, <1>3, <1>6, <1>7 DEF Gnosis!FromKey
<1>9. Gnosis!Key(t) = key
  BY <1>1, <1>3, <1>5, <1>8 DEF Gnosis!Key
<1> QED
  BY <1>8, <1>9

\* Tiles and their names or keys are one to one.
LEMMA InvNamed == WalkInv => NamedOneToOne
<1> SUFFICES ASSUME WalkInv PROVE NamesOneToOne /\ KeysOneToOne
  BY DEF NamedOneToOne
<1>1. tile \in Tiles
  BY DEF WalkInv
<1>2. NamesOneToOne
  <2> SUFFICES ASSUME grid = "cdb1"
               PROVE  /\ Nameable(PerGeocell(tile)) /\ GlobalAddress(PerGeocell(tile)) = tile
                      /\ \A u, r \in 0 .. Per[tile.level] - 1 :
                            LET name == Renamed(PerGeocell(tile), u, r)
                            IN  PerGeocell(GlobalAddress(name)) = name
    BY DEF NamesOneToOne
  <2>1. tile \in Cdb1Tiles
    BY <1>1 DEF Tiles
  <2> QED BY <2>1, TileNamed, NamesLead
<1>3. KeysOneToOne
  <2> SUFFICES ASSUME grid = "gnosis"
               PROVE  /\ Gnosis!FromKey(Gnosis!Key(tile)) = {tile}
                      /\ \A key \in Keys : \A t \in Gnosis!FromKey(key) :
                            Gnosis!Address(t) /\ Gnosis!Key(t) = key
    BY DEF KeysOneToOne
  <2>1. tile \in GnosisTiles
    BY <1>1 DEF Tiles
  <2>2. \A key \in Keys : key \in Nat
    BY PointAssumption
  <2> QED BY <2>1, <2>2, KeyUnpacks, UnpackedKey
<1> QED
  BY <1>2, <1>3

\* No two tiles of either grid go by one name or key: the CDB 1.x name of a tile leads
\* back to it, as every name of its geocell leads to a tile of that name, and a GNOSIS
\* key unpacks to the tile it was packed from.
THEOREM AlwaysNamedOneToOne == Spec => []NamedOneToOne
BY WalkInit, WalkNext, InvNamed, PTL DEF Spec

-----------------------------------------------------------------------------
(* Logical paths: reading a path part by part                              *)

Name == INSTANCE Names

\* What one more character makes of the parts read so far.
Grow(parts, c, sep) ==
    IF c = sep THEN Append(parts, <<>>)
    ELSE [parts EXCEPT ![Len(parts)] = Append(@, c)]

\* Before the first there is one part, of nothing.
Unread == <<(<<>>)>>

\* f is what has been read of s after each of its first n characters.
Reading(s, sep, n, f) ==
    f = [i \in 0 .. n |-> IF i = 0 THEN Unread ELSE Grow(f[i - 1], s[i], sep)]

\* The recursion of Split has a solution,
LEMMA ReadingExists ==
    ASSUME NEW s, NEW sep, NEW n \in Nat
    PROVE  \E f : Reading(s, sep, n, f)
<1> DEFINE T == {k \in Nat : ~ \E f : Reading(s, sep, k, f)}
<1> SUFFICES ASSUME T # {} PROVE FALSE
  OBVIOUS
<1>1. PICK m \in T : \A k \in T : m <= k
  <2> HIDE DEF T
  <2>1. T \subseteq Nat
    BY DEF T
  <2> QED BY <2>1, Least
<1>2. CASE m = 0
  <2>1. Reading(s, sep, 0, [i \in 0 .. 0 |-> Unread])
    BY DEF Reading
  <2> QED BY <1>2, <2>1
<1>3. CASE m > 0
  <2>1. m - 1 \in Nat /\ m - 1 \notin T
    BY <1>1, <1>3
  <2>2. PICK f : Reading(s, sep, m - 1, f)
    BY <2>1
  <2> DEFINE g == [i \in 0 .. m |-> IF i = 0 THEN Unread ELSE Grow(f[i - 1], s[i], sep)]
  <2>3. \A i \in 0 .. m - 1 : g[i] = f[i]
    BY <2>1, <2>2 DEF Reading
  <2>4. Reading(s, sep, m, g)
    <3>1. \A i \in 0 .. m : i # 0 => i - 1 \in 0 .. m - 1
      BY <1>3
    <3> QED BY <2>3, <3>1 DEF Reading
  <2> QED BY <2>1, <2>4
<1> QED
  BY <1>1, <1>2, <1>3

\* and Split is its last element.
LEMMA SplitIs ==
    ASSUME NEW s, NEW sep, Len(s) \in Nat
    PROVE  \E f : Reading(s, sep, Len(s), f) /\ Name!Split(s, sep) = f[Len(s)]
<1> DEFINE f == CHOOSE f : Reading(s, sep, Len(s), f)
<1>1. \E g : Reading(s, sep, Len(s), g)
  BY ReadingExists
<1>2. Reading(s, sep, Len(s), f)
  BY <1>1
<1>3. Name!Split(s, sep) = f[Len(s)]
  BY DEF Name!Split, Reading, Grow, Unread
<1> QED
  BY <1>2, <1>3

\* Parts of a text over a set of characters: at least one.
Parts(C) == {parts \in Seq(Seq(C)) : Len(parts) >= 1}

\* A separator begins a part, any other character goes to the last one.
LEMMA GrowIs ==
    ASSUME NEW C, NEW parts \in Parts(C), NEW c \in C, NEW sep,
           NEW g, g = Grow(parts, c, sep)
    PROVE  /\ g \in Parts(C) /\ Len(g) \in Nat /\ Len(parts) \in Nat /\ Len(parts) >= 1
           /\ c = sep => /\ Len(g) = Len(parts) + 1 /\ g[Len(g)] = <<>>
                         /\ \A i \in 1 .. Len(parts) : g[i] = parts[i]
           /\ c # sep => /\ Len(g) = Len(parts) /\ g[Len(g)] = Append(parts[Len(parts)], c)
                         /\ g[Len(g)] # <<>> /\ parts[Len(parts)] \in Seq(C)
                         /\ \A i \in 1 .. Len(parts) - 1 : g[i] = parts[i]
<1>1. parts \in Seq(Seq(C)) /\ Len(parts) \in Nat /\ Len(parts) >= 1
  BY LenProperties DEF Parts
<1>2. CASE c = sep
  <2>1. <<>> \in Seq(C)
    BY EmptySeq
  <2>2. g = Append(parts, <<>>)
    BY <1>2 DEF Grow
  <2>3. /\ g \in Seq(Seq(C)) /\ Len(g) = Len(parts) + 1
        /\ \A i \in 1 .. Len(parts) : g[i] = parts[i]
        /\ g[Len(parts) + 1] = <<>>
    BY <1>1, <2>1, <2>2, AppendProperties
  <2>4. g \in Parts(C)
    BY <1>1, <2>3 DEF Parts
  <2> QED BY <1>1, <1>2, <2>3, <2>4
<1>3. CASE c # sep
  <2> DEFINE n == Len(parts)
             e == Append(parts[n], c)
  <2>1. n \in 1 .. Len(parts)
    BY <1>1
  <2>2. parts[n] \in Seq(C)
    BY <1>1, <2>1, ElementOfSeq
  <2>3. e \in Seq(C) /\ e # <<>>
    BY <2>2, AppendProperties
  <2>4. g = [parts EXCEPT ![n] = e]
    BY <1>3 DEF Grow
  <2> HIDE DEF e
  <2>5. g \in Seq(Seq(C)) /\ Len(g) = Len(parts)
        /\ \A j \in 1 .. Len(parts) : g[j] = IF j = n THEN e ELSE parts[j]
    BY <1>1, <2>1, <2>3, <2>4, ExceptSeq
  <2>6. g \in Parts(C)
    BY <1>1, <2>5 DEF Parts
  <2>7. g[n] = e /\ \A j \in 1 .. n - 1 : g[j] = parts[j]
    BY <1>1, <2>1, <2>5
  <2> QED BY <1>1, <1>3, <2>2, <2>3, <2>5, <2>6, <2>7 DEF e
<1> QED
  BY <1>2, <1>3

\* From the parts the last character can be told, and what was read before it.
LEMMA GrowInjective ==
    ASSUME NEW C, NEW sep, NEW parts \in Parts(C), NEW c \in C,
           NEW others \in Parts(C), NEW d \in C,
           Grow(parts, c, sep) = Grow(others, d, sep)
    PROVE  parts = others /\ c = d
<1> DEFINE g == Grow(parts, c, sep)
<1>0. g = Grow(parts, c, sep) /\ g = Grow(others, d, sep)
  OBVIOUS
<1> HIDE DEF g
<1>1. /\ parts \in Seq(Seq(C)) /\ others \in Seq(Seq(C))
      /\ Len(parts) \in Nat /\ Len(others) \in Nat /\ Len(parts) >= 1 /\ Len(others) >= 1
  BY LenProperties DEF Parts
<1>2. /\ c = sep => /\ Len(g) = Len(parts) + 1 /\ g[Len(g)] = <<>>
                    /\ \A i \in 1 .. Len(parts) : g[i] = parts[i]
      /\ c # sep => /\ Len(g) = Len(parts) /\ g[Len(g)] = Append(parts[Len(parts)], c)
                    /\ g[Len(g)] # <<>> /\ parts[Len(parts)] \in Seq(C)
                    /\ \A i \in 1 .. Len(parts) - 1 : g[i] = parts[i]
  BY <1>0, GrowIs
<1>3. /\ d = sep => /\ Len(g) = Len(others) + 1 /\ g[Len(g)] = <<>>
                    /\ \A i \in 1 .. Len(others) : g[i] = others[i]
      /\ d # sep => /\ Len(g) = Len(others) /\ g[Len(g)] = Append(others[Len(others)], d)
                    /\ g[Len(g)] # <<>> /\ others[Len(others)] \in Seq(C)
                    /\ \A i \in 1 .. Len(others) - 1 : g[i] = others[i]
  BY <1>0, GrowIs
<1>4. c = sep <=> d = sep
  BY <1>2, <1>3
<1>5. CASE c = sep
  <2>1. Len(parts) = Len(others)
    BY <1>1, <1>2, <1>3, <1>4, <1>5
  <2>2. \A i \in 1 .. Len(parts) : parts[i] = others[i]
    BY <1>2, <1>3, <1>4, <1>5, <2>1
  <2>3. parts = others
    BY <1>1, <2>1, <2>2, SeqEqual
  <2> QED BY <1>4, <1>5, <2>3
<1>6. CASE c # sep
  <2>1. Len(parts) = Len(others)
    BY <1>2, <1>3, <1>4, <1>6
  <2>2. Append(parts[Len(parts)], c) = Append(others[Len(others)], d)
    BY <1>2, <1>3, <1>4, <1>6
  <2>3. parts[Len(parts)] = others[Len(others)] /\ c = d
    <3>1. parts[Len(parts)] \in Seq(C) /\ others[Len(others)] \in Seq(C)
      BY <1>2, <1>3, <1>4, <1>6
    <3> DEFINE l == parts[Len(parts)]
               m == others[Len(others)]
    <3>2. l \in Seq(C) /\ m \in Seq(C) /\ Append(l, c) = Append(m, d)
      BY <2>2, <3>1
    <3> HIDE DEF l, m
    <3>3. l = m /\ c = d
      BY <3>2, AppendInjective
    <3> QED BY <3>3 DEF l, m
  <2>4. ASSUME NEW i \in 1 .. Len(parts) PROVE parts[i] = others[i]
    <3>1. CASE i = Len(parts)
      BY <2>1, <2>3, <3>1
    <3>2. CASE i # Len(parts)
      <4>1. i \in 1 .. Len(parts) - 1 /\ i \in 1 .. Len(others) - 1
        BY <1>1, <2>1, <3>2
      <4> QED BY <1>2, <1>3, <1>4, <1>6, <4>1
    <3> QED BY <3>1, <3>2
  <2>5. parts = others
    BY <1>1, <2>1, <2>4, SeqEqual
  <2> QED BY <2>3, <2>5
<1> QED
  BY <1>5, <1>6

\* At every character there are parts.
LEMMA ReadingParts ==
    ASSUME NEW C, NEW s \in Seq(C), NEW sep, NEW f, Reading(s, sep, Len(s), f)
    PROVE  /\ f[0] = Unread
           /\ \A i \in 1 .. Len(s) : f[i] = Grow(f[i - 1], s[i], sep)
           /\ \A i \in 0 .. Len(s) : f[i] \in Parts(C)
<1> DEFINE n == Len(s)
<1>1. n \in Nat /\ \A i \in 1 .. n : s[i] \in C
  BY LenProperties, ElementOfSeq
<1> HIDE DEF n
<1>2. f[0] = Unread /\ \A i \in 1 .. n : f[i] = Grow(f[i - 1], s[i], sep)
  <2>1. f = [i \in 0 .. n |-> IF i = 0 THEN Unread ELSE Grow(f[i - 1], s[i], sep)]
    BY DEF Reading, n
  <2>2. 0 \in 0 .. n /\ \A i \in 1 .. n : i \in 0 .. n /\ i # 0
    BY <1>1
  <2> QED BY <2>1, <2>2
<1>3. Unread \in Parts(C)
  <2>1. <<>> \in Seq(C)
    BY EmptySeq
  <2> QED BY <2>1 DEF Parts, Unread
<1> DEFINE T == {i \in Nat : i <= n /\ f[i] \notin Parts(C)}
<1>4. T = {}
  <2> SUFFICES ASSUME T # {} PROVE FALSE
    OBVIOUS
  <2>1. PICK i \in T : \A k \in T : i <= k
    <3> HIDE DEF T
    <3>1. T \subseteq Nat
      BY DEF T
    <3> QED BY <3>1, Least
  <2>2. i \in Nat /\ i <= n /\ f[i] \notin Parts(C)
    BY <2>1
  <2>3. i # 0
    BY <1>2, <1>3, <2>2
  <2>4. i \in 1 .. n /\ i - 1 \in Nat /\ i - 1 <= n /\ ~(i <= i - 1)
    BY <1>1, <2>2, <2>3
  <2>5. i - 1 \notin T
    <3> HIDE DEF T
    <3> QED BY <2>1, <2>4
  <2>6. f[i - 1] \in Parts(C)
    BY <2>4, <2>5
  <2>7. f[i] = Grow(f[i - 1], s[i], sep) /\ s[i] \in C
    BY <1>1, <1>2, <2>4
  <2>8. f[i] \in Parts(C)
    BY <2>6, <2>7, GrowIs
  <2> QED BY <2>2, <2>8
<1>5. ASSUME NEW i \in 0 .. n PROVE f[i] \in Parts(C)
  <2>1. i \in Nat /\ i <= n
    BY <1>1
  <2> QED BY <1>4, <2>1
<1> QED
  BY <1>2, <1>5 DEF n

\* Split gives such parts, and those of nothing are one.
LEMMA SplitParts ==
    ASSUME NEW C, NEW s \in Seq(C), NEW sep
    PROVE  Name!Split(s, sep) \in Parts(C) /\ Name!Split(<<>>, sep) = Unread
<1>1. Len(s) \in Nat /\ Len(s) \in 0 .. Len(s)
  BY LenProperties
<1>2. Name!Split(s, sep) \in Parts(C)
  <2>1. PICK f : Reading(s, sep, Len(s), f) /\ Name!Split(s, sep) = f[Len(s)]
    BY <1>1, SplitIs
  <2> QED BY <1>1, <2>1, ReadingParts
<1>3. Name!Split(<<>>, sep) = Unread
  <2>1. <<>> \in Seq(C) /\ Len(<<>>) = 0
    BY EmptySeq
  <2>2. PICK f : Reading(<<>>, sep, Len(<<>>), f) /\ Name!Split(<<>>, sep) = f[Len(<<>>)]
    BY <2>1, SplitIs
  <2> QED BY <2>1, <2>2, ReadingParts
<1> QED
  BY <1>2, <1>3

\* A text that begins with the separator begins with an empty part.
LEMMA LeadingSeparator ==
    ASSUME NEW C, NEW s \in Seq(C), NEW sep, s # <<>>, s[1] = sep
    PROVE  Name!Split(s, sep)[1] = <<>>
<1> DEFINE n == Len(s)
<1>1. n \in Nat /\ n >= 1 /\ \A i \in 1 .. n : s[i] \in C
  BY LenProperties, EmptySeq, ElementOfSeq
<1>2. PICK f : Reading(s, sep, n, f) /\ Name!Split(s, sep) = f[n]
  BY <1>1, SplitIs
<1>3. /\ f[0] = Unread /\ \A i \in 1 .. n : f[i] = Grow(f[i - 1], s[i], sep)
      /\ \A i \in 0 .. n : f[i] \in Parts(C)
  BY <1>2, ReadingParts
<1> HIDE DEF n
<1> DEFINE Begun(p) == Len(p) >= 2 /\ p[1] = <<>>
           T == {i \in Nat : 1 <= i /\ i <= n /\ ~Begun(f[i])}
<1>4. T = {}
  <2> SUFFICES ASSUME T # {} PROVE FALSE
    OBVIOUS
  <2>1. PICK i \in T : \A k \in T : i <= k
    <3> HIDE DEF T
    <3>1. T \subseteq Nat
      BY DEF T
    <3> QED BY <3>1, Least
  <2>2. i \in Nat /\ 1 <= i /\ i <= n /\ ~Begun(f[i])
    BY <2>1
  <2>3. /\ i \in 1 .. n /\ i - 1 \in 0 .. n /\ i - 1 \in Nat /\ i - 1 <= n /\ ~(i <= i - 1)
        /\ i # 1 => 1 <= i - 1
    BY <1>1, <2>2
  <2>4. f[i] = Grow(f[i - 1], s[i], sep) /\ f[i - 1] \in Parts(C) /\ s[i] \in C
    BY <1>1, <1>3, <2>3
  <2> DEFINE p == f[i - 1]
             g == f[i]
  <2>5. /\ Len(p) \in Nat /\ Len(p) >= 1
        /\ s[i] = sep => /\ Len(g) = Len(p) + 1
                         /\ \A j \in 1 .. Len(p) : g[j] = p[j]
        /\ s[i] # sep => /\ Len(g) = Len(p)
                         /\ \A j \in 1 .. Len(p) - 1 : g[j] = p[j]
    BY <2>4, GrowIs
  <2>6. CASE i = 1
    <3>1. p = Unread /\ Len(Unread) = 1 /\ Unread[1] = <<>> /\ s[i] = sep
      BY <1>3, <2>6 DEF Unread
    <3> HIDE DEF p, g
    <3>2. Len(p) = 1 /\ p[1] = <<>>
      BY <3>1
    <3>3. Len(g) = 2 /\ g[1] = p[1]
      BY <2>5, <3>1, <3>2
    <3>4. Len(g) >= 2 /\ g[1] = <<>>
      BY <3>2, <3>3
    <3> QED BY <2>2, <3>4 DEF g
  <2>7. CASE i # 1
    <3>1. i - 1 \notin T
      <4> HIDE DEF T
      <4> QED BY <2>1, <2>3
    <3>2. Begun(p)
      BY <2>3, <2>7, <3>1
    <3> HIDE DEF p, g
    <3>3. Len(g) >= 2 /\ g[1] = <<>>
      BY <2>5, <3>2
    <3> QED BY <2>2, <3>3 DEF g
  <2> QED BY <2>6, <2>7
<1>5. n \in Nat /\ 1 <= n /\ n <= n
  BY <1>1
<1>6. Begun(f[n])
  BY <1>4, <1>5
<1> QED
  BY <1>2, <1>6

\* Two texts with the same parts are the same text.
LEMMA SplitInjective ==
    ASSUME NEW C, NEW s \in Seq(C), NEW t \in Seq(C), NEW sep,
           Name!Split(s, sep) = Name!Split(t, sep)
    PROVE  s = t
<1> DEFINE n == Len(s)
           m == Len(t)
<1>1. /\ n \in Nat /\ \A i \in 1 .. n : s[i] \in C
      /\ m \in Nat /\ \A i \in 1 .. m : t[i] \in C
  BY LenProperties, ElementOfSeq
<1>2. PICK f : Reading(s, sep, n, f) /\ Name!Split(s, sep) = f[n]
  BY <1>1, SplitIs
<1>3. PICK g : Reading(t, sep, m, g) /\ Name!Split(t, sep) = g[m]
  BY <1>1, SplitIs
<1>4. /\ f[0] = Unread /\ \A i \in 1 .. n : f[i] = Grow(f[i - 1], s[i], sep)
      /\ \A i \in 0 .. n : f[i] \in Parts(C)
  BY <1>2, ReadingParts
<1>5. /\ g[0] = Unread /\ \A i \in 1 .. m : g[i] = Grow(g[i - 1], t[i], sep)
      /\ \A i \in 0 .. m : g[i] \in Parts(C)
  BY <1>3, ReadingParts
<1>6. n = Len(s) /\ m = Len(t)
  OBVIOUS
<1> HIDE DEF n, m
<1>7. ASSUME NEW p \in Parts(C), NEW c \in C PROVE Grow(p, c, sep) # Unread
  <2> DEFINE h == Grow(p, c, sep)
  <2>1. /\ Len(p) \in Nat /\ Len(p) >= 1
        /\ c = sep => Len(h) = Len(p) + 1
        /\ c # sep => h[Len(h)] # <<>>
    BY GrowIs
  <2>2. Len(Unread) = 1 /\ Unread[1] = <<>>
    BY DEF Unread
  <2> HIDE DEF h
  <2>3. CASE c = sep
    <3>1. Len(h) # 1
      BY <2>1, <2>3
    <3> QED BY <2>2, <3>1 DEF h
  <2>4. CASE c # sep
    <3>1. h[Len(h)] # <<>>
      BY <2>1, <2>4
    <3> QED BY <2>2, <3>1 DEF h
  <2> QED BY <2>3, <2>4 DEF h
<1> DEFINE Same(i, j) == i = j /\ \A k \in 1 .. i : s[k] = t[k]
           T == {i \in Nat : i <= n /\ \E j \in 0 .. m : f[i] = g[j] /\ ~Same(i, j)}
<1>8. T = {}
  <2> SUFFICES ASSUME T # {} PROVE FALSE
    OBVIOUS
  <2>1. PICK i \in T : \A k \in T : i <= k
    <3> HIDE DEF T
    <3>1. T \subseteq Nat
      BY DEF T
    <3> QED BY <3>1, Least
  <2>2. i \in Nat /\ i <= n
    BY <2>1
  <2>3. PICK j \in 0 .. m : f[i] = g[j] /\ ~Same(i, j)
    BY <2>1
  <2>4. ASSUME i # 0
        PROVE  /\ i \in 1 .. n /\ i - 1 \in 0 .. n /\ f[i] = Grow(f[i - 1], s[i], sep)
               /\ f[i - 1] \in Parts(C) /\ s[i] \in C
    <3>1. i \in 1 .. n /\ i - 1 \in 0 .. n
      BY <1>1, <2>2, <2>4
    <3> QED BY <1>1, <1>4, <3>1
  <2>5. ASSUME j # 0
        PROVE  /\ j \in 1 .. m /\ j - 1 \in 0 .. m /\ g[j] = Grow(g[j - 1], t[j], sep)
               /\ g[j - 1] \in Parts(C) /\ t[j] \in C
    <3>1. j \in 1 .. m /\ j - 1 \in 0 .. m
      BY <1>1, <2>5
    <3> QED BY <1>1, <1>5, <3>1
  <2>6. CASE i = 0
    <3>1. g[j] = Unread
      BY <1>4, <2>3, <2>6
    <3>2. j = 0
      BY <1>7, <2>5, <3>1
    <3> QED BY <2>3, <2>6, <3>2
  <2>7. CASE j = 0
    <3>1. f[i] = Unread
      BY <1>5, <2>3, <2>7
    <3>2. i = 0
      BY <1>7, <2>4, <3>1
    <3> QED BY <2>3, <2>7, <3>2
  <2>8. CASE i # 0 /\ j # 0
    <3>1. Grow(f[i - 1], s[i], sep) = Grow(g[j - 1], t[j], sep)
      BY <2>3, <2>4, <2>5, <2>8
    <3>2. f[i - 1] = g[j - 1] /\ s[i] = t[j]
      BY <2>4, <2>5, <2>8, <3>1, GrowInjective
    <3>3. i - 1 \notin T
      <4>1. i - 1 \in Nat /\ ~(i <= i - 1)
        BY <2>2, <2>8
      <4> HIDE DEF T
      <4> QED BY <2>1, <4>1
    <3>4. i - 1 \in Nat /\ i - 1 <= n /\ j - 1 \in 0 .. m
      <4>1. j - 1 \in 0 .. m
        BY <2>5, <2>8
      <4>2. i - 1 \in Nat /\ i - 1 <= n
        BY <1>1, <2>2, <2>8
      <4> QED BY <4>1, <4>2
    <3>5. Same(i - 1, j - 1)
      BY <3>2, <3>3, <3>4
    <3>6. i = j
      BY <2>2, <3>4, <3>5
    <3>7. ASSUME NEW k \in 1 .. i PROVE s[k] = t[k]
      <4>1. CASE k = i
        BY <3>2, <3>6, <4>1
      <4>2. CASE k # i
        <5>1. k \in 1 .. i - 1
          BY <2>2, <4>2
        <5> QED BY <3>5, <5>1
      <4> QED BY <4>1, <4>2
    <3> QED BY <2>3, <3>6, <3>7
  <2> QED BY <2>6, <2>7, <2>8
<1>9. n \in Nat /\ n <= n /\ m \in 0 .. m
  BY <1>1
<1>10. Same(n, m)
  BY <1>2, <1>3, <1>8, <1>9
<1> QED
  BY <1>6, <1>10, SeqEqual

-----------------------------------------------------------------------------
(* Walking *)

\* f is where each of the first n parts leads.
Going(parts, start, n, f) ==
    f = [i \in 0 .. n |-> IF i = 0 THEN start ELSE Name!Enter(f[i - 1], parts[i])]

\* The recursion of Walk has a solution,
LEMMA GoingExists ==
    ASSUME NEW parts, NEW start, NEW n \in Nat
    PROVE  \E f : Going(parts, start, n, f)
<1> DEFINE T == {k \in Nat : ~ \E f : Going(parts, start, k, f)}
<1> SUFFICES ASSUME T # {} PROVE FALSE
  OBVIOUS
<1>1. PICK m \in T : \A k \in T : m <= k
  <2> HIDE DEF T
  <2>1. T \subseteq Nat
    BY DEF T
  <2> QED BY <2>1, Least
<1>2. CASE m = 0
  <2>1. Going(parts, start, 0, [i \in 0 .. 0 |-> start])
    BY DEF Going
  <2> QED BY <1>2, <2>1
<1>3. CASE m > 0
  <2>1. m - 1 \in Nat /\ m - 1 \notin T
    BY <1>1, <1>3
  <2>2. PICK f : Going(parts, start, m - 1, f)
    BY <2>1
  <2> DEFINE g == [i \in 0 .. m |-> IF i = 0 THEN start ELSE Name!Enter(f[i - 1], parts[i])]
  <2>3. \A i \in 0 .. m - 1 : g[i] = f[i]
    BY <2>1, <2>2 DEF Going
  <2>4. Going(parts, start, m, g)
    <3>1. \A i \in 0 .. m : i # 0 => i - 1 \in 0 .. m - 1
      BY <1>3
    <3> QED BY <2>3, <3>1 DEF Going
  <2> QED BY <2>1, <2>4
<1> QED
  BY <1>1, <1>2, <1>3

\* and Walk is its last element.
LEMMA WalkIs ==
    ASSUME NEW path, NEW parts, parts = Name!Split(path, "/"), Len(parts) \in Nat
    PROVE  \E f : Going(parts, Name!Join(path), Len(parts), f)
                  /\ Name!Walk(path) = f[Len(parts)]
<1> DEFINE f == CHOOSE f : Going(parts, Name!Join(path), Len(parts), f)
<1>1. \E g : Going(parts, Name!Join(path), Len(parts), g)
  BY GoingExists
<1>2. Going(parts, Name!Join(path), Len(parts), f)
  BY <1>1
<1>3. Name!Walk(path) = f[Len(parts)]
  BY DEF Name!Walk, Going
<1> QED
  BY <1>2, <1>3

\* A place is a component after another below the root.
Steps(C) == {"root"} \cup Seq(C)
Under(C, parts, n, place) ==
    /\ place \in Seq(Steps(C)) /\ Len(place) = n + 1 /\ place[1] = "root"
    /\ \A i \in 1 .. n : place[i + 1] = parts[i]

\* Parts that are names, not empty and no dots, each lead a component further down.
LEMMA NamesLeadDown ==
    ASSUME NEW C, NEW parts \in Seq(Seq(C)), NEW f, Going(parts, <<"root">>, Len(parts), f),
           \A i \in 1 .. Len(parts) : parts[i] # <<>> /\ parts[i] \notin Name!Dots
    PROVE  Under(C, parts, Len(parts), f[Len(parts)])
<1> DEFINE n == Len(parts)
<1>1. n \in Nat /\ \A i \in 1 .. n : parts[i] \in Seq(C)
  BY LenProperties, ElementOfSeq
<1>2. \A i \in 1 .. n : parts[i] # <<>> /\ parts[i] \notin Name!Dots
  OBVIOUS
<1> HIDE DEF n
<1>3. f[0] = <<"root">> /\ \A i \in 1 .. n : f[i] = Name!Enter(f[i - 1], parts[i])
  <2>1. f = [i \in 0 .. n |-> IF i = 0 THEN <<"root">> ELSE Name!Enter(f[i - 1], parts[i])]
    BY DEF Going, n
  <2>2. 0 \in 0 .. n /\ \A i \in 1 .. n : i \in 0 .. n /\ i # 0
    BY <1>1
  <2> QED BY <2>1, <2>2
<1>4. \A i \in 1 .. n : f[i] = Append(f[i - 1], parts[i])
  BY <1>2, <1>3 DEF Name!Enter, Name!Dots
<1> DEFINE T == {i \in Nat : i <= n /\ ~Under(C, parts, i, f[i])}
<1>5. T = {}
  <2> SUFFICES ASSUME T # {} PROVE FALSE
    OBVIOUS
  <2>1. PICK i \in T : \A k \in T : i <= k
    <3> HIDE DEF T
    <3>1. T \subseteq Nat
      BY DEF T
    <3> QED BY <3>1, Least
  <2>2. i \in Nat /\ i <= n /\ ~Under(C, parts, i, f[i])
    BY <2>1
  <2>3. CASE i = 0
    <3>1. <<"root">> \in Seq(Steps(C)) /\ Len(<<"root">>) = 1 /\ <<"root">>[1] = "root"
      BY DEF Steps
    <3>2. Under(C, parts, 0, <<"root">>)
      BY <3>1 DEF Under
    <3> QED BY <1>3, <2>2, <2>3, <3>2
  <2>4. CASE i # 0
    <3>1. i \in 1 .. n /\ i - 1 \in Nat /\ i - 1 <= n /\ ~(i <= i - 1)
      BY <1>1, <2>2, <2>4
    <3>2. i - 1 \notin T
      <4> HIDE DEF T
      <4> QED BY <2>1, <3>1
    <3> DEFINE p == f[i - 1]
    <3>3. Under(C, parts, i - 1, p)
      BY <3>1, <3>2
    <3>4. f[i] = Append(p, parts[i]) /\ parts[i] \in Steps(C)
      BY <1>1, <1>4, <3>1 DEF Steps
    <3> HIDE DEF p
    <3>5. p \in Seq(Steps(C)) /\ Len(p) = i /\ p[1] = "root"
          /\ \A k \in 1 .. i - 1 : p[k + 1] = parts[k]
      BY <2>2, <3>3 DEF Under
    <3> DEFINE q == Append(p, parts[i])
    <3>6. /\ q \in Seq(Steps(C)) /\ Len(q) = i + 1
          /\ \A k \in 1 .. i : q[k] = p[k]
          /\ q[i + 1] = parts[i]
      BY <3>4, <3>5, AppendProperties
    <3> HIDE DEF q
    <3>7. ASSUME NEW k \in 1 .. i PROVE q[k + 1] = parts[k]
      <4>1. CASE k = i
        BY <3>6, <4>1
      <4>2. CASE k # i
        <5>1. k \in 1 .. i - 1 /\ k + 1 \in 1 .. i
          BY <3>1, <4>2
        <5> QED BY <3>5, <3>6, <5>1
      <4> QED BY <4>1, <4>2
    <3>8. q[1] = "root"
      BY <3>1, <3>5, <3>6
    <3>9. Under(C, parts, i, q)
      BY <3>6, <3>7, <3>8 DEF Under
    <3> QED BY <2>2, <3>4, <3>9 DEF q
  <2> QED BY <2>3, <2>4
<1>6. n \in Nat /\ n <= n
  BY <1>1
<1> QED
  BY <1>5, <1>6 DEF n

-----------------------------------------------------------------------------
(* Paths that are accepted *)

\* An accepted path names a component at a time, and they lead down from the root.
LEMMA AcceptedLeads ==
    ASSUME NEW C, NEW path \in Seq(C), Name!ValidPath(path),
           NEW rel, rel = Name!Relative(path), NEW parts, parts = Name!Split(rel, "/")
    PROVE  /\ rel \in Seq(C) /\ parts \in Seq(Seq(C)) /\ Len(parts) \in Nat /\ Len(parts) >= 1
           /\ rel = <<>> => Name!Resolve(path) = <<"root">>
           /\ rel # <<>> => rel[1] # "/" /\ Under(C, parts, Len(parts), Name!Resolve(path))
<1>1. rel \in Seq(C)
  <2>1. CASE path # <<>> /\ path[1] = "/"
    <3>1. rel = Tail(path)
      BY <2>1 DEF Name!Relative
    <3> QED BY <2>1, <3>1, HeadTailProperties
  <2>2. CASE ~(path # <<>> /\ path[1] = "/")
    <3>1. rel = path
      BY <2>2 DEF Name!Relative
    <3> QED BY <3>1
  <2> QED BY <2>1, <2>2
<1>2. parts \in Parts(C) /\ Name!Split(<<>>, "/") = Unread
  BY <1>1, SplitParts
<1>3. parts \in Seq(Seq(C)) /\ Len(parts) \in Nat /\ Len(parts) >= 1
  BY <1>2, LenProperties DEF Parts
<1>4. Name!Resolve(path) = Name!Walk(rel)
  BY DEF Name!Resolve
<1>5. PICK f : Going(parts, Name!Join(rel), Len(parts), f) /\ Name!Walk(rel) = f[Len(parts)]
  BY <1>3, WalkIs
<1>6. ASSUME rel = <<>> PROVE Name!Resolve(path) = <<"root">>
  <2>1. Name!Join(rel) = <<"root">>
    BY <1>6 DEF Name!Join
  <2>2. parts = Unread /\ Len(parts) = 1 /\ parts[1] = <<>>
    BY <1>2, <1>6 DEF Unread
  <2>3. f = [i \in 0 .. 1 |-> IF i = 0 THEN <<"root">> ELSE Name!Enter(f[i - 1], parts[i])]
    BY <1>5, <2>1, <2>2 DEF Going
  <2>4. f[0] = <<"root">> /\ f[1] = Name!Enter(f[0], parts[1])
    <3>1. 0 \in 0 .. 1 /\ 1 \in 0 .. 1 /\ 1 - 1 = 0
      OBVIOUS
    <3> QED BY <2>3, <3>1
  <2>5. f[1] = <<"root">>
    BY <2>2, <2>4 DEF Name!Enter
  <2> QED BY <1>4, <1>5, <2>2, <2>5
<1>7. ASSUME rel # <<>>
      PROVE  rel[1] # "/" /\ Under(C, parts, Len(parts), Name!Resolve(path))
  <2>1. \A p \in Name!ToSet(parts) : Name!ValidComponent(p) /\ p \notin Name!Dots
    BY <1>7 DEF Name!ValidPath
  <2>2. ASSUME NEW i \in 1 .. Len(parts)
        PROVE  parts[i] # <<>> /\ parts[i] \notin Name!Dots
    <3>1. i \in DOMAIN parts
      BY <1>3, LenProperties
    <3>2. parts[i] \in Name!ToSet(parts)
      BY <3>1 DEF Name!ToSet
    <3> QED BY <2>1, <3>2 DEF Name!ValidComponent
  <2>3. 1 \in 1 .. Len(parts)
    BY <1>3
  <2>4. rel[1] # "/"
    BY <1>1, <1>7, <2>2, <2>3, LeadingSeparator
  <2>5. Name!Join(rel) = <<"root">>
    BY <2>4 DEF Name!Join
  <2>6. Under(C, parts, Len(parts), f[Len(parts)])
    BY <1>3, <1>5, <2>2, <2>5, NamesLeadDown
  <2> QED BY <1>4, <1>5, <2>4, <2>6
<1> QED
  BY <1>1, <1>3, <1>6, <1>7

\* The logical form has the same relative path.
LEMMA LogicalRelative ==
    ASSUME NEW C, "/" \in C, NEW path, NEW rel \in Seq(C), rel = Name!Relative(path)
    PROVE  /\ Name!LogicalPath(path) # <<>>
           /\ Name!Relative(Name!LogicalPath(path)) = rel
<1> DEFINE q == <<"/">> \o rel
<1>1. q = Name!LogicalPath(path)
  BY DEF Name!LogicalPath
<1>2. <<"/">> \in Seq(C) /\ Len(<<"/">>) = 1 /\ <<"/">>[1] = "/"
  OBVIOUS
<1>3. Len(rel) \in Nat
  BY LenProperties
<1>4. /\ q \in Seq(C) /\ Len(q) = 1 + Len(rel)
      /\ \A i \in 1 .. 1 + Len(rel) : q[i] = IF i <= 1 THEN <<"/">>[i] ELSE rel[i - 1]
  BY <1>2, ConcatProperties
<1> HIDE DEF q
<1>5. q # <<>> /\ q[1] = "/"
  <2>1. Len(q) # 0 /\ 1 \in 1 .. 1 + Len(rel)
    BY <1>3, <1>4
  <2>2. q # <<>>
    BY <2>1
  <2> QED BY <1>2, <1>4, <2>1, <2>2
<1>6. /\ Tail(q) \in Seq(C) /\ Len(Tail(q)) = Len(rel)
      /\ \A i \in 1 .. Len(rel) : Tail(q)[i] = q[i + 1]
  <2>1. Len(Tail(q)) = Len(q) - 1 /\ Tail(q) \in Seq(C)
        /\ \A i \in 1 .. Len(Tail(q)) : Tail(q)[i] = q[i + 1]
    BY <1>4, <1>5, HeadTailProperties
  <2> QED BY <1>3, <1>4, <2>1
<1>7. ASSUME NEW i \in 1 .. Len(rel) PROVE Tail(q)[i] = rel[i]
  <2>1. i + 1 \in 1 .. 1 + Len(rel) /\ ~(i + 1 <= 1) /\ (i + 1) - 1 = i
    BY <1>3
  <2>2. q[i + 1] = rel[i]
    BY <1>4, <2>1
  <2> QED BY <1>6, <2>2
<1>8. Tail(q) = rel
  BY <1>6, <1>7, SeqEqual
<1>9. Name!Relative(q) = rel
  BY <1>5, <1>8 DEF Name!Relative
<1> QED
  BY <1>1, <1>5, <1>9

\* DatastoreLayout::resolve, for a path of any length over any characters: content
\* cannot escape the root, and a path and its logical form lead to one place.
THEOREM PathsStayInside ==
    ASSUME NEW Character, "/" \in Character, NEW path \in Seq(Character)
    PROVE  Name!StaysInside(path)
<1> SUFFICES ASSUME Name!ValidPath(path)
             PROVE  /\ Name!Resolve(path) # <<>> /\ Name!Resolve(path)[1] = "root"
                    /\ Name!Relative(path) # <<>> =>
                          Len(Name!Resolve(path)) = Len(Name!Split(Name!Relative(path), "/")) + 1
                    /\ Name!LogicalPath(Name!LogicalPath(path)) = Name!LogicalPath(path)
                    /\ Name!ValidPath(Name!LogicalPath(path))
                    /\ Name!Resolve(Name!LogicalPath(path)) = Name!Resolve(path)
  BY DEF Name!StaysInside
<1> DEFINE rel == Name!Relative(path)
           parts == Name!Split(rel, "/")
           place == Name!Resolve(path)
           logical == Name!LogicalPath(path)
<1>1. /\ rel \in Seq(Character) /\ Len(parts) \in Nat /\ Len(parts) >= 1
      /\ rel = <<>> => place = <<"root">>
      /\ rel # <<>> => Under(Character, parts, Len(parts), place)
  BY AcceptedLeads
<1>2. logical # <<>> /\ Name!Relative(logical) = rel
  BY <1>1, LogicalRelative
<1>3. Name!LogicalPath(logical) = logical
  BY <1>2 DEF Name!LogicalPath
<1>4. Name!ValidPath(logical)
  BY <1>2 DEF Name!ValidPath
<1>5. Name!Resolve(logical) = place
  BY <1>2 DEF Name!Resolve
<1>6. CASE rel = <<>>
  <2>1. place # <<>> /\ place[1] = "root"
    BY <1>1, <1>6
  <2> QED BY <1>3, <1>4, <1>5, <1>6, <2>1
<1>7. CASE rel # <<>>
  <2>1. Len(place) = Len(parts) + 1 /\ place[1] = "root"
    BY <1>1, <1>7 DEF Under
  <2>2. Len(place) # 0
    BY <1>1, <2>1
  <2>3. place # <<>>
    BY <2>2
  <2> QED BY <1>3, <1>4, <1>5, <2>1, <2>3
<1> QED
  BY <1>6, <1>7

\* Where letter case is told apart, two accepted paths lead to one place just when
\* their logical forms are the same: logical_path tells assets apart as the file
\* system does, which the spelling of a path does not.
THEOREM OnePlaceOnePath ==
    ASSUME NEW Character, "/" \in Character,
           NEW path \in Seq(Character), NEW other \in Seq(Character)
    PROVE  Name!OneForm(path, other)
<1> SUFFICES ASSUME Name!ValidPath(path), Name!ValidPath(other)
             PROVE  Name!Resolve(path) = Name!Resolve(other)
                       <=> Name!LogicalPath(path) = Name!LogicalPath(other)
  BY DEF Name!OneForm
<1> DEFINE rel == Name!Relative(path)
           parts == Name!Split(rel, "/")
           place == Name!Resolve(path)
           relO == Name!Relative(other)
           partsO == Name!Split(relO, "/")
           placeO == Name!Resolve(other)
<1>1. /\ rel \in Seq(Character) /\ parts \in Seq(Seq(Character))
      /\ Len(parts) \in Nat /\ Len(parts) >= 1
      /\ rel = <<>> => place = <<"root">>
      /\ rel # <<>> => Under(Character, parts, Len(parts), place)
  BY AcceptedLeads
<1>2. /\ relO \in Seq(Character) /\ partsO \in Seq(Seq(Character))
      /\ Len(partsO) \in Nat /\ Len(partsO) >= 1
      /\ relO = <<>> => placeO = <<"root">>
      /\ relO # <<>> => Under(Character, partsO, Len(partsO), placeO)
  BY AcceptedLeads
<1>3. ASSUME Name!LogicalPath(path) = Name!LogicalPath(other) PROVE place = placeO
  <2>1. Name!Relative(Name!LogicalPath(path)) = rel
    BY <1>1, LogicalRelative
  <2>2. Name!Relative(Name!LogicalPath(other)) = relO
    BY <1>2, LogicalRelative
  <2>3. rel = relO
    BY <1>3, <2>1, <2>2
  <2> QED BY <2>3 DEF Name!Resolve
<1>4. ASSUME place = placeO PROVE Name!LogicalPath(path) = Name!LogicalPath(other)
  <2> SUFFICES rel = relO
    BY DEF Name!LogicalPath
  <2> HIDE DEF rel, place, relO, placeO, parts, partsO
  <2>1. rel = <<>> => Len(place) = 1
    BY <1>1
  <2>2. relO = <<>> => Len(placeO) = 1
    BY <1>2
  <2>3. rel # <<>> => Len(place) = Len(parts) + 1 /\ Len(place) # 1
    <3>1. rel # <<>> => Len(place) = Len(parts) + 1
      BY <1>1 DEF Under
    <3>2. Len(parts) + 1 # 1
      <4>1. Len(parts) \in Nat /\ Len(parts) >= 1
        BY <1>1
      <4> QED BY <4>1
    <3> QED BY <3>1, <3>2
  <2>4. relO # <<>> => Len(placeO) = Len(partsO) + 1 /\ Len(placeO) # 1
    <3>1. relO # <<>> => Len(placeO) = Len(partsO) + 1
      BY <1>2 DEF Under
    <3>2. Len(partsO) + 1 # 1
      <4>1. Len(partsO) \in Nat /\ Len(partsO) >= 1
        BY <1>2
      <4> QED BY <4>1
    <3> QED BY <3>1, <3>2
  <2>5. CASE rel = <<>>
    <3>1. relO = <<>>
      BY <1>4, <2>1, <2>4, <2>5
    <3> QED BY <2>5, <3>1
  <2>6. CASE rel # <<>>
    <3>1. relO # <<>>
      BY <1>4, <2>2, <2>3, <2>6
    <3>2. Len(parts) = Len(partsO)
      BY <1>1, <1>2, <1>4, <2>3, <2>4, <2>6, <3>1
    <3>3. \A i \in 1 .. Len(parts) : parts[i] = place[i + 1]
      BY <1>1, <2>6 DEF Under
    <3>4. \A i \in 1 .. Len(partsO) : partsO[i] = placeO[i + 1]
      BY <1>2, <3>1 DEF Under
    <3>5. \A i \in 1 .. Len(parts) : parts[i] = partsO[i]
      BY <1>4, <3>2, <3>3, <3>4
    <3>6. parts = partsO
      BY <1>1, <1>2, <3>2, <3>5, SeqEqual
    <3>7. Name!Split(rel, "/") = Name!Split(relO, "/")
      BY <3>6 DEF parts, partsO
    <3> QED BY <1>1, <1>2, <3>7, SplitInjective
  <2> QED BY <2>5, <2>6
<1> QED
  BY <1>3, <1>4

\* Trimming the slashes of an accepted path leaves what it is relative to the root.
LEMMA TrimmedIs ==
    ASSUME NEW C, NEW path \in Seq(C), NEW rel, rel = Name!Relative(path),
           rel # <<>>, rel[1] # "/"
    PROVE  Name!TrimStart(path) = rel
<1> DEFINE others == {i \in DOMAIN path : path[i] # "/"}
           m == CHOOSE i \in others : \A j \in others : i <= j
<1>1. Len(path) \in Nat /\ DOMAIN path = 1 .. Len(path)
  BY LenProperties
<1>2. CASE path # <<>> /\ path[1] = "/"
  <2>1. rel = Tail(path)
    BY <1>2 DEF Name!Relative
  <2>2. /\ Tail(path) \in Seq(C) /\ Len(Tail(path)) = Len(path) - 1
        /\ \A i \in 1 .. Len(Tail(path)) : Tail(path)[i] = path[i + 1]
    BY <1>2, HeadTailProperties
  <2>3. Len(rel) # 0
    BY <2>1, <2>2, EmptySeq
  <2>4. 1 \in 1 .. Len(Tail(path)) /\ 2 \in 1 .. Len(path)
    BY <1>1, <2>1, <2>2, <2>3
  <2>5. path[2] # "/"
    <3>1. Tail(path)[1] = path[1 + 1]
      BY <2>2, <2>4
    <3> QED BY <2>1, <3>1
  <2>6. 2 \in others /\ \A j \in others : j \in Nat /\ j # 1 /\ j # 0
    BY <1>1, <1>2, <2>4, <2>5
  <2>7. \A j \in others : 2 <= j
    BY <2>6
  <2> HIDE DEF others
  <2>8. m = 2
    <3>1. m \in others /\ \A j \in others : m <= j
      BY <2>6, <2>7
    <3>2. m \in Nat /\ m <= 2 /\ 2 <= m
      BY <2>6, <2>7, <3>1
    <3> QED BY <3>2
  <2>9. others # {}
    BY <2>6
  <2> HIDE DEF m
  <2>10. Name!TrimStart(path) = SubSeq(path, m, Len(path))
    BY <2>9 DEF Name!TrimStart, others, m
  <2> QED BY <1>2, <2>1, <2>8, <2>10, TailIsSubSeq
<1>3. CASE ~(path # <<>> /\ path[1] = "/")
  <2>1. rel = path
    BY <1>3 DEF Name!Relative
  <2>2. Len(path) # 0
    BY <2>1, EmptySeq
  <2>3. 1 \in others /\ \A j \in others : j \in Nat /\ 1 <= j
    BY <1>1, <2>1, <2>2
  <2> HIDE DEF others
  <2>4. m = 1
    <3>1. m \in others /\ \A j \in others : m <= j
      BY <2>3
    <3> QED BY <2>3, <3>1
  <2>5. others # {}
    BY <2>3
  <2> HIDE DEF m
  <2>6. Name!TrimStart(path) = SubSeq(path, m, Len(path))
    BY <2>5 DEF Name!TrimStart, others, m
  <2> QED BY <2>1, <2>4, <2>6, SubSeqFull
<1> QED
  BY <1>2, <1>3

\* reserved_tree_of, for any trees: what is looked at is the component that the
\* path enters below the root, however the path is spelled.
THEOREM ReservedAlwaysFenced ==
    ASSUME NEW Character, NEW path \in Seq(Character), NEW trees
    PROVE  Name!Fenced(path, trees)
<1> SUFFICES ASSUME Name!ValidPath(path), Len(Name!Resolve(path)) > 1
             PROVE  Name!ReservedTreeOf(path, trees) # {}
                       <=> \E t \in trees : Name!GuardEq(Name!Resolve(path)[2], t)
  BY DEF Name!Fenced
<1> DEFINE rel == Name!Relative(path)
           parts == Name!Split(rel, "/")
           place == Name!Resolve(path)
<1>1. /\ Len(parts) \in Nat /\ Len(parts) >= 1
      /\ rel = <<>> => place = <<"root">>
      /\ rel # <<>> => rel[1] # "/" /\ Under(Character, parts, Len(parts), place)
  BY AcceptedLeads
<1>2. rel # <<>>
  <2> SUFFICES ASSUME rel = <<>> PROVE FALSE
    OBVIOUS
  <2>1. place = <<"root">>
    BY <1>1
  <2>2. Len(<<"root">>) > 1
    BY <2>1
  <2> QED BY <2>2
<1>3. Name!TrimStart(path) = rel
  BY <1>1, <1>2, TrimmedIs
<1>4. place[2] = parts[1]
  <2>1. 1 \in 1 .. Len(parts) /\ 1 + 1 = 2
    BY <1>1
  <2>2. place[1 + 1] = parts[1]
    BY <1>1, <1>2, <2>1 DEF Under
  <2> QED BY <2>1, <2>2
<1>5. Name!ReservedTreeOf(path, trees) = {t \in trees : Name!GuardEq(parts[1], t)}
  BY <1>3 DEF Name!ReservedTreeOf
<1> QED
  BY <1>4, <1>5
=============================================================================
