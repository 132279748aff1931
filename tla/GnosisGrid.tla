----------------------------- MODULE GnosisGrid -----------------------------
(***************************************************************************)
(* GnosisGlobalGrid of src/tiling/gnosis_grid.rs.  Unlike Cdb1Grid, the    *)
(* coalescence of a row is a matter of its level, so a row of children can *)
(* be coalesced twice as much as its parent.                               *)
(*                                                                         *)
(* `Scale` is 2^n by level n.  A side is a whole number of units, as the   *)
(* f64 degrees of the code are exact at the points of its grids; rounding  *)
(* of other points is not modelled.                                        *)
(***************************************************************************)
EXTENDS Integers

CONSTANTS
    LevelMax,  \* LEVEL_MAX, 28
    Scale,     \* 2^n, by level n
    RowField, ColField  \* what the row and column fields of a key hold, 2^29 and 2^30

LevelAssumption ==
    /\ LevelMax \in Nat
    /\ Scale \in [0 .. LevelMax -> Nat] /\ Scale[0] = 1
    /\ \A n \in 0 .. LevelMax - 1 : Scale[n + 1] = 2 * Scale[n]
KeyAssumption ==
    RowField = 2 * Scale[LevelMax] /\ ColField = 4 * Scale[LevelMax]

Side(n) == 2 * Scale[LevelMax - n]       \* h
Height(n) == 2 * Scale[n]
Width(n) == 4 * Scale[n]

\* factor_for_row: the bit length of d is the least b with d < 2^b; no d is as
\* large as 2^n.
PoleDistance(n, row) == IF row < Height(n) - 1 - row THEN row ELSE Height(n) - 1 - row
BitLength(n, d) == CHOOSE b \in 0 .. n : d < Scale[b] /\ \A k \in 0 .. b - 1 : Scale[k] <= d
Factor(n, row) ==
    LET b == BitLength(n, PoleDistance(n, row))
    IN  IF b >= n THEN 1 ELSE Scale[n - b]

\* address: in range, and aligned.
Address(t) ==
    /\ t.level \in 0 .. LevelMax
    /\ t.row \in 0 .. Height(t.level) - 1 /\ t.col \in 0 .. Width(t.level) - 1
    /\ t.col % Factor(t.level, t.row) = 0

Snapped(n, row, col) ==
    [level |-> n, row |-> row, col |-> col - (col % Factor(n, row))]

\* tile_at: south- and west-inclusive, the edges of the earth clamped.
TileAt(p, n) ==
    LET up == (p.north + Side(n) - 1) \div Side(n)     \* the ceiling
        east == p.east \div Side(n)
    IN  Snapped(n, IF up = 0 THEN 0 ELSE up - 1,
                   IF east > Width(n) - 1 THEN Width(n) - 1 ELSE east)

TileExtent(t) ==
    LET side == Side(t.level)
    IN  [north |-> t.row * side, south |-> (t.row + 1) * side,
         west |-> t.col * side, east |-> (t.col + Factor(t.level, t.row)) * side]

Parent(t) == Snapped(t.level - 1, t.row \div 2, t.col \div 2)

\* Mutant: the child rows step by the factor of the parent.
ChildrenQuartered(t) ==
    [level : {t.level + 1}, row : {2 * t.row, 2 * t.row + 1},
     col : {2 * t.col, 2 * t.col + Factor(t.level, t.row)}]
Children(t) ==
    LET n == t.level + 1
        Columns(row) ==
            {c \in 2 * t.col .. 2 * t.col + 2 * Factor(t.level, t.row) - 1 :
                (c - 2 * t.col) % Factor(n, row) = 0}
    IN  UNION {[level : {n}, row : {row}, col : Columns(row)] :
                   row \in {2 * t.row, 2 * t.row + 1}}

\* key and from_key: the level above the row above the column.
Key(t) == (t.level * RowField + t.row) * ColField + t.col
FromKey(key) ==
    LET t == [level |-> key \div (RowField * ColField),
              row |-> (key \div ColField) % RowField, col |-> key % ColField]
    IN  IF Address(t) THEN {t} ELSE {}
=============================================================================
