------------------------------ MODULE Cdb1Grid ------------------------------
(***************************************************************************)
(* Cdb1GlobalGrid of src/tiling/cdb1_grid.rs, and the migrator's addresses *)
(* in it.                                                                  *)
(*                                                                         *)
(* The code computes with f64 degrees; `Per` tiles to a degree makes       *)
(* every side a whole number of units, so the divisions here are those of  *)
(* the code wherever a point is a multiple of a power of two of a degree.  *)
(* Rounding of other points is not modelled.                               *)
(***************************************************************************)
EXTENDS Integers, Sequences

CONSTANTS
    LodMin, LodMax,  \* LOD_MIN and LOD_MAX, -10 and 23
    Per              \* tiles to a degree of latitude, by level

ASSUME LodAssumption ==
    /\ LodMin \in Int /\ LodMax \in Int /\ LodMin < 0 /\ LodMax > 0
    /\ Per \in [LodMin .. LodMax -> Nat]
    /\ \A lod \in LodMin .. 0 : Per[lod] = 1
    /\ \A lod \in 0 .. LodMax - 1 : Per[lod + 1] = 2 * Per[lod]

Degree == 2 * Per[LodMax]
Side(lod) == Degree \div Per[lod]     \* h

Height(lod) == 180 * Per[lod]
Width(lod) == 360 * Per[lod]

\* ZONE_BANDS: the first bound above the equator-most latitude of a geocell.
ZoneBands == << <<50, 1>>, <<70, 2>>, <<75, 3>>, <<80, 4>>, <<89, 6>>, <<90, 12>> >>
ZoneWidth(a) ==
    LET first == CHOOSE i \in 1 .. 6 : /\ a < ZoneBands[i][1]
                                       /\ \A j \in 1 .. i - 1 : ~(a < ZoneBands[j][1])
    IN  ZoneBands[first][2]

\* zone_width_for_row: geocells are counted from the north.
Geocell(lod, row) == row \div Per[lod]
Factor(lod, row) ==
    LET g == Geocell(lod, row) IN ZoneWidth(IF g < 90 THEN 89 - g ELSE g - 90)

\* address: in range, and aligned.
Address(t) ==
    /\ t.level \in LodMin .. LodMax
    /\ t.row \in 0 .. Height(t.level) - 1 /\ t.col \in 0 .. Width(t.level) - 1
    /\ t.col % Factor(t.level, t.row) = 0

Snapped(lod, row, col) ==
    [level |-> lod, row |-> row, col |-> col - (col % Factor(lod, row))]
AtMost(n, bound) == IF n > bound THEN bound ELSE n
AtLeast(n, bound) == IF n < bound THEN bound ELSE n

\* tile_at: south- and west-inclusive, the edges of the earth clamped.
\* Mutant: a point on a horizontal line falls in the tile south of it.
TileAtNorthInclusive(p, lod) ==
    Snapped(lod, AtMost(p.north \div Side(lod), Height(lod) - 1),
                 AtMost(p.east \div Side(lod), Width(lod) - 1))
TileAt(p, lod) ==
    LET up == (p.north + Side(lod) - 1) \div Side(lod)     \* the ceiling
    IN  Snapped(lod, AtMost(AtLeast(up - 1, 0), Height(lod) - 1),
                     AtMost(p.east \div Side(lod), Width(lod) - 1))

TileExtent(t) ==
    LET side == Side(t.level)
    IN  [north |-> t.row * side, south |-> (t.row + 1) * side,
         west |-> t.col * side,
         east |-> (t.col + Factor(t.level, t.row)) * side]

Parent(t) ==
    IF t.level <= 0 THEN [t EXCEPT !.level = @ - 1]
    ELSE Snapped(t.level - 1, t.row \div 2, t.col \div 2)

Children(t) ==
    IF t.level < 0 THEN {[t EXCEPT !.level = @ + 1]}
    ELSE [level : {t.level + 1}, row : {2 * t.row, 2 * t.row + 1},
          col : {2 * t.col, 2 * t.col + Factor(t.level, t.row)}]

-----------------------------------------------------------------------------
(* The migrator's map between the tile names of CDB 1.x, which count within  *)
(* a geocell, and this grid: cdb_migrator/src/address.rs and the GeocellId   *)
(* of cdb_migrator/src/grammar.rs, with a zone table of its own.             *)

\* Table 3-29, by the equatorward edge of the cell.
GrammarBands == << <<50, 1>>, <<70, 2>>, <<75, 3>>, <<80, 4>>, <<89, 6>>, <<90, 12>> >>
\* Mutant: southern cells classify by their poleward edge.
CellWidthPoleward(lat) ==
    LET a == IF lat >= 0 THEN lat ELSE -lat
        fits == {i \in 1 .. 6 : a < GrammarBands[i][1]}
    IN  IF fits = {} THEN 12
        ELSE GrammarBands[CHOOSE i \in fits : \A j \in fits : i <= j][2]
CellWidth(lat) ==
    LET a == IF lat >= 0 THEN lat ELSE -lat - 1
        fits == {i \in 1 .. 6 : a < GrammarBands[i][1]}
    IN  IF fits = {} THEN 12
        ELSE GrammarBands[CHOOSE i \in fits : \A j \in fits : i <= j][2]

\* GeocellId::validate, and the range of UREF and RREF.
Nameable(f) ==
    /\ f.lat \in -90 .. 89 /\ f.lon \in -180 .. 179
    /\ f.lon % CellWidth(f.lat) = 0
    /\ f.uref \in 0 .. Per[f.lod] - 1 /\ f.rref \in 0 .. Per[f.lod] - 1

\* global_address: the tile at the middle of the named tile.
GlobalAddress(f) ==
    LET half == Side(f.lod) \div 2
    IN  TileAt([north |-> (90 - f.lat) * Degree - (2 * f.uref + 1) * half,
                east |-> (f.lon + 180) * Degree
                             + (2 * f.rref + 1) * half * CellWidth(f.lat)],
               f.lod)

\* per_geocell_address.
PerGeocell(t) ==
    LET per == Per[t.level]
        lat == 89 - t.row \div per
        columns == per * CellWidth(lat)
    IN  [lat |-> lat, lon |-> (t.col \div columns) * CellWidth(lat) - 180,
         lod |-> t.level, uref |-> (per - 1) - (t.row % per),
         rref |-> (t.col % columns) \div CellWidth(lat)]
=============================================================================
