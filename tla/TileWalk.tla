------------------------------ MODULE TileWalk ------------------------------
(***************************************************************************)
(* A client that follows points of the earth through the levels of a       *)
(* global grid: it asks for the tile at a point, steps to the parent and   *)
(* to the child that owns the point.  The grids are Cdb1GlobalGrid and     *)
(* GnosisGlobalGrid of src/tiling, the former with the names that the      *)
(* migrator gives its tiles.                                               *)
(*                                                                         *)
(* Coordinates are integers: `north` is the distance of a point from the   *)
(* north pole and `east` its distance from longitude -180, in units of     *)
(* half the side of a nominal tile of the finest level.                    *)
(***************************************************************************)
EXTENDS Cdb1Grid

CONSTANTS
    LevelMax, Scale, RowField, ColField,  \* of GnosisGrid
    Norths, Easts,  \* the coordinates of the points asked for, by grid
    Keys            \* the keys asked for

Gnosis == INSTANCE GnosisGrid

Grid == {"cdb1", "gnosis"}
ByGrid(cdb1, gnosis) == [g \in Grid |-> IF g = "cdb1" THEN cdb1 ELSE gnosis]

Coarsest == ByGrid(LodMin, 0)
Finest == ByGrid(LodMax, LevelMax)
Turn == ByGrid(360 * Degree, 4 * Gnosis!Side(0))  \* the earth's circumference

TileAtPoint(g, p, level) ==
    IF g = "cdb1" THEN TileAt(p, level) ELSE Gnosis!TileAt(p, level)
ParentOf(g, t) == IF g = "cdb1" THEN Parent(t) ELSE Gnosis!Parent(t)
ChildrenOf(g, t) == IF g = "cdb1" THEN Children(t) ELSE Gnosis!Children(t)
ExtentOf(g, t) == IF g = "cdb1" THEN TileExtent(t) ELSE Gnosis!TileExtent(t)
Accepted(g, t) == IF g = "cdb1" THEN Address(t) ELSE Gnosis!Address(t)

ASSUME GnosisAssumption == Gnosis!LevelAssumption /\ Gnosis!KeyAssumption
ASSUME PointAssumption ==
    /\ \A g \in Grid : /\ Norths[g] \subseteq 0 .. Turn[g] \div 2
                       /\ Easts[g] \subseteq 0 .. Turn[g]
    /\ Keys \subseteq Nat

VARIABLES
    grid,   \* the grid walked
    point,  \* the point followed
    tile    \* the tile at hand

vars == <<grid, point, tile>>

\* The half-open extent [west, east) x [south, north); the edges of the earth
\* that no tile would own belong to the last tile.
Owns(t, p) ==
    LET box == ExtentOf(grid, t)
    IN  /\ \/ box.north < p.north
           \/ p.north = 0 /\ box.north = 0
        /\ p.north <= box.south
        /\ box.west <= p.east
        /\ \/ p.east < box.east
           \/ p.east = Turn[grid] /\ box.east = Turn[grid]

Init ==
    /\ grid \in Grid
    /\ point \in [north : Norths[grid], east : Easts[grid]]
    /\ tile = TileAtPoint(grid, point, Coarsest[grid])

\* The child that owns the point.
Descend ==
    /\ tile.level < Finest[grid]
    /\ \E child \in ChildrenOf(grid, tile) : Owns(child, point) /\ tile' = child
    /\ UNCHANGED <<grid, point>>
Ascend ==
    /\ tile.level > Coarsest[grid]
    /\ tile' = ParentOf(grid, tile)
    /\ UNCHANGED <<grid, point>>

Next == Descend \/ Ascend

Spec == Init /\ [][Next]_vars

-----------------------------------------------------------------------------
(* Properties *)

\* Walking level by level and asking for the tile directly agree, at every
\* point, the poles, the antimeridian and tile corners included; and the tile
\* owns the point.
WalkAgrees == tile = TileAtPoint(grid, point, tile.level) /\ Owns(tile, point)

Apart(a, b) ==
    \/ a.south <= b.north \/ b.south <= a.north
    \/ a.east <= b.west \/ b.east <= a.west

\* The children of a tile partition it: they are addresses in range and aligned
\* to the coalescence factor of their rows, no two overlap, none leaves the
\* tile, each has the tile for its parent, and one of them, no more, owns the
\* point that the tile owns.
ChildrenPartition ==
    tile.level < Finest[grid] =>
        LET children == ChildrenOf(grid, tile)
            box == ExtentOf(grid, tile)
        IN  /\ \A child \in children :
                  LET c == ExtentOf(grid, child)
                  IN  /\ Accepted(grid, child)
                      /\ box.north <= c.north /\ c.south <= box.south
                      /\ box.west <= c.west /\ c.east <= box.east
                      /\ ParentOf(grid, child) = tile
            /\ \A a, b \in children : a # b => Apart(ExtentOf(grid, a), ExtentOf(grid, b))
            /\ \E child \in children :
                  \A other \in children : Owns(other, point) <=> other = child

\* The name of another tile of the geocell.
Renamed(f, u, r) ==
    [lat |-> f.lat, lon |-> f.lon, lod |-> f.lod, uref |-> u, rref |-> r]

\* What the migrator's address check relies on: every tile of the CDB 1.x grid
\* has a valid CDB 1.x name, which leads back to the tile; and every name in
\* the tile's geocell leads to a tile of its own, which has that name, so that
\* no two source files share a global address.
NamesOneToOne ==
    grid = "cdb1" =>
        /\ Nameable(PerGeocell(tile)) /\ GlobalAddress(PerGeocell(tile)) = tile
        /\ \A u, r \in 0 .. Per[tile.level] - 1 :
              LET name == Renamed(PerGeocell(tile), u, r)
              IN  PerGeocell(GlobalAddress(name)) = name

\* "the inverse of key": unpacking the key of a GNOSIS tile gives the tile.
\* "Rejects encodings naming no real tile": a key that unpacks (asked once) is
\* the key of the tile it unpacks to, and that tile is an address.
KeysOneToOne ==
    grid = "gnosis" =>
        /\ Gnosis!FromKey(Gnosis!Key(tile)) = {tile}
        /\ tile.level = 0 /\ point.north = 0 /\ point.east = 0 =>
              \A key \in Keys : \A t \in Gnosis!FromKey(key) :
                  Gnosis!Address(t) /\ Gnosis!Key(t) = key

\* No two tiles of a grid go by one name or key, in either direction.
NamedOneToOne == NamesOneToOne /\ KeysOneToOne
=============================================================================
