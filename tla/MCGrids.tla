------------------------------ MODULE MCGrids -------------------------------
(***************************************************************************)
(* TLC instance of the two global grids.                                   *)
(*                                                                         *)
(* CDB 1.x: levels -1 to 1, every geocell row and its inner lines from     *)
(* pole to pole, the columns nearest to longitude -180 and +180 (12        *)
(* degrees make one tile of the widest zone).                              *)
(*                                                                         *)
(* GNOSIS: levels 0 to 4; every grid line and the middle between any two,  *)
(* from pole to pole in latitude and in longitude over the first quarter   *)
(* of the turn and at its end.                                             *)
(***************************************************************************)
EXTENDS TileWalk

MCLodMin == -1
MCPer == [lod \in LodMin .. LodMax |-> IF lod <= 0 THEN 1 ELSE 2 ^ lod]
MCScale == [n \in 0 .. LevelMax |-> 2 ^ n]

MCNorths == [g \in Grid |-> 0 .. Turn[g] \div 2]
MCEasts ==
    ByGrid({e \in 0 .. 13 * Degree + 1 : e % 3 # 2} \cup (360 * Degree - 2 .. 360 * Degree),
           (0 .. Gnosis!Side(0) + 1) \cup (4 * Gnosis!Side(0) - 2 .. 4 * Gnosis!Side(0)))

\* Bits above the levels there are, too: the level field of the code, of 5
\* bits, holds 29 to 31.
MCKeys == 0 .. (LevelMax + 2) * RowField * ColField - 1
=============================================================================
