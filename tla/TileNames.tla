------------------------------ MODULE TileNames ------------------------------
(***************************************************************************)
(* The name grammar of CDB 1.x: cdb_migrator/src/grammar.rs.               *)
(*                                                                         *)
(* A name is a sequence of characters.  Parsing gives a set, empty when    *)
(* the name is refused, else holding the one thing it names.  Geocells are *)
(* validated as in Cdb1Grid.                                               *)
(***************************************************************************)
EXTENDS Cdb1Grid, FiniteSets, SequencesExt

CONSTANT U32Max     \* the largest number of a U or an R

DigitOf == [c \in {"0", "1", "2", "3", "4", "5", "6", "7", "8", "9"} |->
    CHOOSE n \in 0 .. 9 : <<"0", "1", "2", "3", "4", "5", "6", "7", "8", "9">>[n + 1] = c]
LowerOf ==
    [N |-> "n", S |-> "s", E |-> "e", W |-> "w", D |-> "d", T |-> "t", L |-> "l", C |-> "c",
     U |-> "u", R |-> "r", X |-> "x"]

Fold(name) == [i \in DOMAIN name |-> IF name[i] \in DOMAIN LowerOf THEN LowerOf[name[i]] ELSE name[i]]
IsDigits(s) == \A i \in DOMAIN s : s[i] \in DOMAIN DigitOf
Number(s) == FoldLeft(LAMBDA n, c : 10 * n + DigitOf[c], 0, s)
Cut(s, from) == SubSeq(s, from, Len(s))

\* Decimal text, padded to a width.
DigitChar == <<"0", "1", "2", "3", "4", "5", "6", "7", "8", "9">>
Padded(n, width) ==
    [i \in 1 .. width |-> DigitChar[((n \div 10 ^ (width - i)) % 10) + 1]]
Decimal(n) ==
    LET widths == {w \in 1 .. 10 : w = 1 \/ n >= 10 ^ (w - 1)}
    IN  Padded(n, CHOOSE w \in widths : \A v \in widths : v <= w)

\* str::split, split_once and rsplit_once at a character.
Places(s, c) == {i \in DOMAIN s : s[i] = c}
Parts(s, c) ==
    LET ends == Places(s, c) \cup {Len(s) + 1}
        End(i) == CHOOSE e \in ends : e >= i /\ \A f \in ends : f >= i => e <= f
        starts == SelectSeq([i \in 1 .. Len(s) + 1 |-> i], LAMBDA i : i = 1 \/ s[i - 1] = c)
    IN  [k \in DOMAIN starts |-> SubSeq(s, starts[k], End(starts[k]) - 1)]
FirstOf(S) == CHOOSE i \in S : \A j \in S : i <= j
LastOf(S) == CHOOSE i \in S : \A j \in S : j <= i

-----------------------------------------------------------------------------
(* Directories                                                             *)

\* parse_component: a prefix in either case and a fixed number of digits.
Component(s, width, positive, negative) ==
    IF /\ Len(s) = width + 1 /\ Fold(s)[1] \in {positive, negative} /\ IsDigits(Tail(s))
       /\ ~(Fold(s)[1] = negative /\ Number(Tail(s)) = 0)     \* negative zero
    THEN {IF Fold(s)[1] = negative THEN -Number(Tail(s)) ELSE Number(Tail(s))}
    ELSE {}
\* GeocellId::from_dirs
GeocellFromDirs(latDir, lonDir) ==
    {cell \in [lat : Component(latDir, 2, "n", "s"), lon : Component(lonDir, 3, "e", "w")] :
        Nameable([lat |-> cell.lat, lon |-> cell.lon, lod |-> 0, uref |-> 0, rref |-> 0])}
LatDirName(cell) ==
    IF cell.lat >= 0 THEN <<"N">> \o Padded(cell.lat, 2) ELSE <<"S">> \o Padded(-cell.lat, 2)
LonDirName(cell) ==
    IF cell.lon >= 0 THEN <<"E">> \o Padded(cell.lon, 3) ELSE <<"W">> \o Padded(-cell.lon, 3)

\* Lod1x::parse: Lnn up to 23, LCnn from 1 to 10.
LodOf(token) ==
    LET folded == Fold(token)
        negative == Len(token) >= 2 /\ SubSeq(folded, 1, 2) = <<"l", "c">>
        digits == Cut(token, IF negative THEN 3 ELSE 2)
    IN  IF /\ token # <<>> /\ folded[1] = "l" /\ Len(digits) = 2 /\ IsDigits(digits)
           /\ Number(digits) \in (IF negative THEN 1 .. 10 ELSE 0 .. 23)
        THEN {IF negative THEN -Number(digits) ELSE Number(digits)}
        ELSE {}
LodToken(lod) == IF lod < 0 THEN <<"L", "C">> \o Padded(-lod, 2) ELSE <<"L">> \o Padded(lod, 2)
LodDirName(lod) == IF lod < 0 THEN <<"L", "C">> ELSE <<"L">> \o Padded(lod, 2)

\* DatasetDir::parse and dir_name: the label is kept as it is.
DatasetDir(dir) ==
    IF Places(dir, "_") = {} THEN {}
    ELSE LET cut == FirstOf(Places(dir, "_"))
         IN  IF cut = 4 /\ IsDigits(SubSeq(dir, 1, 3)) /\ Len(dir) > cut
             THEN {[code |-> Number(SubSeq(dir, 1, 3)), name |-> Cut(dir, cut + 1)]}
             ELSE {}
DatasetDirName(dataset) == Padded(dataset.code, 3) \o <<"_">> \o dataset.name

-----------------------------------------------------------------------------
(* File names: LatLon_Dnnn_Snnn_Tnnn_LOD_Un_Rn.ext                         *)

\* parse_fixed_field and parse_variable_field.
FixedField(part, prefix) ==
    IF part # <<>> /\ Fold(part)[1] = prefix /\ Len(part) = 4 /\ IsDigits(Tail(part))
    THEN {Number(Tail(part))}
    ELSE {}
VariableField(part, prefix) ==
    IF Len(part) > 1 /\ Fold(part)[1] = prefix /\ IsDigits(Tail(part)) /\ Number(Tail(part)) <= U32Max
    THEN {Number(Tail(part))}
    ELSE {}
AlphanumericAscii == DOMAIN DigitOf \cup DOMAIN LowerOf \cup {LowerOf[c] : c \in DOMAIN LowerOf}

Field == {"geocell", "dataset", "cs1", "cs2", "lod", "uref", "rref", "extension"}
Fields(stem, extension) ==
    LET part == Parts(stem, "_")
    IN  IF Len(part) # 7 \/ Len(part[1]) # 7 THEN {}
        ELSE [geocell : GeocellFromDirs(SubSeq(part[1], 1, 3), Cut(part[1], 4)),
              dataset : FixedField(part[2], "d"), cs1 : FixedField(part[3], "s"),
              cs2 : FixedField(part[4], "t"), lod : LodOf(part[5]),
              uref : VariableField(part[6], "u"), rref : VariableField(part[7], "r"),
              extension : {Fold(extension)}]
\* TileFileName::parse and canonical.
ParseTileFile(file) ==
    IF Places(file, ".") = {} THEN {}
    ELSE LET dot == LastOf(Places(file, "."))
             extension == Cut(file, dot + 1)
         IN  IF extension # <<>> /\ \A i \in DOMAIN extension : extension[i] \in AlphanumericAscii
             THEN Fields(SubSeq(file, 1, dot - 1), extension)
             ELSE {}
Canonical(tile) ==
    LatDirName(tile.geocell) \o LonDirName(tile.geocell)
        \o <<"_", "D">> \o Padded(tile.dataset, 3) \o <<"_", "S">> \o Padded(tile.cs1, 3)
        \o <<"_", "T">> \o Padded(tile.cs2, 3) \o <<"_">> \o LodToken(tile.lod)
        \o <<"_", "U">> \o Decimal(tile.uref) \o <<"_", "R">> \o Decimal(tile.rref)
        \o <<".">> \o tile.extension

-----------------------------------------------------------------------------
\* What a migrated file is found by: the migrator writes the folded name, and
\* folded, canonical or as it came, the name stands for one and the same tile.
\* A canonical name is a fixed point, of the length the grammar gives it.
TileReadsBack(file) ==
    /\ ParseTileFile(Fold(file)) = ParseTileFile(file)
    /\ \A tile \in ParseTileFile(file) :
          /\ ParseTileFile(Canonical(tile)) = {tile}
          /\ LodOf(LodToken(tile.lod)) = {tile.lod}
          /\ GeocellFromDirs(LatDirName(tile.geocell), LonDirName(tile.geocell)) = {tile.geocell}
          /\ Len(Canonical(tile)) <= Len(file)

\* A dataset directory keeps the label it came with, so that two labels of one
\* code stay two directories.
DirReadsBack(dir) == \A dataset \in DatasetDir(dir) : DatasetDirName(dataset) = dir
=============================================================================
