------------------------------ MODULE Geometry -------------------------------
(***************************************************************************)
(* The geometry values of src/geometry.rs: the typed z and m geometries,   *)
(* whose constructors check lengths, collections of any depth, the planar  *)
(* view and its inverse, and the check against a datastore's units and CRS.*)
(*                                                                         *)
(* A geometry is [type, coords, extra, members]: coords has the number of  *)
(* coordinates of each of its lists (the exterior ring first), and extra   *)
(* the number of z or m values that go with each.  The values themselves   *)
(* are copied and compared nowhere in this file.                           *)
(***************************************************************************)
EXTENDS Naturals, Sequences, SequencesExt

CONSTANTS Absent, Z, M, Unit   \* no declaration; the two families; a unit of measure

-----------------------------------------------------------------------------
(* The type codes of section 7.6 *)

Named(name, code) == [name |-> name, code |-> code]
Plain ==
    <<Named("Geometry", 0), Named("Point", 1), Named("Linestring", 2), Named("Polygon", 3),
      Named("MultiPoint", 4), Named("MultiLinestring", 5), Named("MultiPolygon", 6),
      Named("GeometryCollection", 7)>>
Typed ==
    <<Named("Point Z", 1001), Named("Linestring Z", 1002), Named("Polygon Z", 1003),
      Named("MultiPoint Z", 1004), Named("Point M", 2001), Named("Linestring M", 2002),
      Named("Polygon M", 2003), Named("MultiPoint M", 2004)>>
Extensions ==
    <<Named("MULTICURVE", 11), Named("MULTISURFACE", 12), Named("CURVE", 13),
      Named("SURFACE", 14)>>
AllCodes == Plain \o Typed \o Extensions

IsExtension(entry) == Contains(Extensions, entry)
CodeFor(name) == (SelectSeq(AllCodes, LAMBDA e : e.name = name))[1].code
\* The first entry with the code, or Absent: UnknownGeometryCode.
FromCode(code) ==
    LET found == SelectSeq(AllCodes, LAMBDA e : e.code = code)
    IN  IF found = <<>> THEN Absent ELSE found[1].name

-----------------------------------------------------------------------------
(* Values *)

Value(type, coords, extra) ==
    [type |-> type, coords |-> coords, extra |-> extra, members |-> <<>>]
Collection(members) ==
    [type |-> "GeometryCollection", coords |-> <<>>, extra |-> <<>>, members |-> members]

ZTypes == {"Point Z", "Linestring Z", "Polygon Z", "MultiPoint Z"}
MTypes == {"Point M", "Linestring M", "Polygon M", "MultiPoint M"}
PlanarTypes ==
    {"Point", "Linestring", "Polygon", "MultiPoint", "MultiLinestring", "MultiPolygon"}

\* The z and m constructors: one value for each coordinate of each list.
Built(type, coords, extra) ==
    IF Len(coords) = Len(extra) /\ \A i \in DOMAIN coords : coords[i] = extra[i]
    THEN Value(type, coords, extra) ELSE Absent

RECURSIVE HasZ(_), HasM(_)
\* Mutant: a collection is asked for its own type only.
OwnZ(geometry) == geometry.type \in ZTypes
HasZ(geometry) ==
    \/ geometry.type \in ZTypes
    \/ \E i \in DOMAIN geometry.members : HasZ(geometry.members[i])
HasM(geometry) ==
    \/ geometry.type \in MTypes
    \/ \E i \in DOMAIN geometry.members : HasM(geometry.members[i])

\* The planar view, of the types of the geo-types library, or Absent where a
\* value would be dropped.
Planar(type, coords, members) == [planar |-> type, coords |-> coords, members |-> members]
RECURSIVE IntoXy(_), FromXy(_)
IntoXy(geometry) ==
    IF geometry.type \in PlanarTypes THEN Planar(geometry.type, geometry.coords, <<>>)
    ELSE IF geometry.type # "GeometryCollection" THEN Absent
    ELSE LET views == [i \in DOMAIN geometry.members |-> IntoXy(geometry.members[i])]
         IN  IF \E i \in DOMAIN views : views[i] = Absent THEN Absent
             ELSE Planar("GeometryCollection", <<>>, views)

\* From a value of the library; its conveniences become table types.
FromXy(view) ==
    CASE view.planar = "GeometryCollection" ->
             Collection([i \in DOMAIN view.members |-> FromXy(view.members[i])])
      [] view.planar = "Line" -> Value("Linestring", <<2>>, <<>>)
      [] view.planar = "Rect" -> Value("Polygon", <<5>>, <<>>)
      [] view.planar = "Triangle" -> Value("Polygon", <<4>>, <<>>)
      [] OTHER -> Value(view.planar, view.coords, <<>>)

-----------------------------------------------------------------------------
(* A geometry in its datastore *)

\* authority_ids_match: without regard to the case of the letters.
IdsMatch(one, other) == one.id = other.id

\* The first violation of a geometry in a context [crs, zUnit, mUnit], with an
\* optional claim of a CRS.
ValidateIn(geometry, context, claim) ==
    IF claim # Absent /\ (context.crs = Absent \/ ~ IdsMatch(context.crs, claim))
    THEN "ForeignCrs"
    ELSE IF HasZ(geometry) /\ context.zUnit = Absent THEN "MissingZUom"
    ELSE IF HasM(geometry) /\ context.mUnit = Absent THEN "MissingMUom"
    ELSE "ok"

\* The context of a datastore: the global record always has a unit.
FromDatastore(authority, resource) ==
    [crs |-> authority, zUnit |-> Unit, mUnit |-> IF resource = Absent THEN Absent ELSE resource.uom]

-----------------------------------------------------------------------------
(* Properties of a geometry *)

RECURSIVE Leaves(_)
Leaves(geometry) ==
    IF geometry.type = "GeometryCollection"
    THEN FlattenSeq([i \in DOMAIN geometry.members |-> Leaves(geometry.members[i])])
    ELSE <<geometry>>

\* "Coordinates are never dropped silently": the planar view is there exactly
\* when no part at any depth has z or m values, and leads back to the geometry.
NothingDropped(geometry) ==
    LET view == IntoXy(geometry)
        planar == \A i \in DOMAIN Leaves(geometry) : Leaves(geometry)[i].extra = <<>>
    IN  /\ planar <=> (view # Absent)
        /\ planar => FromXy(view) = geometry

\* A collection meets the requirements on units exactly when each part of it,
\* at any depth, meets them alone, and each z or m list goes with its own list
\* of coordinates.
MembersJudged(geometry, context, claim) ==
    LET leaves == Leaves(geometry)
    IN  /\ \A i \in DOMAIN leaves :
               leaves[i].extra # <<>> =>
                   /\ Len(leaves[i].extra) = Len(leaves[i].coords)
                   /\ leaves[i].extra = leaves[i].coords
        /\ leaves # <<>> =>
               ((ValidateIn(geometry, context, claim) = "ok")
                   <=> \A i \in DOMAIN leaves : ValidateIn(leaves[i], context, claim) = "ok")

\* Codes and names of the table stand for each other.
CodesReadBack ==
    \A i \in DOMAIN AllCodes :
        /\ FromCode(AllCodes[i].code) = AllCodes[i].name
        /\ IsExtension(AllCodes[i]) <=> AllCodes[i].code \in 11 .. 14
=============================================================================
