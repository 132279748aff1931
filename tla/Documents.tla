----------------------------- MODULE Documents -------------------------------
(***************************************************************************)
(* The texts, names and records that come from outside, one kind at a      *)
(* time, and what is promised of whatever is accepted of them.             *)
(*                                                                         *)
(* A behaviour takes a document of one kind and alters it, an edit at a    *)
(* time, the way a hand-written file or a caller's value may differ from   *)
(* one that the program wrote; every document on the way is judged.        *)
(***************************************************************************)
EXTENDS Integers, Sequences, FiniteSets, SequencesExt

CONSTANTS
    Start,           \* the documents to begin with, [kind, input, left]: left edits may follow
    Token,           \* WKT tokens
    Character,       \* characters of paths and of tile names, by kind
    Trees,           \* the directories a path may not enter, reserved by the profile
    DatePart,        \* what may stand on a side of the slash of an interval
    Leaf, RenameTarget,    \* files of a source, and where an operator may send them
    ControlEvent,    \* events of a control file
    Path, RecordText, Date, Float,  \* values of the fields of a declaration
    IdText,          \* texts of an attribute's id
    Argument,        \* arguments of a command line, by kind
    NamePart,       \* components and extensions a descriptor may name
    Absent, NaN, One, Zero, Z, M, Unit
VARIABLES kind, input, left

vars == <<kind, input, left>>

-----------------------------------------------------------------------------
(* The components, each with the alphabet of its documents *)

Wkt == INSTANCE WktCrs WITH
    Keywords <- {"GEOGCRS", "PROJCRS", "VERTCRS", "COMPOUNDCRS", "COORDINATEMETADATA",
                 "DYNAMIC", "FRAMEEPOCH", "EPOCH", "AXIS", "LENGTHUNIT", "INF"},
    Texts <- {"'m'", "'ft'"}, MaxDepth <- 4,
    Value <- ("1" :> 1000) @@ ("2017.53" :> 2017530) @@ ("2017.531" :> 2017531)
                 @@ ("9999.996" :> 9999996) @@ ("10000" :> 10000000),
    Overflow <- ("1e999" :> "INF") @@ ("-1e999" :> "bad")
Name == INSTANCE Names
Record == INSTANCE MetadataRecords
Tile == INSTANCE TileNames WITH
    LodMin <- -1, LodMax <- 1, Per <- [lod \in -1 .. 1 |-> IF lod = 1 THEN 2 ELSE 1],
    U32Max <- 199
Container == INSTANCE GpkgContainer
Control == INSTANCE SourceControls
Geo == INSTANCE Geometry

\* Two tiles of one geocell, in the words of their paths.
TileOf ==
    [t1 |-> [geocell |-> "c1", dataset |-> 1, lod |-> 0, uref |-> 0],
     t6 |-> [geocell |-> "c1", dataset |-> 6, lod |-> 0, uref |-> 0]]
Plan == INSTANCE MigrationPlan WITH
    TileOf <- TileOf, CellOf <- (<<"n32", "w118">> :> "c1"),
    CodeOf <- [d001 |-> 1, d006 |-> 6], LodDirOf <- [l00 |-> 0], UrefOf <- [u0 |-> 0],
    Addressed <- {"t1", "t6"},
    Portable <- {"tiles", "n32", "w118", "d001", "d006", "l00", "u0", "t1", "t6", "gtmodel",
                 "extras", "source_metadata", "metadata", "versions", "f", "g",
                 "resource_00000000.json"},
    Payloads <- {"resource_00000000.json", "f"}, Dotted <- {}

White == {" "}
Controls == {"NUL"}
Decimal(n) == <<ToString(n)>>
Attribute == INSTANCE Attribution WITH
    Alpha <- {"a", "b"}, SchemeRest <- {"1", "-"}, Decimal <- Decimal
Manifest == INSTANCE ManifestInput WITH
    Alpha <- {"a", "b"}, SchemeRest <- {"1", "-"}, Decimal <- Decimal

Line == INSTANCE CommandLines WITH None <- Absent
CrsReads(tokens) == Wkt!FromWkt(tokens) # <<>>
CheckedModel(model) ==
    LET read == Attribute!ValidateDocument(Attribute!FileNameFor("json"),
                                           Attribute!ModelToJson(model),
                                           Attribute!ModelToXml(model))
    IN  IF read.result = "ok" THEN read.model ELSE Absent
GeogCrs == <<"GEOGCRS", "[", "'m'", "]">>
LanguageReads(tag) == Record!ValidLanguageTag(tag)
Descriptor == INSTANCE LintDescriptor WITH
    CrsFile <- [beside |-> GeogCrs, empty |-> <<>>], CrsAccepts <- CrsReads,
    LanguageValid <- LanguageReads, Checked <- CheckedModel, GpkgBuilt <- TRUE

-----------------------------------------------------------------------------
(* Edits *)

Inserted(s, items) == {InsertAt(s, i, c) : i \in 1 .. Len(s) + 1, c \in items}
Removed(s) == {RemoveAt(s, i) : i \in DOMAIN s}
Replaced(s, items) == {ReplaceAt(s, i, c) : i \in DOMAIN s, c \in items}

\* One field of a declaration set to another value.
FieldEdits(d) ==
    LET record(field, values) == {[d EXCEPT !.record[field] = v] : v \in values}
        domain(field, values) ==
            IF d.record.domainSet = Absent THEN {}
            ELSE {[d EXCEPT !.record.domainSet[field] = v] : v \in values}
    IN  {[d EXCEPT !.path = p] : p \in Path}
        \cup {[d EXCEPT !.coverage = ~@], [d EXCEPT !.measured = ~@], [d EXCEPT !.faces = ~@]}
        \cup record("ID", RecordText) \cup record("title", RecordText) \cup record("description", RecordText)
        \cup record("keywords", {<<>>} \cup {<<w>> : w \in RecordText})
        \cup record("created", Date)
        \cup record("uom", {Absent, "unit"}) \cup record("windingOrder", {Absent, "ccw"})
        \cup record("associations", {<<>>, <<"good">>, <<"bad">>})
        \cup record("extent",
                    {Absent} \cup [spatial : {Absent} \cup [{"west", "south", "east", "north"} -> Float],
                                   temporal : Date])
        \cup record("domainSet", {Absent, Manifest!NewDomain("m"), Manifest!NewDomain(" ")})
        \cup domain("precision", Float) \cup domain("offset", Float)
        \cup domain("dataNull", Float \cup {Absent})
        \cup domain("encoding", Manifest!Encodings)
        \cup domain("corner", {Absent, "upper-left-corner"})
        \cup domain("field", {"Height", "Depth"}) \cup domain("quantity", {Absent, "depth"})
AttributeEdits(model) ==
    IF model = Absent THEN {}
    ELSE UNION {{[model EXCEPT !.attributes[i].id = t], [model EXCEPT !.attributes[i].name = t]} :
                    i \in DOMAIN model.attributes, t \in IdText}
         \cup {[model EXCEPT !.uri = u] :
                   u \in IdText \cup {Absent, <<"a", ":", "b">>, <<"a", ":", "b", " ">>,
                                     <<"1", ":", "b">>}}
         \cup {[model EXCEPT !.attributes = <<>>]}

RECURSIVE TextEdits(_)
\* One edit of a JSON text: a pair repeated, renamed, dropped or made null, or
\* an edit inside it.
TextEdits(value) ==
    CASE value.json = "object" ->
             UNION {{[value EXCEPT !.pairs = Append(@, value.pairs[i])],
                     [value EXCEPT !.pairs[i].key = "odd"],
                     [value EXCEPT !.pairs = RemoveAt(@, i)],
                     [value EXCEPT !.pairs[i].value = Manifest!Null]}
                    \cup {[value EXCEPT !.pairs[i].value = v] :
                              v \in TextEdits(value.pairs[i].value)} : i \in DOMAIN value.pairs}
      [] value.json = "array" ->
             {[value EXCEPT !.items = Append(@, @[i])] : i \in DOMAIN value.items}
                 \cup UNION {{[value EXCEPT !.items[i] = v] : v \in TextEdits(value.items[i])} :
                                 i \in DOMAIN value.items}
      [] OTHER -> {}

\* One field of a descriptor set to another value.
DescriptorEdits(d) ==
    LET set(field, values) == {[d EXCEPT ![field] = v] : v \in values}
    IN  set("known_keys", {FALSE}) \cup set("name", {<<>>, <<" ">>, <<"a", "NUL">>})
        \cup UNION {set(field, Descriptor!Accepted[field] \cup {"odd"}) :
                        field \in {"metadata_encoding", "uom", "case_rule", "tiling_scheme"}}
        \cup set("resource_metadata_dir", NamePart) \cup set("root_folder_name", NamePart)
        \cup set("reserved_names", {d.reserved_names \cup {c} : c \in NamePart})
        \cup set("known_extensions", {d.known_extensions \cup {c} : c \in NamePart})
        \cup set("storage_crs_wkt", {Absent, GeogCrs, <<"VERTCRS", "[", "'m'", "]">>})
        \cup set("storage_crs_wkt_path", {Absent, "beside", "empty", "missing"})
        \cup set("language", {<<>>, <<[letters |-> 2, digits |-> 0, other |-> 0]>>,
                               <<[letters |-> 2, digits |-> 0, other |-> 1]>>})
        \cup set("conformance_classes",
                 {[keyword |-> k, tokens |-> {}] : k \in {"all", "mandatory", "most"}}
                 \cup {[keyword |-> Absent, tokens |-> t] : t \in {{"crs"}, {"crs", "cores"}}})
        \cup set("attribute_model", {[uri |-> Absent, attributes |-> a] :
                     a \in {<<>>} \cup {<<[id |-> t, name |-> <<"a">>, description |-> <<"a">>],
                                         [id |-> <<"1">>, name |-> <<"a">>, description |-> <<"a">>]>> :
                                           t \in IdText}})

\* One part more: a geometry of its own, or a collection around what is there.
GeometryEdits(parts) ==
    {Append(parts, g) :
        g \in {Geo!Value("Point", <<1>>, <<>>), Geo!Value("Point M", <<1>>, <<1>>)}
              \cup ({Geo!Built("Polygon Z", <<4, 5>>, extra) :
                        extra \in {<<4>>, <<4, 4>>, <<4, 5>>}} \ {Absent})}
    \cup {SubSeq(parts, 1, n) \o <<Geo!Collection(SubSeq(parts, n + 1, Len(parts)))>> :
              n \in 0 .. Len(parts)}

\* A source file more, in the order of the listing, or a rename.
PlanEdits(source) ==
    LET last == IF source.leaves = <<>> THEN 0
                ELSE CHOOSE i \in DOMAIN Leaf : Leaf[i] = Last(source.leaves)
        declare(leaf) ==
            IF Plan!Bucket(Plan!Classify(leaf)) = "extra" THEN {}
            ELSE {[source |-> leaf.path, id |-> leaf.path, valid |-> TRUE, coverage |-> TRUE]}
    IN  {[source EXCEPT !.leaves = Append(@, Leaf[i]), !.declared = @ \cup declare(Leaf[i])] :
            i \in {j \in DOMAIN Leaf : j > last /\ Len(source.leaves) < 3
                       /\ \A k \in DOMAIN source.leaves :
                              ~IsPrefix(source.leaves[k].path, Leaf[j].path)}}
        \cup {[source EXCEPT !.renames = (leaf.path :> target) @@ @] :
                  leaf \in {x \in ToSet(source.leaves) : x.path \notin DOMAIN source.renames
                                /\ Cardinality(DOMAIN source.renames) < 2},
                  target \in RenameTarget}

\* A control file's event more, or less, or a second file whose name folds to
\* the same.
ControlEdits(source) ==
    LET file(events, spelling) == [type |-> "regular", events |-> events, spelling |-> spelling]
        Edited(f) == {[f EXCEPT !.events = e] :
                         e \in Inserted(f.events, ControlEvent) \cup Removed(f.events)}
    IN  UNION {UNION {{(source \ {d}) \cup {[d EXCEPT !.version = (@ \ {f}) \cup {g}]} :
                           g \in Edited(f)} : f \in d.version}
               \cup UNION {{(source \ {d}) \cup {[d EXCEPT !.configuration = (@ \ {f}) \cup {g}]} :
                           g \in Edited(f)} : f \in d.configuration}
               \cup {(source \ {d}) \cup {[d EXCEPT !.version = {}]},
                     (source \ {d}) \cup {[d EXCEPT !.version = @ \cup {file(<<>>, "VERSION.XML")}]},
                     source \cup {[d EXCEPT !.spelling = "METADATA"]}} : d \in source}

Edits ==
    CASE kind = "wkt" -> Inserted(input, Token) \cup Removed(input)
      [] kind \in {"tokens", "path"} ->
             {Append(input, c) : c \in IF kind = "path" THEN Character["path"] ELSE Token}
      [] kind = "interval" -> {Append(input, p) : p \in DatePart}
      [] kind = "record" ->
             UNION {{Record!Set(input, e, v) : v \in Record!Settable(e)} :
                        e \in {x \in Record!GlobalElement \ {"update", "temporal", "tilingScheme"} :
                                   input[x] = "absent"}}
      [] kind \in {"tile", "directory"} ->
             Inserted(input, Character["tile"]) \cup Removed(input)
                 \cup Replaced(input, Character["tile"])
      [] kind = "container" ->
             {[container |-> a.to, applied |-> input.applied \cup {[facet |-> a.facet,
                                                                    result |-> a.result]}] :
                 a \in {x \in Container!Alterations(input.container) :
                            \A y \in input.applied : y.facet # x.facet}}
      [] kind = "source" -> PlanEdits(input)
      [] kind = "controls" -> ControlEdits(input)
      [] kind = "declaration" ->
             {[resources |-> <<d>>, model |-> m] :
                 <<d, m>> \in (FieldEdits(input.resources[1]) \X {input.model})
                              \cup ({input.resources[1]} \X AttributeEdits(input.model))}
      [] kind = "manifest" -> TextEdits(input)
      [] kind = "attributes" -> AttributeEdits(input)
      [] kind = "geometry" -> GeometryEdits(input)
      [] kind \in {"check line", "migrate line"} -> Inserted(input, Argument[kind])
      [] kind = "descriptor" -> DescriptorEdits(input)

Init == \E s \in Start : kind = s.kind /\ input = s.input /\ left = s.left
Edit(k) ==
    /\ kind = k /\ left > 0
    /\ input' \in Edits
    /\ left' = left - 1
    /\ UNCHANGED kind
Kind ==
    {"wkt", "tokens", "path", "interval", "record", "tile", "directory", "container", "source",
     "controls", "declaration", "manifest", "attributes", "geometry", "check line",
     "migrate line", "descriptor"}
Next == \E k \in Kind : Edit(k)
Spec == Init /\ [][Next]_vars

-----------------------------------------------------------------------------
(* Properties *)

\* What is written, or was accepted and is written again, reads back as what
\* it was: WKT and storage CRSs, temporal extents, records that the builder
\* makes, tile and dataset names, attribute models, declarations.
ReadsBack ==
    CASE kind \in {"wkt", "tokens"} -> Wkt!WktReadsBack(input) /\ Wkt!CrsReadsBack(input)
      [] kind = "interval" -> Record!TemporalReadsBack(input)
      [] kind = "record" -> Record!BuiltReadsBack(input)
      [] kind = "tile" -> Tile!TileReadsBack(input)
      [] kind = "directory" -> Tile!DirReadsBack(input)
      [] kind = "attributes" -> Attribute!ModelReadsBack(input)
      [] kind = "declaration" -> Manifest!ManifestReadsBack(input)
      [] OTHER -> TRUE

\* What a document says is seen or the document is refused: the changes others
\* made to a container, the texts of control files, the keys of a manifest, the
\* flags of a command line, the names a profile's descriptor declares.
NothingOverlooked ==
    CASE kind = "container" -> Container!Classified(input.container, input.applied)
      [] kind = "controls" -> Control!ControlsHold(input)
      [] kind = "manifest" ->
             /\ Manifest!SaidOnce(input)
             /\ Attribute!DocumentModelValid(Manifest!Member(input, "attribute_model"))
      [] kind = "check line" -> Line!LintLineHeeded(input)
      [] kind = "migrate line" -> Line!MigratorLineHeeded(input)
      [] kind = "descriptor" -> Descriptor!YardstickLives(input)
      [] OTHER -> TRUE

\* A path that is accepted leads to a place of its own: inside the datastore
\* and outside the reserved trees, and, for the files of a migration, where no
\* other file, record or directory of the target is.
PathsHold ==
    CASE kind = "path" -> Name!StaysInside(input) /\ Name!Fenced(input, Trees)
      [] kind = "source" -> Plan!PlanHolds(input)
      [] OTHER -> TRUE

\* No z or m value of a geometry is lost on the way to the planar view and
\* back, and units are asked for wherever one of its parts has such a value.
Context(z, m) == [crs |-> [id |-> 1, spelt |-> "EPSG"], zUnit |-> z, mUnit |-> m]
Claims == {Absent, [id |-> 1, spelt |-> "epsg"], [id |-> 2, spelt |-> "EPSG"]}
GeometryKept ==
    kind = "geometry" =>
        /\ Geo!CodesReadBack
        /\ \A i \in DOMAIN input :
              /\ Geo!NothingDropped(input[i])
              /\ \A z, m \in {Absent, Unit}, claim \in Claims :
                     Geo!MembersJudged(input[i], Context(z, m), claim)
=============================================================================
