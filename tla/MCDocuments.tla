----------------------------- MODULE MCDocuments -----------------------------
(***************************************************************************)
(* TLC instance of the documents: what the program itself writes and a few *)
(* starting points of each kind, each with the number of edits after which *)
(* it is left alone.                                                       *)
(***************************************************************************)
EXTENDS Documents

Begin(k, inputs, edits) == {[kind |-> k, input |-> i, left |-> edits] : i \in inputs}

(* CRSs: a horizontal one in each form, compounds of two, and wrapped in     *)
(* coordinate metadata with an epoch of two or three decimals, out of range, *)
(* rounding out of range, or not a number; and numbers that overflow.        *)
MCToken == {"[", "(", "]", ")", ",", "'m'", "1", "1e999", "-1e999", "GEOGCRS"}
Bracket(keyword, inside) == <<keyword, "[">> \o inside \o <<"]">>
Length(unit) == Bracket("LENGTHUNIT", <<unit, ",", "1">>)
Body ==
    {Length("'m'"), Bracket("AXIS", <<"'m'", ",">> \o Length("'ft'")),
     Length("'m'") \o <<",">> \o Bracket("AXIS", <<"'m'", ",">> \o Length("'ft'")),
     Bracket("DYNAMIC", Bracket("FRAMEEPOCH", <<"1">>)), Bracket("DYNAMIC", <<"'m'">>)}
Single(k) == {Bracket(k, <<"'m'", ",">> \o b) : b \in Body}
Compound ==
    {Bracket("COMPOUNDCRS", <<"'m'", ",">> \o a \o <<",">> \o b) :
        a \in Single("GEOGCRS"), b \in Single("VERTCRS")}
Wrapped ==
    {Bracket("COORDINATEMETADATA", c \o <<",">> \o Bracket("EPOCH", <<e>>)) :
        c \in Single("GEOGCRS"), e \in {"2017.53", "2017.531", "9999.996", "1", "'m'"}}

(* Names of tiles as the program writes them, and with zeros in front.       *)
Written(lat, lon, lod, uref, rref) ==
    lat \o lon \o <<"_", "D", "0", "0", "1", "_", "S", "0", "0", "1", "_", "T", "0", "0", "1", "_">>
        \o lod \o <<"_", "U">> \o uref \o <<"_", "R">> \o rref \o <<".", "t">>
TileNames ==
    {Written(<<"N", "3", "2">>, <<"W", "1", "1", "8">>, <<"L", "0", "1">>, <<"1">>, <<"0">>),
     Written(<<"S", "9", "0">>, <<"E", "0", "0", "0">>, <<"L", "C", "0", "1">>, <<"0">>, <<"0", "0">>),
     Written(<<"N", "8", "0">>, <<"W", "0", "1", "2">>, <<"L", "1", "0">>, <<"1", "9">>, <<"9", "9">>)}
DatasetNames == {<<"0", "0", "1", "_", "E">>, <<"3", "0", "0", "_", "_", "n">>}
MCCharacter ==
    [path |-> {"a", "A", "1", "_", ".", "/", " ", "#", ":", "e-acute"},
     tile |-> {"n", "S", "0", "9", "_", ".", "L", "C"}]
MCTrees == {<<"a">>, <<"A", "1">>}
MCDatePart == {<<"..">>, <<"">>, <<"Z", 1>>, <<"Z", 2>>, <<"+00:00", 1>>, <<"+01:00", 1>>}

(* A source of tiles whose directories differ in case, global data sets and  *)
(* files nobody knows.                                                       *)
Low(words) == [i \in DOMAIN words |-> [word |-> words[i], upper |-> FALSE]]
Up(path, i) == [path EXCEPT ![i].upper = TRUE]
Tile1 == Low(<<"tiles", "n32", "w118", "d001", "l00", "u0", "t1">>)
Tile6 == Low(<<"tiles", "n32", "w118", "d006", "l00", "u0", "t6">>)
File(path) == [path |-> path, type |-> "regular"]
MCLeaf ==
    <<File(Tile1), File(Up(Tile1, 4)), File(Up(Tile1, 7)), File(Tile6),
      File(Low(<<"gtmodel", "f">>)), File(Up(Low(<<"gtmodel", "f">>), 1)),
      File(Up(Low(<<"gtmodel", "f">>), 2)), File(Low(<<"gtmodel", "g", "f">>)),
      File(Low(<<"metadata", "f">>)), File(Low(<<"extras", "f">>)), File(Low(<<"f">>)),
      [path |-> Low(<<"g">>), type |-> "link"]>>
MCRenameTarget ==
    {Tile1, Tile6, Low(<<"gtmodel", "f">>), Low(<<"gtmodel", "g">>), Low(<<"extras", "f">>),
     Low(<<"extras", "g", "f">>), Low(<<"versions", "f">>), Up(Low(<<"metadata", "f">>), 1),
     Low(<<"metadata", "resource_00000000.json">>)}
MCSources ==
    {[leaves |-> <<>>, extras |-> policy, renames |-> <<>>, declared |-> {}] :
        policy \in {"unspecified", "carry", "skip"}}

(* Control files as a complete source has them.                              *)
Tag(k, name, attrs) == [kind |-> k, name |-> name, attrs |-> attrs]
Specification == Tag("empty", "Specification", << <<"version", "3.2">> >>)
Around(name, inside) == <<Tag("start", name, <<>>)>> \o inside \o <<Tag("end", name, <<>>)>>
VersionXml == Around("Version", <<Specification>>)
Folder == Tag("empty", "Folder", << <<"path", ".">> >>)
ConfigurationXml == Around("Configuration", Around("Version", <<Folder>>))
MCControlEvent ==
    {Specification, Tag("empty", "Specification", << <<"version", "3.0">> >>),
     Tag("empty", "Specification", << <<"version", "3.0">>, <<"version", "3.2">> >>),
     Tag("empty", "PreviousIncrementalRootDirectory", << <<"name", "p">> >>),
     Tag("empty", "Folder", << <<"path", "elsewhere">> >>), Folder,
     Tag("start", "Comment", <<>>), Tag("end", "Comment", <<>>), Tag("start", "Version", <<>>),
     Tag("end", "Version", <<>>), Tag("text", "t", <<>>), Tag("declaration", "xml", <<>>),
     Tag("bad", "dtd", <<>>)}
Regular(events) == {[type |-> "regular", events |-> events, spelling |-> "as written"]}
MCControls ==
    {{}} \cup {{[type |-> "directory", version |-> v, configuration |-> c, spelling |-> "Metadata"]} :
                  v \in {{}, Regular(VersionXml)}, c \in {{}, Regular(ConfigurationXml)}}

(* A declaration with everything in it, and one with little.                 *)
MCPath == {<<"f">>, <<"d", "..", "f">>, <<>>, <<"with_backslash">>}
MCRecordText == {"", " ", "w"}
MCDate == {Absent, "near", "far"}
MCFloat == {One, NaN}
MCIdText == {<<"1">>, <<" ", "1">>, <<"a", " ">>, <<>>, <<" ">>, <<"a", "NUL">>}
Attributes ==
    <<[id |-> <<"1">>, name |-> <<"a">>, description |-> <<"a">>],
      [id |-> <<"a">>, name |-> <<"b">>, description |-> <<"b", " ">>]>>
SomeModel == [uri |-> <<"a", ":", "b">>, attributes |-> Attributes]
Empty ==
    [ID |-> "w", title |-> "w", description |-> "w", keywords |-> <<"w">>, created |-> Absent,
     uom |-> Absent, domainSet |-> Absent, windingOrder |-> Absent, extent |-> Absent,
     associations |-> <<>>]
Full ==
    [Empty EXCEPT
        !.created = "near", !.uom = "unit", !.windingOrder = "ccw", !.associations = <<"good">>,
        !.domainSet = [Manifest!NewDomain("m") EXCEPT !.dataNull = One,
                           !.encoding = "value-is-corner", !.corner = "upper-left-corner"],
        !.extent = [spatial |-> [s \in {"west", "south", "east", "north"} |-> One],
                    temporal |-> "near"]]
Declare(record, has) ==
    [path |-> <<"f">>, record |-> record, coverage |-> has, measured |-> has, faces |-> has]
Declarations ==
    {[resources |-> <<Declare(Full, TRUE)>>, model |-> SomeModel],
     [resources |-> <<Declare(Empty, FALSE)>>, model |-> Absent]}
NumberedIds(wire) == [wire EXCEPT !.pairs[2].value.items[1].pairs[1].value = Manifest!Number(1)]
Manifests ==
    {Manifest!ManifestOut(m) : m \in Declarations}
        \cup {[Manifest!ManifestOut(m) EXCEPT !.pairs[2].value = NumberedIds(@)] :
                 m \in {x \in Declarations : x.model # Absent}}

(* Command lines: what a check and a migration need, and what may be added.  *)
Long(flag, value) == Line!Arg("long", flag, value)
MCArgument ==
    ("check line" :> {Line!Word("explain"), Line!Word("check"), Line!Word("json"),
                      Line!Arg("end", "--", Absent), Line!Arg("bytes", "b", Absent),
                      Line!Arg("dashed", "b", Absent), Line!Arg("short", "o", Absent),
                      Line!Arg("short", "q", Absent), Line!Arg("short", "z", Absent),
                      Long("quiet", Absent), Long("quiet", "no"), Long("list", Absent),
                      Long("format", Absent), Long("profile-file", "f"), Long("help", Absent)})
    @@ ("migrate line" :> {Line!Word("w"), Line!Word(""), Line!Arg("short", "z", Absent),
                           Line!Arg("end", "--", Absent), Line!Arg("bytes", "b", Absent),
                           Line!Help, Long("id", Absent), Long("id", "w"), Long("title", Absent),
                           Long("dry-run", Absent), Long("carry-extras", Absent),
                           Long("skip-extras", Absent)})
CheckLines ==
    {<<Long("profile", "gnosis"), Long("encoding", Absent), Line!Word("json"), Line!Word("root")>>,
     <<Line!Word("check"), Long("profile-file", "f"), Line!Word("root")>>}
MigrateLines == {<<Line!Word("migrate"), Line!Word("root"), Line!Word("out")>>}

(* A descriptor that loads.                                                  *)
MCNamePart ==
    {<<>>, <<"a">>, <<"A">>, <<"a", "/">>, <<"a", "_", "B">>, <<"a", ".", "b">>, <<"#">>, <<"1">>}
SomeDescriptor ==
    [known_keys |-> TRUE, name |-> <<"a">>, case_rule |-> "PascalCase",
     language |-> <<[letters |-> 2, digits |-> 0, other |-> 0]>>, reserved_names |-> {},
     storage_crs_wkt |-> GeogCrs, storage_crs_wkt_path |-> Absent, metadata_standard |-> "DCAT",
     metadata_encoding |-> "json", uom |-> "M", storage_technology |-> "file-system",
     conformance_classes |-> [keyword |-> "all", tokens |-> {}], tiling_scheme |-> Absent,
     resource_metadata_dir |-> <<"a">>, root_folder_name |-> <<"a">>, known_extensions |-> {},
     attribute_model |-> Absent]

MCStart ==
    UNION {Begin("tokens", {<<>>}, 4),
           Begin("wkt", UNION {Single(k) : k \in {"GEOGCRS", "VERTCRS", "PROJCRS"}}
                            \cup Compound \cup Wrapped, 1),
           Begin("path", {<<>>}, 5), Begin("interval", {<<>>}, 3),
           Begin("record", {Record!NewBuilder}, 20),
           Begin("tile", TileNames, 1), Begin("directory", DatasetNames, 2),
           Begin("container", {[container |-> Container!Prepared("global"), applied |-> {}]}, 2),
           Begin("source", MCSources, 5), Begin("controls", MCControls, 2),
           Begin("declaration", Declarations, 2), Begin("manifest", Manifests, 2),
           Begin("attributes", {SomeModel}, 3), Begin("geometry", {<<>>}, 5),
           Begin("check line", CheckLines, 2), Begin("check line", {<<>>}, 3),
           Begin("migrate line", MigrateLines, 3), Begin("migrate line", {<<>>}, 1),
           Begin("descriptor", {SomeDescriptor}, 2)}
=============================================================================
