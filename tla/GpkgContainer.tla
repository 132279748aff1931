---------------------------- MODULE GpkgContainer ---------------------------
(***************************************************************************)
(* The structural reader of a metadata container: `open_readonly` of       *)
(* metadata/gpkg/io.rs and `read_document` of metadata/gpkg/schema.rs.     *)
(*                                                                         *)
(* A container is what the reader asks SQLite for: header, companions,     *)
(* pragmas, schema objects, columns, defaults, keys and rows.  Text is     *)
(* abstract: a column type, a definition or a URI is one of the few values *)
(* the reader tells apart, up to the letter case it folds.                 *)
(***************************************************************************)
EXTENDS Integers, Sequences, FiniteSets, SequencesExt

Tables ==
    <<"gpkg_spatial_ref_sys", "gpkg_contents", "gpkg_extensions", "gpkg_metadata",
      "gpkg_metadata_reference">>
Table == ToSet(Tables)

Column(name, notNull, key) ==
    [name |-> name, type |-> "declared", notNull |-> notNull, key |-> key, hidden |-> FALSE]

\* The columns of the standard, of which one key and one other stand for all.
Columns(t) == {Column("key", TRUE, 1), Column("value", t # "gpkg_contents", 0)}
Defaulted ==
    {<<"gpkg_contents", "description">>, <<"gpkg_contents", "last_change">>,
     <<"gpkg_metadata", "md_scope">>, <<"gpkg_metadata", "mime_type">>,
     <<"gpkg_metadata", "metadata">>, <<"gpkg_metadata_reference", "timestamp">>}
Unique == {<<"gpkg_contents", {"identifier"}>>,
           <<"gpkg_extensions", {"table_name", "column_name", "extension_name"}>>}
ForeignKeys(t) ==
    CASE t = "gpkg_contents" -> {<<"srs_id", "gpkg_spatial_ref_sys">>}
      [] t = "gpkg_metadata_reference" ->
            {<<"md_file_id", "gpkg_metadata">>, <<"md_parent_id", "gpkg_metadata">>}
      [] OTHER -> {}

Srs(id, org) == [id |-> id, organization |-> org, orgId |-> id, definition |->
                 IF id = 4326 THEN "wgs84" ELSE "undefined"]
Reserved == {Srs(-1, "NONE"), Srs(0, "NONE"), Srs(4326, "EPSG")}
Registration(t) ==
    [table |-> t, column |-> FALSE, name |-> "gpkg_metadata", scope |-> "read-write",
     definition |-> "spec121"]
Document(kind) == [id |-> 1, scope |-> "dataset", binding |-> kind, mime |-> "json"]
Reference(id) == [scope |-> "geopackage", selectors |-> FALSE, file |-> id, parent |-> FALSE,
                  timestamp |-> "canonical"]

\* prepare_write: what the writer makes.
Prepared(kind) ==
    [header |-> "sqlite", companions |-> {}, mode |-> "rollback",
     application |-> "GPKG", version |-> 10200, check |-> "ok",
     objects |-> {<<"table", t>> : t \in Table},
     columns |-> [t \in Table |-> Columns(t)],
     defaults |-> [d \in Defaulted |-> "standard"],
     unique |-> {<<u[1], u[2], "whole">> : u \in Unique},
     keys |-> [t \in Table |-> ForeignKeys(t)],
     dangling |-> 0, srs |-> Reserved, contents |-> 0,
     extensions |-> <<Registration("gpkg_metadata"), Registration("gpkg_metadata_reference")>>,
     documents |-> <<Document(kind)>>, references |-> <<Reference(1)>>]

-----------------------------------------------------------------------------
(* The reader: the first check that fails decides the error.               *)

Malformed == "malformed"
Unsupported == "unsupported"
Ok == "ok"
Check(holds, error) == IF holds THEN Ok ELSE error
First(verdicts) ==
    LET bad == SelectSeq(verdicts, LAMBDA v : v # Ok) IN IF bad = <<>> THEN Ok ELSE bad[1]

OpenReadonly(c) ==
    <<Check(c.header = "sqlite", IF c.header = "missing" THEN "io" ELSE Malformed),
      Check(c.companions = {}, Unsupported),
      Check(c.mode = "rollback", Unsupported)>>

\* sqlite_ tables and indexes are free; sqlite_schema is read in any order, but
\* an object outside the binding is refused before a missing table.
Inventory(c) ==
    <<Check(\A o \in c.objects : \/ o[1] = "index"
                                 \/ o[1] = "table" /\ o[2] \in Table \cup {"sqlite_sequence"},
            Unsupported),
      Check(\A t \in Table : <<"table", t>> \in c.objects, Malformed)>>

CheckColumns(c, t) ==
    <<Check(Columns(t) \subseteq c.columns[t], Malformed),
      Check(Cardinality(c.columns[t]) = Cardinality(Columns(t)), Unsupported)>>

EquivalentDefault(d) == d \in {"standard", "parenthesized", "respelled"}
CheckUnique(c, u) == Check(<<u[1], u[2], "whole">> \in c.unique, Malformed)
CheckForeignKeys(c, t) ==
    <<Check(ForeignKeys(t) \subseteq c.keys[t], Malformed),
      Check(Cardinality(c.keys[t]) = Cardinality(ForeignKeys(t)), Unsupported)>>

\* check_wgs84: the datum is known by its name or by its authority.
CheckWgs84(definition) ==
    <<Check(definition \in {"wgs84", "authority6326", "otherDatum"}, Malformed),
      Check(definition # "otherDatum", Unsupported)>>
CheckSrs(c, id) ==
    LET rows == {r \in c.srs : r.id = id}
        row == CHOOSE r \in rows : TRUE
    IN  IF rows = {} THEN <<Malformed>>
        ELSE <<Check(/\ row.organization = (IF id = 4326 THEN "EPSG" ELSE "NONE")
                     /\ row.orgId = id /\ row.definition # "blank"
                     /\ id # 4326 => row.definition = "undefined", Malformed)>>
             \o (IF id = 4326 THEN CheckWgs84(row.definition) ELSE <<>>)

RegistrationError(c, i) ==
    LET r == c.extensions[i]
    IN  <<Check(r.name = "gpkg_metadata", Unsupported),
          Check(r = Registration(r.table)
                  /\ r.table \in {"gpkg_metadata", "gpkg_metadata_reference"}, Malformed),
          Check(\A j \in 1 .. i - 1 : c.extensions[j].table # r.table, Malformed)>>
CheckExtensions(c) ==
    FlattenSeq([i \in DOMAIN c.extensions |-> RegistrationError(c, i)])
        \o <<Check(Len(c.extensions) = 2, Malformed)>>

OneRow(rows) == IF Len(rows) > 1 THEN Unsupported ELSE Check(rows # <<>>, Malformed)
CheckDocument(c, kind) ==
    IF Len(c.documents) # 1 THEN <<OneRow(c.documents)>>
    ELSE LET d == c.documents[1]
         IN  <<Check(d.binding = kind, Unsupported),
               Check(d.scope = "dataset" /\ d.mime = "json", Malformed),
               OneRow(c.references),
               Check(c.references = <<Reference(d.id)>>, Malformed)>>

ReadDocument(c, kind) ==
    First(OpenReadonly(c)
        \o <<Check(c.application = "GPKG", Malformed), Check(c.version = 10200, Unsupported),
             Check(c.check = "ok", Malformed)>>
        \o Inventory(c)
        \o FlattenSeq([i \in 1 .. 5 |-> CheckColumns(c, Tables[i])])
        \o <<Check(\A d \in Defaulted : EquivalentDefault(c.defaults[d]), Malformed)>>
        \o [i \in 1 .. 2 |-> CheckUnique(c, SetToSeq(Unique)[i])]
        \o CheckForeignKeys(c, "gpkg_contents") \o CheckForeignKeys(c, "gpkg_metadata_reference")
        \o <<Check(c.dangling = 0, Malformed)>>
        \o CheckSrs(c, -1) \o CheckSrs(c, 0) \o CheckSrs(c, 4326)
        \o <<Check(c.contents = 0, Unsupported)>>
        \o CheckExtensions(c) \o CheckDocument(c, kind))

\* prepare_write over a container in place: it must be readable.
Replaceable(c, kind) == ReadDocument(c, kind) = Ok

-----------------------------------------------------------------------------
(* Inputs: what others may have done to a container, with the class of     *)
(* result that the table of docs/GPKG_METADATA.md:229 gives it alone.      *)

Alteration(facet, result, c) == [facet |-> facet, result |-> result, to |-> c]
Alterations(c) ==
    LET to(facet, result, value) == Alteration(facet, result, [c EXCEPT ![facet] = value])
        columns(result, value) == to("columns", result, [c.columns EXCEPT !["gpkg_metadata"] = value])
        document(result, field, value) ==
            to("documents", result, <<[Document("global") EXCEPT ![field] = value]>>)
        reference(field, value) ==
            to("references", Malformed, <<[Reference(1) EXCEPT ![field] = value]>>)
        wgs84(result, d) ==
            to("srs", result, (Reserved \ {Srs(4326, "EPSG")})
                                \cup {[Srs(4326, "EPSG") EXCEPT !.definition = d]})
        cols == Columns("gpkg_metadata")
        hidden == [Column("value", TRUE, 0) EXCEPT !.hidden = TRUE]
    IN  {to("header", "io", "missing"), to("header", Malformed, "truncated"),
         to("companions", Unsupported, {"-wal"}), to("mode", Unsupported, "wal"),
         to("application", Malformed, "other"), to("version", Unsupported, 10300),
         to("check", Malformed, "corrupt"),
         to("objects", Ok, c.objects \cup {<<"index", "i">>, <<"table", "sqlite_sequence">>}),
         to("objects", Unsupported, c.objects \cup {<<"view", "v">>}),
         to("objects", Unsupported, c.objects \cup {<<"table", "roads">>}),
         to("objects", Malformed, c.objects \ {<<"table", "gpkg_extensions">>}),
         columns(Malformed, {Column("key", TRUE, 1)}),
         columns(Malformed, {Column("key", TRUE, 1), hidden}),
         columns(Unsupported, cols \cup {Column("more", FALSE, 0)}),
         to("defaults", Ok, [c.defaults EXCEPT ![<<"gpkg_metadata", "mime_type">>] = "respelled"]),
         to("defaults", Malformed, [c.defaults EXCEPT ![<<"gpkg_metadata", "mime_type">>] = "other"]),
         to("unique", Malformed, {<<u[1], u[2], "partial">> : u \in Unique}),
         to("keys", Malformed, [c.keys EXCEPT !["gpkg_contents"] = {}]),
         to("keys", Unsupported, [c.keys EXCEPT !["gpkg_contents"] = @ \cup {<<"more", "t">>}]),
         to("dangling", Malformed, 1), to("contents", Unsupported, 1),
         to("srs", Malformed, Reserved \ {Srs(0, "NONE")}),
         to("srs", Ok, Reserved \cup {Srs(3857, "EPSG")}),
         wgs84(Ok, "authority6326"), wgs84(Malformed, "otherSpheroid"), wgs84(Unsupported, "otherDatum"),
         to("extensions", Malformed, SubSeq(c.extensions, 1, 1)),
         to("extensions", Malformed, Append(c.extensions, c.extensions[1])),
         to("extensions", Unsupported,
            Append(c.extensions, [Registration("t") EXCEPT !.name = "gpkg_rtree_index"])),
         to("documents", Malformed, <<>>), to("documents", Unsupported, c.documents \o c.documents),
         document(Unsupported, "binding", "resource"), document(Malformed, "mime", "xml"),
         to("references", Malformed, <<>>), to("references", Unsupported, c.references \o c.references),
         reference("timestamp", "seconds"), reference("parent", TRUE), reference("selectors", TRUE)}

Result(applied) == {a.result : a \in applied}

\* Whatever was done to a container, in any combination, it is read just when
\* every change is one the binding allows, and refused as the table of
\* docs/GPKG_METADATA.md classes one of the changes made to it.
Classified(c, applied) ==
    LET bad == Result(applied) \ {Ok}
    IN  ReadDocument(c, "global") \in (IF bad = {} THEN {Ok} ELSE bad)
=============================================================================
