---------------------------- MODULE ManifestInput ---------------------------
(***************************************************************************)
(* What an operator declares for a migration: the manifest of              *)
(* cdb_migrator/src/metadata_input.rs, its closed JSON schema, and the     *)
(* validation that a caller who builds one in memory goes through too.     *)
(*                                                                         *)
(* A declaration is [path, record, coverage, measured, faces]; of a record *)
(* the elements are kept that the validation looks at.  A datetime is      *)
(* "near", or "far" when its year has more than four digits: such a value  *)
(* exists in memory, and no reader takes its text.  The manifest has one   *)
(* declaration, or more.                                                   *)
(*                                                                         *)
(* The domain set of a coverage, and the validation of a coverage instance *)
(* (src/coverage.rs), come first.  A domain set is [uom, precision, scale, *)
(* offset, dataNull, encoding, corner, field, quantity].  Floating-point   *)
(* numbers are the members of a finite set and NaN, which the wire writes  *)
(* as null.                                                                *)
(***************************************************************************)
EXTENDS Naturals, Sequences, Json

CONSTANTS
    Absent, NaN, One, Zero,     \* values that are no words
    White, Controls, Alpha, SchemeRest, Decimal(_)

Model == INSTANCE Attribution

-----------------------------------------------------------------------------
(* A domain set *)

Finite(number) == number # NaN

Encodings == {"value-is-center", "value-is-area", "value-is-corner"}
Corners ==
    {"lower-left-corner", "upper-left-corner", "lower-right-corner", "upper-right-corner"}
\* parse: the exact wire spelling, or none.
ParseWord(words, word) == IF word \in words THEN word ELSE Absent

NewDomain(uom) ==
    [uom |-> uom, precision |-> One, scale |-> One, offset |-> Zero, dataNull |-> Absent,
     encoding |-> "value-is-center", corner |-> Absent, field |-> "Height", quantity |-> Absent]

\* The null sentinel is compared before anything is scaled, and NaN equals
\* nothing.
Decode(domain, raw) ==
    IF domain.dataNull # Absent /\ Finite(raw) /\ domain.dataNull = raw THEN Absent
    ELSE [raw |-> raw, scale |-> domain.scale, offset |-> domain.offset]

DomainError(domain) ==
    IF domain.uom \in {"", " "} THEN "EmptyUom"
    ELSE IF domain.encoding = "value-is-corner" /\ domain.corner = Absent
    THEN "CornerWithoutWhichCorner"
    ELSE IF domain.field # "Height" /\ domain.quantity = Absent THEN "MissingQuantityDefinition"
    ELSE "ok"

\* A recommendation, never an error.
UriLike == {"http://u", "https://u", "urn:u", "URN:u"}
DomainWarnings(domain) == IF domain.uom \in UriLike THEN {"UomLooksLikeUri"} ELSE {}

-----------------------------------------------------------------------------
(* The wire *)

NumberOut(number) == IF Finite(number) THEN Number(number) ELSE Null
OptionOut(key, present, value) == IF present THEN <<Pair(key, value)>> ELSE <<>>
DomainOut(domain) ==
    Object(<<Pair("uom", Text(domain.uom)),
             Pair("precision", NumberOut(domain.precision)),
             Pair("scale", NumberOut(domain.scale)),
             Pair("offset", NumberOut(domain.offset))>>
           \o OptionOut("data_null", domain.dataNull # Absent, NumberOut(domain.dataNull))
           \o <<Pair("grid_cell_encoding", Text(domain.encoding))>>
           \o OptionOut("which_corner", domain.corner # Absent, Text(domain.corner))
           \o <<Pair("field_type", Text(domain.field))>>
           \o OptionOut("quantity_definition", domain.quantity # Absent, Text(domain.quantity)))

\* A member of the type, or missing where there is a default.
Is(value, json) == value.json = json
Defaulted(value, json) == Is(value, "missing") \/ Is(value, json)
Optional(value, json) == ~Given(value) \/ Is(value, json)
DomainReads(wire) ==
    /\ Is(wire, "object")
    /\ Is(Member(wire, "uom"), "string")
    /\ \A key \in {"precision", "scale", "offset"} : Defaulted(Member(wire, key), "number")
    /\ Optional(Member(wire, "data_null"), "number")
    /\ LET encoding == Member(wire, "grid_cell_encoding")
       IN  \/ Is(encoding, "missing")
           \/ /\ Is(encoding, "string")
              /\ ParseWord(Encodings, encoding.text) # Absent
    /\ LET corner == Member(wire, "which_corner")
       IN  \/ ~Given(corner)
           \/ Is(corner, "string") /\ ParseWord(Corners, corner.text) # Absent
    /\ Defaulted(Member(wire, "field_type"), "string")
    /\ Optional(Member(wire, "quantity_definition"), "string")
NumberIn(value, default) == IF Is(value, "number") THEN value.number ELSE default
TextIn(value, default) == IF Is(value, "string") THEN value.text ELSE default
DomainIn(wire) ==
    LET base == NewDomain(Member(wire, "uom").text)
    IN  [uom |-> base.uom,
         precision |-> NumberIn(Member(wire, "precision"), base.precision),
         scale |-> NumberIn(Member(wire, "scale"), base.scale),
         offset |-> NumberIn(Member(wire, "offset"), base.offset),
         dataNull |-> NumberIn(Member(wire, "data_null"), Absent),
         encoding |-> TextIn(Member(wire, "grid_cell_encoding"), base.encoding),
         corner |-> TextIn(Member(wire, "which_corner"), Absent),
         field |-> TextIn(Member(wire, "field_type"), base.field),
         quantity |-> TextIn(Member(wire, "quantity_definition"), Absent)]

-----------------------------------------------------------------------------
(* A coverage instance *)

\* authority_ids_match: without regard to the case of the letters.
IdsMatch(one, other) == one.id = other.id

\* The first violation: the claim of a CRS, the record, its domain set.
\* A record is [valid, domain].
InstanceError(resource, claim, datastoreCrs) ==
    IF claim # Absent /\ (datastoreCrs = Absent \/ ~ IdsMatch(datastoreCrs, claim))
    THEN "CoverageCrsMismatch"
    ELSE IF resource = Absent THEN "MissingResourceMetadata"
    ELSE IF ~ resource.valid THEN "Metadata"
    ELSE IF resource.domain = Absent THEN "MissingDomainSet"
    ELSE DomainError(resource.domain)

-----------------------------------------------------------------------------
(* What is declared *)

Accepted(value) == [result |-> "ok", value |-> value]
Refusal == [result |-> "Refused"]

-----------------------------------------------------------------------------
(* Validation *)

\* A path is a sequence of parts, each a plain name or one of these.
Unsafe == {"", ".", "..", "with_backslash", "with_colon", "with_control"}
SafePath(path) == path # <<>> /\ \A i \in DOMAIN path : path[i] \notin Unsafe

BlankWord(word) == word \in {"", " "}
\* ResourceMetadata::validate: its three texts are there, its links are links.
RecordValid(record) ==
    /\ \A e \in {"ID", "title", "description"} : record[e] # ""
    /\ \A i \in DOMAIN record.associations : record.associations[i] # "bad"

ReadableDate(date) == date # "far"
\* The bounds of a spatial extent, and the numbers of a domain set.
Numbers(domain) == {domain.precision, domain.scale, domain.offset}
\* Mutant: the sentinel is left out, as an optional number.
FiniteScaling(domain) == \A n \in Numbers(domain) : Finite(n)
FiniteDomain(domain) ==
    /\ \A n \in Numbers(domain) : Finite(n)
    /\ domain.dataNull # Absent => Finite(domain.dataNull)

DeclarationValid(d) ==
    LET r == d.record
    IN  /\ SafePath(d.path)
        /\ \A e \in {"ID", "title", "description"} : ~BlankWord(r[e])
        /\ r.keywords # <<>> /\ \A i \in DOMAIN r.keywords : ~BlankWord(r.keywords[i])
        /\ RecordValid(r)
        /\ ReadableDate(r.created)
        /\ d.coverage = (r.domainSet # Absent)
        /\ d.measured = (r.uom # Absent)
        /\ d.faces = (r.windingOrder # Absent)
        /\ r.domainSet # Absent => FiniteDomain(r.domainSet) /\ DomainError(r.domainSet) = "ok"
        /\ r.extent # Absent =>
               /\ r.extent.spatial # Absent => \A s \in DOMAIN r.extent.spatial :
                                                   Finite(r.extent.spatial[s])
               /\ ReadableDate(r.extent.temporal)

\* validate_for_dataset: the raster datasets must be coverages.
ForDataset(d, code) == DeclarationValid(d) /\ (code \in 1 .. 5 => d.coverage)

ManifestValid(m) ==
    /\ \A i \in DOMAIN m.resources : DeclarationValid(m.resources[i])
    /\ \A i, j \in DOMAIN m.resources : i # j => m.resources[i].path # m.resources[j].path
    /\ m.model # Absent => Model!ModelValid(m.model)

-----------------------------------------------------------------------------
(* Writing *)

Sides == <<"west", "south", "east", "north">>
ExtentOut(extent) ==
    Object(OptionOut("spatial", extent.spatial # Absent,
                     Object([i \in DOMAIN Sides |->
                                Pair(Sides[i], NumberOut(extent.spatial[Sides[i]]))]))
           \o OptionOut("temporal", extent.temporal # Absent, Text(extent.temporal)))
LinkOut(link) == Object(<<Pair("href", Text(link)), Pair("rel", Text("item"))>>)
RecordOut(r) ==
    Object(<<Pair("ID", Text(r.ID)), Pair("type", Text("dataset")),
             Pair("title", Text(r.title)), Pair("description", Text(r.description))>>
           \o OptionOut("keywords", r.keywords # <<>>,
                        Array([i \in DOMAIN r.keywords |-> Text(r.keywords[i])]))
           \o OptionOut("created", r.created # Absent, Text(r.created))
           \o OptionOut("uom", r.uom # Absent, Text(r.uom))
           \o (IF r.domainSet = Absent THEN <<>>
               ELSE <<Pair("domainSet", DomainOut(r.domainSet))>>)
           \o OptionOut("windingOrder", r.windingOrder # Absent, Text(r.windingOrder))
           \o (IF r.extent = Absent THEN <<>> ELSE <<Pair("extent", ExtentOut(r.extent))>>)
           \o OptionOut("associations", r.associations # <<>>,
                        Array([i \in DOMAIN r.associations |-> LinkOut(r.associations[i])])))
DeclarationOut(d) ==
    Object(<<Pair("source_path", Text(d.path)), Pair("record", RecordOut(d.record)),
             Pair("coverage", Boolean(d.coverage)),
             Pair("measurement_values", Boolean(d.measured)),
             Pair("generated_faces", Boolean(d.faces))>>)
ManifestOut(m) ==
    Object(<<Pair("resources", Array([i \in DOMAIN m.resources |->
                                          DeclarationOut(m.resources[i])])),
             Pair("attribute_model",
                  IF m.model = Absent THEN Null ELSE Model!ModelToJson(m.model))>>)

-----------------------------------------------------------------------------
(* Reading *)

ManifestKeys == {"resources", "attribute_model"}
ResourceKeys ==
    {"source_path", "record", "coverage", "measurement_values", "generated_faces"}
RecordKeys ==
    {"ID", "type", "title", "description", "keywords", "keywordsCodespace", "externalId",
     "publisher", "created", "updated", "themes", "formats", "contactPoint", "license",
     "rights", "uom", "domainSet", "windingOrder", "extent", "associations",
     "CharacterSetCode"}
DomainKeys ==
    {"uom", "precision", "scale", "offset", "data_null", "grid_cell_encoding",
     "which_corner", "field_type", "quantity_definition"}
LinkKeys == {"href", "rel", "type", "title"}

Closed(value, keys) == Is(value, "object") /\ KeysOf(value) \subseteq keys
ClosedIfGiven(value, keys) == Given(value) => Closed(value, keys)
AllClosed(value, keys) ==
    Is(value, "array") => \A i \in DOMAIN value.items : Closed(value.items[i], keys)

RecordKeysKnown(wire) ==
    /\ Closed(wire, RecordKeys)
    /\ LET domain == Member(wire, "domainSet")
       IN  /\ ClosedIfGiven(domain, DomainKeys)
           /\ Given(domain) => {"uom", "grid_cell_encoding"} \subseteq KeysOf(domain)
    /\ LET extent == Member(wire, "extent")
       IN  /\ ClosedIfGiven(extent, {"spatial", "temporal"})
           /\ Given(extent) => ClosedIfGiven(Member(extent, "spatial"), ToSet(Sides))
    /\ AllClosed(Member(wire, "associations"), LinkKeys)
AttributeKeysKnown(wire) ==
    /\ Closed(wire, {"schemaUri", "attributes"})
    /\ AllClosed(Member(wire, "attributes"), {"id", "name", "description"})

ExtentReads(wire) ==
    /\ Is(wire, "object")
    /\ LET spatial == Member(wire, "spatial")
       IN  Given(spatial) =>
               Is(spatial, "object") /\ \A s \in ToSet(Sides) : Is(Member(spatial, s), "number")
    /\ LET temporal == Member(wire, "temporal")
       IN  Given(temporal) => Is(temporal, "string") /\ ReadableDate(temporal.text)
TextsIn(value) ==
    IF Is(value, "missing") THEN <<>> ELSE [i \in DOMAIN value.items |-> value.items[i].text]
\* A vector has a default when it is missing, not when it is null.
RecordReads(wire) ==
    /\ \A e \in {"ID", "type", "title", "description"} : Is(Member(wire, e), "string")
    /\ LET keywords == Member(wire, "keywords")
       IN  /\ Defaulted(keywords, "array")
           /\ Is(keywords, "array") =>
                  \A i \in DOMAIN keywords.items : Is(keywords.items[i], "string")
    /\ \A e \in {"created", "uom", "windingOrder"} : Optional(Member(wire, e), "string")
    /\ Is(Member(wire, "created"), "string") => ReadableDate(Member(wire, "created").text)
    /\ Given(Member(wire, "domainSet")) => DomainReads(Member(wire, "domainSet"))
    /\ Given(Member(wire, "extent")) => ExtentReads(Member(wire, "extent"))
    /\ LET links == Member(wire, "associations")
       IN  /\ Defaulted(links, "array")
           /\ Is(links, "array") =>
                  \A i \in DOMAIN links.items :
                      /\ Is(Member(links.items[i], "href"), "string")
                      /\ Is(Member(links.items[i], "rel"), "string")
ExtentIn(wire) ==
    LET spatial == Member(wire, "spatial")
    IN  [spatial |-> IF Given(spatial)
                     THEN [s \in ToSet(Sides) |-> Member(spatial, s).number] ELSE Absent,
         temporal |-> TextIn(Member(wire, "temporal"), Absent)]
RecordIn(wire) ==
    LET extent == Member(wire, "extent")
        domain == Member(wire, "domainSet")
        links == Member(wire, "associations")
    IN  [ID |-> Member(wire, "ID").text, title |-> Member(wire, "title").text,
         description |-> Member(wire, "description").text,
         keywords |-> TextsIn(Member(wire, "keywords")),
         created |-> TextIn(Member(wire, "created"), Absent),
         uom |-> TextIn(Member(wire, "uom"), Absent),
         domainSet |-> IF Given(domain) THEN DomainIn(domain) ELSE Absent,
         windingOrder |-> TextIn(Member(wire, "windingOrder"), Absent),
         extent |-> IF Given(extent) THEN ExtentIn(extent) ELSE Absent,
         associations |-> IF Is(links, "missing") THEN <<>>
                          ELSE [i \in DOMAIN links.items |->
                                   Member(links.items[i], "href").text]]

DeclarationReads(wire) ==
    /\ Closed(wire, ResourceKeys) /\ Is(Member(wire, "source_path"), "string")
    /\ \A e \in {"coverage", "measurement_values", "generated_faces"} :
           Is(Member(wire, e), "bool")
    /\ RecordKeysKnown(Member(wire, "record")) /\ RecordReads(Member(wire, "record"))
DeclarationIn(wire) ==
    [path |-> Member(wire, "source_path").text, record |-> RecordIn(Member(wire, "record")),
     coverage |-> Member(wire, "coverage").truth,
     measured |-> Member(wire, "measurement_values").truth,
     faces |-> Member(wire, "generated_faces").truth]

\* MetadataManifest::from_json_str.
FromJsonStr(wire) ==
    LET resources == Member(wire, "resources")
        model == Member(wire, "attribute_model")
        reads ==
            /\ Strict(wire) /\ Closed(wire, ManifestKeys) /\ Is(resources, "array")
            /\ \A i \in DOMAIN resources.items : DeclarationReads(resources.items[i])
            /\ Given(model) =>
                   AttributeKeysKnown(model) /\ Model!FromJson(model).result = "ok"
        manifest ==
            [resources |-> [i \in DOMAIN resources.items |-> DeclarationIn(resources.items[i])],
             model |-> IF Given(model) THEN Model!FromJson(model).model ELSE Absent]
    IN  IF reads THEN IF ManifestValid(manifest) THEN Accepted(manifest) ELSE Refusal
        ELSE Refusal

-----------------------------------------------------------------------------
(* Properties of a manifest *)

\* "could silently erase optional values": what a caller builds in memory and
\* the validation passes is written as a text that reads back as the same
\* declarations; nothing is refused later, lost or defaulted.
ManifestReadsBack(m) ==
    ManifestValid(m) =>
        FromJsonStr(ManifestOut(m)) =
            Accepted([m EXCEPT !.model = IF @ = Absent THEN Absent ELSE Model!Canonical(@)])

RECURSIVE Objects(_)
\* The objects of a text, by the key each is under.
Objects(value) ==
    LET inside(v) == IF Is(v, "array") THEN v.items ELSE <<v>>
    IN  IF ~Is(value, "object") THEN <<>>
        ELSE FlattenSeq([i \in DOMAIN value.pairs |->
                 FlattenSeq([j \in DOMAIN inside(value.pairs[i].value) |->
                     (IF Is(inside(value.pairs[i].value)[j], "object")
                      THEN <<Pair(value.pairs[i].key, inside(value.pairs[i].value)[j])>>
                      ELSE <<>>)
                     \o Objects(inside(value.pairs[i].value)[j])])])
\* "Unknown fields and duplicate JSON keys are rejected throughout": a text that
\* is accepted says everything once, in every object in it, and a domain set in
\* it states its units and its cell encoding.
SaidOnce(wire) ==
    FromJsonStr(wire) # Refusal =>
        LET objects == Objects(wire)
        IN  /\ UniqueKeys(wire) /\ "odd" \notin KeysOf(wire)
            /\ \A i \in DOMAIN objects :
                   /\ UniqueKeys(objects[i].value)
                   /\ "odd" \notin KeysOf(objects[i].value)
                   /\ objects[i].key = "domainSet" =>
                          {"uom", "grid_cell_encoding"} \subseteq KeysOf(objects[i].value)
            /\ ManifestReadsBack(FromJsonStr(wire).value)
=============================================================================
