---------------------------- MODULE Attribution -----------------------------
(***************************************************************************)
(* The attribute model of src/attribution.rs: its canonical form, its      *)
(* rules, and its two encodings.  A text is a sequence of characters; a    *)
(* model is [uri, attributes], the uri Absent or a text, an attribute      *)
(* [id, name, description].                                                *)
(***************************************************************************)
EXTENDS Naturals, Sequences, SequencesExt, Json

CONSTANTS
    Absent,
    White, Controls,    \* characters that are white space, and control characters
    Alpha, SchemeRest,  \* letters, and what else a URI scheme may have
    Decimal(_)          \* the text of a natural number

Blank(text) == \A i \in DOMAIN text : text[i] \in White
\* str::trim
Trim(text) ==
    LET visible == {i \in DOMAIN text : text[i] \notin White}
    IN  IF visible = {} THEN <<>>
        ELSE SubSeq(text, CHOOSE i \in visible : \A j \in visible : i <= j,
                          CHOOSE i \in visible : \A j \in visible : j <= i)
IsBlank(text) == Blank(text) \/ \E i \in DOMAIN text : text[i] \in Controls

\* A scheme, a colon, and something without white space.
HasUriShape(uri) ==
    LET colons == {i \in DOMAIN uri : uri[i] = ":"}
        colon == CHOOSE i \in colons : \A j \in colons : i <= j
        scheme == SubSeq(uri, 1, colon - 1)
        rest == SubSeq(uri, colon + 1, Len(uri))
    IN  /\ colons # {}
        /\ scheme # <<>> /\ scheme[1] \in Alpha
        /\ \A i \in DOMAIN scheme : scheme[i] \in Alpha \cup SchemeRest
        /\ ~Blank(rest)
        /\ \A i \in DOMAIN rest : rest[i] \notin White

Canonical(model) ==
    [uri |-> IF model.uri = Absent THEN Absent ELSE Trim(model.uri),
     attributes |->
         [i \in DOMAIN model.attributes |->
             [id |-> Trim(model.attributes[i].id),
              name |-> Trim(model.attributes[i].name),
              description |-> Trim(model.attributes[i].description)]]]

DistinctIds(attributes) ==
    \A i, j \in DOMAIN attributes : i # j => Trim(attributes[i].id) # Trim(attributes[j].id)
ModelValid(model) ==
    /\ model.uri # Absent =>
           HasUriShape(model.uri) /\ \A i \in DOMAIN model.uri : model.uri[i] \notin Controls
    /\ model.attributes # <<>>
    /\ \A i \in DOMAIN model.attributes :
           LET a == model.attributes[i]
           IN  ~IsBlank(a.id) /\ ~IsBlank(a.name) /\ ~IsBlank(a.description)
    /\ DistinctIds(model.attributes)

-----------------------------------------------------------------------------
(* JSON *)

AttributeOut(a) ==
    Object(<<Pair("id", Text(a.id)), Pair("name", Text(a.name)),
             Pair("description", Text(a.description))>>)
ModelToJson(model) ==
    Object((IF model.uri = Absent THEN <<>> ELSE <<Pair("schemaUri", Text(model.uri))>>)
           \o <<Pair("attributes", Array([i \in DOMAIN model.attributes |->
                                              AttributeOut(model.attributes[i])]))>>)

\* An id that is a natural number becomes its text; no other number is taken.
IdReads(id) ==
    \/ id.json = "string"
    \/ id.json = "number" /\ id.number \in Nat
IdIn(id) == IF id.json = "number" THEN Decimal(id.number) ELSE id.text
AttributeReads(wire) ==
    /\ wire.json = "object"
    /\ IdReads(Member(wire, "id"))
    /\ Member(wire, "name").json = "string" /\ Member(wire, "description").json = "string"
AttributeIn(wire) ==
    [id |-> IdIn(Member(wire, "id")), name |-> Member(wire, "name").text,
     description |-> Member(wire, "description").text]
JsonReads(wire) ==
    /\ wire.json = "object"
    /\ LET uri == Member(wire, "schemaUri")
       IN  ~Given(uri) \/ uri.json = "string"
    /\ LET attributes == Member(wire, "attributes")
       IN  \/ attributes = Missing
           \/ /\ attributes.json = "array"
              /\ \A i \in DOMAIN attributes.items : AttributeReads(attributes.items[i])
JsonIn(wire) ==
    LET uri == Member(wire, "schemaUri")
        attributes == Member(wire, "attributes")
    IN  Canonical(
            [uri |-> IF Given(uri) THEN uri.text ELSE Absent,
             attributes |->
                 IF attributes = Missing THEN <<>>
                 ELSE [i \in DOMAIN attributes.items |-> AttributeIn(attributes.items[i])]])
FromJson(wire) ==
    IF ~JsonReads(wire) THEN [result |-> "Serialization"]
    ELSE IF ~ModelValid(JsonIn(wire)) THEN [result |-> "Violation"]
    ELSE [result |-> "ok", model |-> JsonIn(wire)]

(* XML: elements in order, white space around their text kept. *)
Element(name, text) == [element |-> name, text |-> text]
ModelToXml(model) ==
    [uri |-> IF model.uri = Absent THEN <<>> ELSE <<Element("schemaUri", model.uri)>>,
     attributes |-> model.attributes]
FromXml(wire) ==
    LET model == Canonical([uri |-> IF wire.uri = <<>> THEN Absent ELSE wire.uri[1].text,
                            attributes |-> wire.attributes])
    IN  IF ModelValid(model) THEN [result |-> "ok", model |-> model]
        ELSE [result |-> "Violation"]

\* The names of the file, and what is done with a document under one.
FileNameFor(encoding) ==
    IF encoding \in {"json", "xml"} THEN [stem |-> "vector_attributes", extension |-> encoding]
    ELSE Absent
ParseFileName(name) ==
    IF name.stem = "vector_attributes" /\ name.extension \in {"json", "xml"}
    THEN name.extension ELSE Absent
ValidateDocument(name, json, xml) ==
    CASE ParseFileName(name) = Absent -> [result |-> "InvalidFileName"]
      [] ParseFileName(name) = "xml" -> FromXml(xml)
      [] OTHER -> LET read == FromJson(json)
                  IN  IF read.result = "Serialization" THEN [result |-> "Malformed"] ELSE read

-----------------------------------------------------------------------------
(* Properties of a model *)

\* "the crate never writes a file it would refuse to read back": a model that
\* `write_attribute_model` accepts reads back, from either file, as what was
\* written, and from both alike.
ModelReadsBack(model) ==
    ModelValid(model) =>
        LET written == Canonical(model)
        IN  /\ \A encoding \in {"json", "xml"} :
                   ValidateDocument(FileNameFor(encoding), ModelToJson(written),
                                    ModelToXml(written))
                       = [result |-> "ok", model |-> written]
            /\ Canonical(written) = written

\* A document that reads gives a model that may be written, with ids that stay
\* apart however they were spelt: as numbers, or with white space.
DocumentModelValid(wire) ==
    FromJson(wire).result = "ok" =>
        LET model == FromJson(wire).model
        IN  /\ ModelValid(model) /\ Canonical(model) = model
            /\ FromJson(ModelToJson(model)) = FromJson(wire)
=============================================================================
