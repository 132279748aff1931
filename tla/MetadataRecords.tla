--------------------------- MODULE MetadataRecords --------------------------
(***************************************************************************)
(* The records of metadata/mod.rs (global and resource metadata, language  *)
(* tags, the encoding rule of Metadata5) and the temporal values of        *)
(* metadata/temporal.rs.                                                   *)
(*                                                                         *)
(* A record is a function from element names to values; a value is the     *)
(* text on the wire.  "" is an empty text and "absent" an element that is  *)
(* not there (or null, for an optional one).                               *)
(***************************************************************************)
EXTENDS Integers, Sequences, FiniteSets, SequencesExt

(* Datetimes are <<form, instant>>; only an RFC 3339 form with a T and a   *)
(* zero offset is read, and Z is what is written.                          *)
Utc == {"Z", "+00:00"}
ReadsDatetime(text) == text[1] \in Utc
FormatDatetime(instant) == <<"Z", instant>>

\* Temporal::parse, of the parts between the slashes.
Open(part) == part \in {<<"..">>, <<"">>}
Bound(part) == IF Open(part) THEN "open" ELSE part[2]
TemporalAccepts(parts) ==
    \/ Len(parts) = 1 /\ ReadsDatetime(parts[1])
    \/ /\ Len(parts) = 2
       /\ \A i \in 1 .. 2 : Open(parts[i]) \/ ReadsDatetime(parts[i])
       /\ ~(Open(parts[1]) /\ Open(parts[2]))
       /\ Open(parts[1]) \/ Open(parts[2]) \/ parts[1][2] <= parts[2][2]
ParseTemporal(parts) == [i \in DOMAIN parts |-> IF Open(parts[i]) THEN <<>> ELSE <<parts[i][2]>>]
DisplayTemporal(value) ==
    [i \in DOMAIN value |-> IF value[i] = <<>> THEN <<"..">> ELSE FormatDatetime(value[i][1])]

\* An accepted value is an instant or an interval with a bound and in order,
\* and its canonical text is accepted as the same value.
TemporalReadsBack(parts) ==
    TemporalAccepts(parts) =>
        LET value == ParseTemporal(parts)
        IN  /\ \E i \in DOMAIN value : value[i] # <<>>
            /\ \A i, j \in DOMAIN value :
                  i < j /\ value[i] # <<>> /\ value[j] # <<>> => value[i][1] <= value[j][1]
            /\ TemporalAccepts(DisplayTemporal(value))
            /\ ParseTemporal(DisplayTemporal(value)) = value

\* LanguageTag::new: subtags [letters, digits, other] with their counts.
SubtagLength(t) == t.letters + t.digits + t.other
ValidLanguageTag(tag) ==
    /\ tag # <<>>
    /\ tag[1].digits = 0
    /\ \A i \in DOMAIN tag : SubtagLength(tag[i]) \in 1 .. 8 /\ tag[i].other = 0

-----------------------------------------------------------------------------
(* The global record                                                       *)

Texts == {"ID", "title", "description", "contactPoint"}
Typed == {"created", "language", "metadataStandard", "metadataEncoding", "uom"}
Optional == {"update", "temporal", "accessRights", "license", "tilingScheme"}
GlobalElement == Texts \cup Typed \cup Optional
\* A typed element holds a word of its closed vocabulary, or it is not read.
Parsed(element) == element \in Typed \cup {"update", "temporal", "tilingScheme"}
Value(element) == {"absent", "", "good"} \cup (IF Parsed(element) THEN {"bad"} ELSE {})

NewBuilder == [e \in GlobalElement |-> "absent"]
\* A setter of a typed element takes a value of its type.
Set(builder, element, value) == [builder EXCEPT ![element] = value]
Settable(element) == IF Parsed(element) THEN {"good"} ELSE {"", "good"}

\* build: the first element that is missing, in the order of the fields.
BuildOrder ==
    <<"ID", "title", "description", "contactPoint", "created", "language", "metadataStandard",
      "metadataEncoding", "uom">>
Missing(builder, e) ==
    IF e \in Texts THEN builder[e] \in {"absent", ""} ELSE builder[e] = "absent"
BuildError(builder) == SelectSeq(BuildOrder, LAMBDA e : Missing(builder, e))
Builds(builder) == BuildError(builder) = <<>>

\* Writing: an optional element that is absent is skipped.
WriteGlobal(record) == [e \in {x \in GlobalElement : record[x] # "absent"} |-> record[e]]
\* Reading: every required element is there and every typed one parses, else a
\* serialization error; then `validate` looks for empty texts.
Deserializes(wire) ==
    /\ Texts \cup Typed \subseteq DOMAIN wire
    /\ \A e \in DOMAIN wire : Parsed(e) => wire[e] = "good"
ReadGlobal(wire) == [e \in GlobalElement |-> IF e \in DOMAIN wire THEN wire[e] ELSE "absent"]
GlobalValid(record) == \A e \in Texts : record[e] # ""
ReadsGlobal(wire) == Deserializes(wire) /\ GlobalValid(ReadGlobal(wire))

\* What the builder lets through is what the reader takes back unchanged: no
\* record is built that its own datastore could not be read with.
BuiltReadsBack(builder) ==
    /\ Builds(builder) <=> ReadsGlobal(WriteGlobal(builder))
    /\ Builds(builder) => ReadGlobal(WriteGlobal(builder)) = builder

-----------------------------------------------------------------------------
(* Resource records and the encoding rule                                  *)

\* ResourceMetadata::validate: three texts, then every association.
ResourceTexts == <<"ID", "title", "description">>
ResourceError(record) ==
    LET empty == SelectSeq(ResourceTexts, LAMBDA e : record[e] = "")
    IN  IF empty # <<>> THEN "missing_element"
        ELSE IF \E i \in DOMAIN record.associations : ~record.associations[i] THEN "link" ELSE "none"

\* encoding_violations: names whose extension is another metadata encoding.
EncodingOf ==
    [xml |-> "xml", xsd |-> "xml", json |-> "json", gpkg |-> "gpkg"]
EncodingViolations(declared, extensions) ==
    SelectSeq(extensions, LAMBDA x : x \in DOMAIN EncodingOf /\ EncodingOf[x] # declared)
=============================================================================
