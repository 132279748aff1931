---------------------------- MODULE LintDescriptor ---------------------------
(***************************************************************************)
(* The application profile that cdb-lint reads from a JSON descriptor      *)
(* (cdb-lint/src/profile.rs), and the two it has built in.                 *)
(*                                                                         *)
(* A descriptor is a record of fields: words of closed vocabularies,       *)
(* components as sequences of characters, the storage CRS as WKT tokens or *)
(* as a path to a file of them, and an attribute model.                    *)
(***************************************************************************)
EXTENDS Integers, Sequences, FiniteSets, SequencesExt

CONSTANTS
    Absent,
    CrsFile,            \* the files beside a descriptor: path -> WKT tokens
    CrsAccepts(_),      \* StorageCrs::from_wkt accepts a text
    LanguageValid(_),   \* LanguageTag::new accepts a tag
    Checked(_),         \* validate_attribute_model_document of a model, or Absent
    GpkgBuilt           \* cdb-lint is built with the GeoPackage codec

Name == INSTANCE Names

Refusal == [result |-> "usage"]

-----------------------------------------------------------------------------
(* Values of the document                                                  *)

\* The library's own spellings, the only ones a field takes.
ClassTokens ==
    {"attribution", "coverages", "crs", "file-naming", "file-structure", "geometry", "links",
     "metadata", "tiling", "topology", "versioning"}
Mandatory == {"crs", "file-naming", "file-structure", "links", "metadata"}
Accepted ==
    [case_rule |-> Name!CaseRules,
     metadata_standard |-> {"ISO-19115:2019", "ISO-19115:2003", "DDMS-5.0", "DDMS-4.1", "DCAT",
                            "DCAT-AP", "GeoDCAT-AP", "NGCMP", "FG3D", "NoMetadata"},
     metadata_encoding |-> {"xml", "json", "gpkg"}, uom |-> {"M", "FT", "K", "MI"},
     storage_technology |-> {"file-system"},
     tiling_scheme |-> {Absent, "CDB1GlobalGrid", "GNOSISGlobalGrid"}]

\* conformance_classes: a keyword or an array of tokens, [keyword, tokens].
ClassesRead(value) ==
    IF value.keyword # Absent THEN value.keyword \in {"all", "mandatory"}
    ELSE value.tokens \subseteq ClassTokens
Classes(value) ==
    CASE value.keyword = "all" -> ClassTokens
      [] value.keyword = "mandatory" -> Mandatory
      [] OTHER -> value.tokens

\* A name that says something on one line; a component is never empty and has
\* no separator; an extension has no dot either.
ReportName(name) == ~Name!All(name, Name!Blank) /\ ~\E i \in DOMAIN name : name[i] \in Name!Control
Component(text) == text # <<>> /\ \A i \in DOMAIN text : text[i] # "/"
Extension(text) == Component(text) /\ \A i \in DOMAIN text : text[i] # "."

\* read_storage_crs: exactly one of the two; a path is one beside the descriptor.
StorageCrs(d) ==
    IF (d.storage_crs_wkt = Absent) = (d.storage_crs_wkt_path = Absent) THEN Absent
    ELSE IF d.storage_crs_wkt # Absent THEN d.storage_crs_wkt
    ELSE IF d.storage_crs_wkt_path \in DOMAIN CrsFile THEN CrsFile[d.storage_crs_wkt_path]
    ELSE Absent

\* Descriptor::into_profile.
IntoProfile(d) ==
    /\ ReportName(d.name)
    /\ Component(d.resource_metadata_dir) /\ Component(d.root_folder_name)
    /\ \A entry \in d.reserved_names : Component(entry)
    /\ \A entry \in d.known_extensions : Extension(entry)
    /\ \A field \in DOMAIN Accepted : d[field] \in Accepted[field]
    /\ ClassesRead(d.conformance_classes)
    /\ StorageCrs(d) # Absent

\* DescriptorProfile::preflight: what validate will ask of the profile is asked
\* before a datastore is opened.
Preflight(d) ==
    /\ d.metadata_encoding = "gpkg" => GpkgBuilt /\ d.attribute_model = Absent
    /\ CrsAccepts(StorageCrs(d))
    /\ LanguageValid(d.language)
    /\ d.attribute_model # Absent => Checked(d.attribute_model) # Absent

Load(d) ==
    IF ~d.known_keys \/ ~IntoProfile(d) \/ ~Preflight(d) THEN Refusal
    ELSE [result |-> "ok",
          profile |-> [name |-> d.name, case_rule |-> d.case_rule, language |-> d.language,
                       reserved |-> d.reserved_names, crs |-> StorageCrs(d),
                       encoding |-> d.metadata_encoding,
                       classes |-> Classes(d.conformance_classes),
                       dir |-> d.resource_metadata_dir, extensions |-> d.known_extensions,
                       model |-> IF d.attribute_model = Absent THEN Absent
                                 ELSE Checked(d.attribute_model)]]

-----------------------------------------------------------------------------
(* The profile                                                             *)

\* style_guide: the convention directory is reserved by itself.
Reserved(profile) == {profile.dir} \cup profile.reserved
StyleAccepts(profile, path) == Name!StyleAcceptsPath(profile.case_rule, Reserved(profile), path)

\* is_resource_metadata: the parent component and the extension, case folded;
\* one character stands for the extension of an encoding.
IsResourceMetadata(profile, path, encodings) ==
    LET parts == Name!Split(Name!Relative(path), "/")
    IN  /\ Len(parts) > 1
        /\ Name!GuardEq(parts[Len(parts) - 1], profile.dir)
        /\ \E e \in Name!SplitExtension(Last(parts)).extension :
               \E known \in encodings : Name!GuardEq(e, known)

-----------------------------------------------------------------------------
(* Properties                                                              *)

Dotted(text) == \E i \in DOMAIN text : text[i] = "."

\* A descriptor that loads is a yardstick that lives: its directory holds
\* records, in any letter case, that its own guide accepts; each of its names
\* and extensions is one a file can have; and what validate asks of it never
\* fails.  The code does not keep this of a directory or a reserved name with a
\* dot in it: the guide compares stems.
YardstickLives(d) ==
    Load(d).result = "ok" =>
        LET p == Load(d).profile
            file == <<"A", ".", "b">>
            inside(dir) == <<"/">> \o dir \o <<"/">> \o file
        IN  /\ IsResourceMetadata(p, inside(p.dir), {<<"b">>})
            /\ IsResourceMetadata(p, inside(Name!Folded(p.dir)), {<<"b">>})
            /\ Name!ValidComponent(p.dir) /\ ~Dotted(p.dir)
                   => Name!StyleAccepts(p.case_rule, Reserved(p), p.dir)
            /\ \A n \in {x \in p.reserved : Name!ValidComponent(x) /\ ~Dotted(x)} :
                   StyleAccepts(p, <<"/">> \o n \o <<".", "b">>)
            /\ \A e \in p.extensions :
                   /\ Name!SplitExtension(<<"a", ".">> \o e).extension = {e}
                   /\ "NonSpecExtension" \notin Name!FileWarnings(<<"a", ".">> \o e, {Name!Folded(e)})
            /\ CrsAccepts(p.crs) /\ LanguageValid(p.language)
            /\ p.model # Absent => p.encoding # "gpkg" /\ Checked(p.model) = p.model
            /\ p.encoding = "gpkg" => GpkgBuilt
=============================================================================
