------------------------------ MODULE Conformance ------------------------------
(***************************************************************************)
(* Validating a datastore against an application profile:                  *)
(* src/conformance/validate/{mod,stages,sweep}.rs over the report of       *)
(* src/conformance/report.rs.                                              *)
(*                                                                         *)
(* `validate` inspects the datastore stage by stage and files what it      *)
(* finds by requirements class; an I/O error abandons the report.  Each    *)
(* validation judges one datastore by its own profile, so two of them can  *)
(* be compared.                                                            *)
(***************************************************************************)
EXTENDS Integers, FiniteSets, SequencesExt

CONSTANTS
    Validation,   \* the calls of validate, numbered in the order they are made
    Stores,       \* the datastores
    Profiles(_),  \* the profiles each call may be given, for a datastore
    NoScheme, NoModel

VARIABLES
    store,   \* the datastore under inspection
    profile, \* call -> the yardstick
    run      \* call -> stage, what was read so far, and the report

vars == <<store, profile, run>>

-----------------------------------------------------------------------------
(* Data *)

Mandatory == {"crs", "naming", "structure", "links", "metadata"}
Optional == <<"attribution", "coverages", "geometry", "tiling", "topology", "versioning">>
Class == Mandatory \cup Range(Optional)

\* A reserved folder, found by a comparison that folds case: under the name
\* the facade uses, or under another spelling.
Spelling == {"canonical", "variant"}
Element == {"domainSet", "uom", "windingOrder"}
Coverage == {"none", "checked", "unchecked"}

\* An attribute-model file at the top of global_metadata/.
ModelFile == [folder : Spelling, name : {"json", "xml", "xsd"},
              content : {"agreed", "other", "invalid", "unreadable"}]
\* The walk visits entries in name order.
WalkOrder ==
    << <<"variant", "json">>, <<"variant", "xml">>, <<"variant", "xsd">>,
       <<"canonical", "json">>, <<"canonical", "xml">>, <<"canonical", "xsd">> >>
EncodingOf(name) == IF name = "json" THEN "json" ELSE "xml"

\* What a datastore can be, as far as it is looked at: a name stands for one
\* file.  The yardstick of each call declares classes there are.
ConformanceAssumption ==
    /\ \A s \in Stores :
          /\ s.folder \in BOOLEAN /\ s.misnamed \in Nat
          /\ s.journal \in [Spelling -> {"absent", "sound", "broken", "unreadable"}]
          /\ s.models \subseteq ModelFile /\ IsFiniteSet(s.models)
          /\ \A m, n \in s.models : <<m.folder, m.name>> = <<n.folder, n.name>> => m = n
          /\ s.global.status \in {"read", "malformed", "missing", "unreadable"}
          /\ s.global.sound \in BOOLEAN /\ s.global.agrees \in BOOLEAN
          /\ s.crs \in {"agreed", "other", "missing", "unreadable"}
          /\ s.records \in Seq([status : {"ok", "malformed", "badlink", "unreadable"},
                                encoding : {"json", "xml"}, elements : SUBSET Element,
                                covers : BOOLEAN, keywords : BOOLEAN])
    /\ \A s \in Stores : \A p \in Profiles(s) :
          /\ DOMAIN p = Validation
          /\ \A v \in Validation :
                /\ DOMAIN p[v] = {"declared", "encoding", "scheme", "model", "admits"}
                /\ p[v].declared \subseteq Class
ASSUME ConformanceAssumption

Phase == {"declarations", "structure", "walk", "metadata", "encodings", "crs",
          "records", "optional", "sweep", "done", "aborted"}

Finding(class, code, about) == [class |-> class, code |-> code, about |-> about]
Datastore == <<"datastore">>
Record(i) == <<"record", i>>
Model(m) == <<"model", m>>

-----------------------------------------------------------------------------
(* The report *)

\* ConformanceReport::new.
EmptyReport ==
    [listed |-> Mandatory,
     coverage |-> [c \in Class |-> IF c \in Mandatory THEN "checked" ELSE "none"],
     found |-> EmptyBag]

\* A finding lists its class, with no content yet when it was not listed.
Files(report, findings) ==
    [report EXCEPT !.listed = @ \cup {f.class : f \in BagToSet(findings)},
                   !.found = @ (+) findings]
File(report, finding) == Files(report, SetToBag({finding}))
Times(finding, n) == IF n = 0 THEN EmptyBag ELSE [f \in {finding} |-> n]

DeclareClass(report, class) == [report EXCEPT !.listed = @ \cup {class}]
MarkContent(report, class) ==
    [report EXCEPT !.listed = @ \cup {class},
                   !.coverage[class] = IF @ = "none" THEN "checked" ELSE @]
MarkUnchecked(report, class) ==
    [report EXCEPT !.listed = @ \cup {class}, !.coverage[class] = "unchecked"]

IsConformant(report) == report.found = EmptyBag

-----------------------------------------------------------------------------
(* Stages 1 to 3: declarations, hierarchy, names *)

Begun ==
    [phase |-> "declarations", at |-> 1, models |-> {}, journal |-> FALSE,
     global |-> FALSE, crs |-> FALSE, parsed |-> {}, model |-> NoModel,
     judged |-> {}, report |-> EmptyReport]

To(v, phase, changed) == run' = [run EXCEPT ![v] = [changed EXCEPT !.phase = phase, !.at = 1]]
At(v, phase) ==
    /\ run[v].phase = phase
    /\ \A earlier \in Validation : earlier < v => run[earlier].phase \in {"done", "aborted"}
    /\ UNCHANGED <<store, profile>>
With(v, report) == [run[v] EXCEPT !.report = report]

Declarations(v) ==
    /\ At(v, "declarations")
    /\ To(v, "structure",
          With(v, Files(run[v].report,
                        SetToBag({Finding(c, "minimal-core", Datastore) :
                                     c \in Mandatory \ profile[v].declared}))))

Structure(v) ==
    /\ At(v, "structure")
    /\ To(v, "walk",
          IF store.folder THEN run[v]
          ELSE With(v, File(run[v].report,
                            Finding("structure", "file-root-global-metadata", Datastore))))

\* Reserved names are exempt from the case rule only in their exact spelling.
Misspelt(v) ==
    {w \in {"journal", "folder"} :
        /\ w = "journal" => store.journal["variant"] # "absent"
        /\ w = "folder" => \E m \in store.models : m.folder = "variant"
        /\ w \notin profile[v].admits}
\* The walk does not tell the spellings of the folder apart afterwards: what it
\* keeps of an attribute-model file is the file's name.
Walk(v) ==
    /\ At(v, "walk")
    /\ To(v, "metadata",
          [With(v, Files(run[v].report,
                         Times(Finding("naming", "name", Datastore),
                               store.misnamed + Cardinality(Misspelt(v)))))
           EXCEPT !.models = store.models,
                  !.journal = \E s \in Spelling : store.journal[s] # "absent"])

-----------------------------------------------------------------------------
(* Stages 4 to 6: metadata, storage CRS, resource records *)

\* An I/O error is no conformance finding: there is no report.
Abort(v) == To(v, "aborted", run[v])

Mismatches(v) ==
    {Finding("metadata", "metadata-encoding", e) :
        e \in IF store.global.encoding # profile[v].encoding THEN {Datastore} ELSE {}}
    \cup {Finding("metadata", "metadata-declaration", e) :
            e \in IF store.global.agrees THEN {} ELSE {Datastore}}

Metadata(v) ==
    /\ At(v, "metadata")
    /\ \/ store.global.status = "unreadable" /\ Abort(v)
       \/ /\ store.global.status = "read"
          /\ To(v, "encodings",
                [With(v, Files(run[v].report, SetToBag(Mismatches(v)))) EXCEPT !.global = TRUE])
       \/ /\ store.global.status \in {"missing", "malformed"}
          /\ To(v, "encodings",
                With(v, File(run[v].report, Finding("metadata", "metadata-record", Datastore))))

\* Metadata5: the names of all metadata files, read or not.
WronglyEncoded(v) ==
    LET p == profile[v].encoding
        global == store.global.status # "missing" /\ store.global.encoding # p
    IN  [models |-> Cardinality({m \in store.models : EncodingOf(m.name) # p}),
         records |-> {i \in DOMAIN store.records : store.records[i].encoding # p},
         global |-> IF global THEN 1 ELSE 0]
Encodings(v) ==
    LET wrong == WronglyEncoded(v)
    IN  /\ At(v, "encodings")
        /\ To(v, "crs",
              With(v, Files(run[v].report,
                       Times(Finding("metadata", "metadata-encoding", Datastore),
                             wrong.models + wrong.global)
                       (+) SetToBag({Finding("metadata", "metadata-encoding", Record(i)) :
                                        i \in wrong.records}))))

Crs(v) ==
    /\ At(v, "crs")
    /\ \/ store.crs = "unreadable" /\ Abort(v)
       \/ store.crs = "agreed" /\ To(v, "records", [run[v] EXCEPT !.crs = TRUE])
       \/ /\ store.crs = "other"
          /\ To(v, "records",
                [With(v, File(run[v].report, Finding("crs", "crsStorage", Datastore)))
                 EXCEPT !.crs = TRUE])
       \/ /\ store.crs = "missing"
          /\ To(v, "records",
                With(v, File(run[v].report, Finding("crs", "crs-record", Datastore))))

\* A record that does not parse is filed here and seen by no later stage; a
\* violated link is filed under Links.
FiledAs(status) ==
    CASE status = "badlink" -> <<"links", "link">>
      [] OTHER -> <<"metadata", "metadata-record">>
\* Mutant: it is kept.
ParseKeeping(v, i) ==
    LET r == store.records[i]
        kept == [run[v] EXCEPT !.parsed = @ \cup {i}, !.at = @ + 1]
    IN  IF r.status = "ok" THEN kept
        ELSE [kept EXCEPT !.report =
                 File(@, Finding(FiledAs(r.status)[1], FiledAs(r.status)[2], Record(i)))]
Parse(v, i) ==
    LET r == store.records[i]
        next == [run[v] EXCEPT !.at = @ + 1]
    IN  IF r.status = "ok" THEN [next EXCEPT !.parsed = @ \cup {i}]
        ELSE [next EXCEPT !.report =
                 File(@, Finding(FiledAs(r.status)[1], FiledAs(r.status)[2], Record(i)))]
ReadRecord(v) ==
    LET i == run[v].at
    IN  /\ At(v, "records")
        /\ \/ i > Len(store.records) /\ To(v, "optional", run[v])
           \/ /\ i <= Len(store.records)
              /\ \/ store.records[i].status = "unreadable" /\ Abort(v)
                 \/ /\ store.records[i].status # "unreadable"
                    /\ run' = [run EXCEPT ![v] = Parse(v, i)]

-----------------------------------------------------------------------------
(* Stage 7: one stage for each declared optional class *)

Carrying(v, element) ==
    {i \in run[v].parsed : element \in store.records[i].elements}

\* The file in the declared encoding, or else the first with an admitted name.
NamedIn(models, name) == \E m \in models : m.name = name
ModelName(models, encoding) ==
    LET admitted == SelectSeq(WalkOrder, LAMBDA w :
                        w[2] # "xsd" /\ \E m \in models : <<m.folder, m.name>> = w)
    IN  IF NamedIn(models, encoding) THEN encoding
        ELSE IF admitted = <<>> THEN NoModel ELSE Head(admitted)[2]

\* It is read in the folder of the exact name: a file listed under another
\* spelling is not found there.
ModelRead(v) ==
    {m \in store.models : /\ run[v].global /\ m.folder = "canonical"
                          /\ m.name = ModelName(run[v].models, store.global.encoding)}

\* validate_attribution
Attribution(v) ==
    LET file == ModelRead(v)
        m == CHOOSE m \in file : TRUE
        marked == MarkContent(run[v].report, "attribution")
    IN  IF file = {} THEN run[v]
        ELSE [With(v, IF m.content = "invalid"
                      THEN File(marked, Finding("attribution", "attribute-model-content", Model(m)))
                      ELSE marked)
              EXCEPT !.model = IF m.content = "invalid" THEN NoModel ELSE m.content,
                     !.judged = @ \cup {Model(m)}]

\* validate_coverages
Coverages(v) ==
    LET found == Carrying(v, "domainSet")
        unsound == {i \in found : ~store.records[i].covers}
    IN  IF found = {} THEN run[v]
        ELSE [With(v, Files(MarkContent(run[v].report, "coverages"),
                            SetToBag({Finding("coverages", "coverage-domainSet", Record(i)) :
                                         i \in unsound})))
              EXCEPT !.judged = @ \cup {<<"domainSet", i>> : i \in found}]

\* validate_geometry and validate_topology: content without a check.
Unchecked(v, class, element) ==
    IF Carrying(v, element) = {} THEN run[v]
    ELSE With(v, MarkUnchecked(run[v].report, class))

\* validate_tiling: without a readable CRS the scheme has no yardstick.
Tiling(v) ==
    LET unsound == run[v].crs /\ ~store.global.sound
        untagged == {i \in run[v].parsed : ~store.records[i].keywords}
    IN  IF ~run[v].global \/ store.global.scheme = NoScheme THEN run[v]
        ELSE [With(v, Files(MarkContent(run[v].report, "tiling"),
                        Times(Finding("tiling", "tiling-tilingscheme", Datastore),
                              IF unsound THEN 1 ELSE 0)
                        (+) SetToBag({Finding("tiling", "tileset-keywords", Record(i)) :
                                         i \in untagged})))
              EXCEPT !.judged = @ \cup {<<"scheme">>}]

\* validate_versioning: the signal folds case, `versions` reads the directory
\* of the exact name, and an absent directory is an empty journal.
JournalRead == store.journal["canonical"]
\* Mutant: a journal that does not parse is taken for an empty one.
VersioningLenient(v) ==
    IF ~run[v].global \/ ~run[v].journal THEN run[v]
    ELSE [With(v, MarkContent(run[v].report, "versioning"))
          EXCEPT !.judged = @ \cup {<<"journal", "canonical">>}]
Versioning(v) ==
    LET marked == MarkContent(run[v].report, "versioning")
    IN  IF ~run[v].global \/ ~run[v].journal THEN run[v]
        ELSE [With(v, IF JournalRead = "broken"
                      THEN File(marked, Finding("versioning", "versioning-collection", Datastore))
                      ELSE marked)
              EXCEPT !.judged = @ \cup {<<"journal", "canonical">>}]

Judge(v, class) ==
    CASE class = "attribution" -> Attribution(v)
      [] class = "coverages" -> Coverages(v)
      [] class = "geometry" -> Unchecked(v, "geometry", "uom")
      [] class = "tiling" -> Tiling(v)
      [] class = "topology" -> Unchecked(v, "topology", "windingOrder")
      [] class = "versioning" -> Versioning(v)

\* A read that fails ends the validation.
Blocked(v, class) ==
    \/ class = "attribution" /\ \E m \in ModelRead(v) : m.content = "unreadable"
    \/ /\ class = "versioning" /\ run[v].global /\ run[v].journal
       /\ JournalRead = "unreadable"

\* The declared classes are listed whether or not there is content.
OptionalStage(v) ==
    LET class == Optional[run[v].at]
        judged == Judge(v, class)
    IN  /\ At(v, "optional")
        /\ \/ run[v].at > Len(Optional) /\ To(v, "sweep", run[v])
           \/ /\ run[v].at <= Len(Optional)
              /\ class \in profile[v].declared
              /\ \/ Blocked(v, class) /\ Abort(v)
                 \/ /\ ~Blocked(v, class)
                    /\ run' = [run EXCEPT ![v] =
                                  [judged EXCEPT !.report = DeclareClass(@, class),
                                                 !.at = @ + 1]]
           \/ /\ run[v].at <= Len(Optional)
              /\ class \notin profile[v].declared
              /\ run' = [run EXCEPT ![v].at = @ + 1]

-----------------------------------------------------------------------------
(* Stage 8: content nobody declared, and the two cross-checks *)

\* Each class is convicted once, by the first signal of it.
Signalled(v) ==
    {c \in Range(Optional) :
        CASE c = "attribution" -> run[v].models # {}
          [] c = "tiling" -> run[v].global /\ store.global.scheme # NoScheme
          [] c = "versioning" -> run[v].journal
          [] c = "topology" -> Carrying(v, "windingOrder") # {}
          [] c = "coverages" -> Carrying(v, "domainSet") # {}
          [] c = "geometry" -> FALSE}

\* Mutant: undeclared content counts as checked.
ConvictedAsChecked(report, classes) ==
    Files([report EXCEPT !.listed = @ \cup classes,
                         !.coverage = [c \in Class |-> IF c \in classes THEN "checked" ELSE @[c]]],
          SetToBag({Finding(c, "undeclared", Datastore) : c \in classes}))
Convicted(report, classes) ==
    Files([report EXCEPT !.listed = @ \cup classes,
                         !.coverage = [c \in Class |-> IF c \in classes THEN "unchecked" ELSE @[c]]],
          SetToBag({Finding(c, "undeclared", Datastore) : c \in classes}))

CrossChecks(v) ==
    {Finding("tiling", "tiling-tilingscheme-consistent", e) :
        e \in IF run[v].global /\ NoScheme \notin {store.global.scheme, profile[v].scheme}
                 /\ store.global.scheme # profile[v].scheme
              THEN {Datastore} ELSE {}}
    \cup {Finding("attribution", "attribute-model", e) :
            e \in IF NoModel \notin {run[v].model, profile[v].model}
                     /\ run[v].model # profile[v].model
                  THEN {Datastore} ELSE {}}

\* Attr1-C: an attribute-model name that is not the literal one.
UnadmittedNames(v) == {m \in run[v].models : m.name = "xsd"}
\* Mutant: only the classes carried by a directory entry are swept.
SweepEntries(v) ==
    LET named == IF UnadmittedNames(v) = {} THEN run[v].report
                 ELSE MarkContent(run[v].report, "attribution")
        entries == Signalled(v) \cap {"attribution", "versioning"}
    IN  /\ At(v, "sweep")
        /\ To(v, "done",
              [With(v, Files(Convicted(named, entries \ profile[v].declared),
                         SetToBag({Finding("attribution", "attribute-model-C", Model(m)) :
                                      m \in UnadmittedNames(v)} \cup CrossChecks(v))))
               EXCEPT !.judged = @ \cup {Model(m) : m \in UnadmittedNames(v)}])
Sweep(v) ==
    LET named == IF UnadmittedNames(v) = {} THEN run[v].report
                 ELSE MarkContent(run[v].report, "attribution")
    IN  /\ At(v, "sweep")
        /\ To(v, "done",
              [With(v, Files(Convicted(named, Signalled(v) \ profile[v].declared),
                         SetToBag({Finding("attribution", "attribute-model-C", Model(m)) :
                                      m \in UnadmittedNames(v)} \cup CrossChecks(v))))
               EXCEPT !.judged = @ \cup {Model(m) : m \in UnadmittedNames(v)}])

-----------------------------------------------------------------------------

Init ==
    /\ store \in Stores
    /\ profile \in Profiles(store)
    /\ run = [v \in Validation |-> Begun]

Stage(v) ==
    \/ Declarations(v) \/ Structure(v) \/ Walk(v)
    \/ Metadata(v) \/ Encodings(v) \/ Crs(v) \/ ReadRecord(v)
    \/ OptionalStage(v) \/ Sweep(v)

\* One call after the other.
Next == \E v \in Validation : Stage(v)

Spec == Init /\ [][Next]_vars

-----------------------------------------------------------------------------
(* Properties *)

Done(v) == run[v].phase = "done"
Report(v) == run[v].report
Green(v) == Done(v) /\ IsConformant(Report(v))
CoverageOf(v, class) == Report(v).coverage[class]

\* What each optional class governs in the datastore, whether or not a stage
\* can read it.
Having(element) ==
    {<<element, i>> : i \in {i \in DOMAIN store.records : element \in store.records[i].elements}}
Content(class) ==
    CASE class = "attribution" -> {Model(m) : m \in store.models}
      [] class = "tiling" ->
            IF store.global.status # "missing" /\ store.global.scheme # NoScheme
            THEN {<<"scheme">>} ELSE {}
      [] class = "versioning" ->
            {<<"journal", s>> : s \in {s \in Spelling : store.journal[s] # "absent"}}
      [] class = "coverages" -> Having("domainSet")
      [] class = "geometry" -> Having("uom")
      [] class = "topology" -> Having("windingOrder")

\* What no stage may let pass once the class is declared.
Faulty(class) ==
    CASE class = "attribution" -> \E m \in store.models : m.content = "invalid" \/ m.name = "xsd"
      [] class = "tiling" -> ~store.global.sound \/ \E i \in DOMAIN store.records :
                                                       ~store.records[i].keywords
      [] class = "versioning" -> \E s \in Spelling : store.journal[s] \in {"broken", "unreadable"}
      [] class = "coverages" -> \E i \in DOMAIN store.records :
                                    /\ "domainSet" \in store.records[i].elements
                                    /\ ~store.records[i].covers
      [] OTHER -> FALSE

\* What lies in a folder of another spelling is not looked for.  Only snake_case
\* admits such a spelling of global_metadata; PascalCase admits one of versions.
FolderRejected == \A v \in Validation : "folder" \notin profile[v].admits
JournalFound ==
    \A v \in Validation :
        "journal" \in profile[v].admits => store.journal["variant"] = "absent"

\* Every validation is at a known stage, and its report covers known classes
\* with positive counts of findings.
TypeOK ==
    \A v \in Validation :
        /\ run[v].phase \in Phase
        /\ run[v].at \in 1 .. Len(Optional) + Len(store.records) + 1
        /\ run[v].models \subseteq ModelFile
        /\ run[v].parsed \subseteq DOMAIN store.records
        /\ Mandatory \subseteq Report(v).listed /\ Report(v).listed \subseteq Class
        /\ Report(v).coverage \in [Class -> Coverage]
        /\ IsABag(Report(v).found)

\* A conformant report leaves no governed content unmentioned: a class that has
\* content is one the profile declared, and is not shown as "no content".
\* Geometry is excepted from the declaration: its unit is no proof of content.
NoSilentPass ==
    \A v \in Validation : Green(v) =>
        \A c \in Range(Optional) : Content(c) # {} =>
            /\ c \in profile[v].declared \/ c = "geometry"
            /\ c \in profile[v].declared => CoverageOf(v, c) # "none"

\* "checked" is a promise: in a conformant report every piece of content of a
\* checked class was judged, and none of it is faulty.
CheckedMeansJudged ==
    \A v \in Validation : Green(v) =>
        \A c \in Range(Optional) : CoverageOf(v, c) = "checked" =>
            Content(c) \subseteq run[v].judged /\ ~Faulty(c)

\* Declaring less never earns a better verdict, nor more checking: of two
\* profiles that differ only in the classes declared, the one that declares
\* fewer is conformant only if the other is, and checks no class the other
\* does not.
LessIsNotGreener ==
    \A v, w \in Validation :
        (/\ Done(v) /\ Done(w)
         /\ profile[v].declared \subseteq profile[w].declared
         /\ profile[v] = [profile[w] EXCEPT !.declared = profile[v].declared]) =>
            /\ Green(v) => Green(w)
            /\ \A c \in Class : CoverageOf(v, c) = "checked" => CoverageOf(w, c) = "checked"

\* One fault is one finding: a record that does not parse is filed once and
\* draws nothing from the classes its elements belong to, and a class is
\* convicted of being undeclared once however much content betrays it.
OncePerFault ==
    \A v \in Validation : Done(v) =>
        /\ \A i \in {i \in DOMAIN store.records : store.records[i].status # "ok"} :
              \E f \in {f \in BagToSet(Report(v).found) :
                          f.about = Record(i) /\ f.code # "metadata-encoding"} :
                  /\ Report(v).found[f] = 1
                  /\ \A g \in BagToSet(Report(v).found) :
                        g.about = Record(i) /\ g.code # "metadata-encoding" => g = f
        /\ \A f \in BagToSet(Report(v).found) :
              f.code = "undeclared" =>
                  /\ Report(v).found[f] = 1
                  /\ f.class \notin profile[v].declared /\ Content(f.class) # {}

\* There is no report exactly when something cannot be read: a fault of the
\* content is a finding, never an error, and an unreadable record is never
\* skipped.
ErrorIsOperational ==
    \A v \in Validation :
        /\ run[v].phase = "aborted" =>
              \/ store.global.status = "unreadable" \/ store.crs = "unreadable"
              \/ \E i \in DOMAIN store.records : store.records[i].status = "unreadable"
              \/ "unreadable" \in Range(store.journal) /\ "versioning" \in profile[v].declared
              \/ /\ "attribution" \in profile[v].declared
                 /\ \E m \in store.models : m.content = "unreadable"
        /\ Done(v) =>
              /\ store.global.status # "unreadable" /\ store.crs # "unreadable"
              /\ \A i \in DOMAIN store.records : store.records[i].status # "unreadable"

\* Each fault is answered once, in one of the two ways.
FaultsAnswered == OncePerFault /\ ErrorIsOperational

=============================================================================
