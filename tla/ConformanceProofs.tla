------------------------- MODULE ConformanceProofs -------------------------
(***************************************************************************)
(* What a verdict stands for, for every datastore, every yardstick and any *)
(* number of validations: a conformant report leaves no content unmentioned*)
(* and its "checked" is true, declaring less earns nothing, and each fault *)
(* is answered once.                                                       *)
(*                                                                         *)
(* The properties are about reports that are complete.  The invariant says *)
(* of a report under way what the stages so far have made of it: it is     *)
(* without findings exactly if what they judged is without faults          *)
(* (Verdict), its coverage is what they came across (Marks), and what has  *)
(* been filed under a record or a class is what it will be (Filed).  What  *)
(* the early stages kept is what is in the datastore (Kept), so that the   *)
(* late ones, which look at nothing else, judge the datastore.             *)
(***************************************************************************)
EXTENDS Conformance, FiniteSetTheorems, TLAPS

-----------------------------------------------------------------------------
(* The inductive invariant *)

\* Which stages lie behind a validation.
AfterDeclarations == {"structure", "walk", "metadata", "encodings", "crs", "records",
                      "optional", "sweep", "done"}
AfterStructure == {"walk", "metadata", "encodings", "crs", "records", "optional", "sweep", "done"}
AfterWalk == {"metadata", "encodings", "crs", "records", "optional", "sweep", "done"}
AfterMetadata == {"encodings", "crs", "records", "optional", "sweep", "done"}
AfterEncodings == {"crs", "records", "optional", "sweep", "done"}
AfterCrs == {"records", "optional", "sweep", "done"}
AfterRecords == {"optional", "sweep", "done"}
AfterOptional == {"sweep", "done"}

\* The records parsed and the declared classes judged by now.
Seen(v) ==
    {i \in DOMAIN store.records :
        run[v].phase \in AfterRecords \/ (run[v].phase = "records" /\ i < run[v].at)}
Passed(v) ==
    {c \in profile[v].declared :
        \E k \in 1 .. 6 : /\ Optional[k] = c
                          /\ run[v].phase \in AfterOptional
                             \/ (run[v].phase = "optional" /\ k < run[v].at)}

\* What a class's stage comes across, of what it shows, and what makes it file a
\* finding.
CameAcross(v, class) ==
    CASE class = "attribution" -> ModelRead(v) # {}
      [] class = "coverages" -> Carrying(v, "domainSet") # {}
      [] class = "geometry" -> Carrying(v, "uom") # {}
      [] class = "tiling" -> run[v].global /\ store.global.scheme # NoScheme
      [] class = "topology" -> Carrying(v, "windingOrder") # {}
      [] class = "versioning" -> run[v].global /\ run[v].journal
MarkOf(class) == IF class \in {"geometry", "topology"} THEN "unchecked" ELSE "checked"
Looked(v, class) ==
    CASE class = "attribution" -> {Model(m) : m \in ModelRead(v)}
      [] class = "coverages" -> {<<"domainSet", i>> : i \in Carrying(v, "domainSet")}
      [] class = "tiling" -> {<<"scheme">>}
      [] class = "versioning" -> {<<"journal", "canonical">>}
      [] OTHER -> {}
Sound(v, class) ==
    CASE class = "attribution" -> \A m \in ModelRead(v) : m.content # "invalid"
      [] class = "coverages" -> \A i \in Carrying(v, "domainSet") : store.records[i].covers
      [] class = "tiling" ->
            run[v].global /\ store.global.scheme # NoScheme =>
                /\ run[v].crs => store.global.sound
                /\ \A i \in run[v].parsed : store.records[i].keywords
      [] class = "versioning" -> run[v].global /\ run[v].journal => JournalRead # "broken"
      [] OTHER -> TRUE
ModelOf(v) ==
    IF \E m \in ModelRead(v) : m.content # "invalid"
    THEN (CHOOSE m \in ModelRead(v) : TRUE).content ELSE NoModel

Fields == {"phase", "at", "models", "journal", "global", "crs", "parsed", "model", "judged", "report"}
Shaped(v) ==
    /\ DOMAIN run[v] = Fields
    /\ DOMAIN Report(v) = {"listed", "coverage", "found"}
    /\ IsABag(Report(v).found)
    /\ Report(v).coverage \in [Class -> Coverage]
    /\ Mandatory \subseteq Report(v).listed /\ Report(v).listed \subseteq Class

Placed(v) ==
    /\ run[v].phase \in Phase
    /\ run[v].phase = "records" => run[v].at \in 1 .. Len(store.records) + 1
    /\ run[v].phase = "optional" => run[v].at \in 1 .. 7
    /\ run[v].phase \notin {"records", "optional"} => run[v].at = 1

\* What the early stages kept is what is there.
Kept(v) ==
    /\ run[v].models \subseteq ModelFile
    /\ run[v].parsed \subseteq DOMAIN store.records
    /\ run[v].phase \in AfterWalk =>
          /\ run[v].models = store.models
          /\ run[v].journal <=> \E s \in Spelling : store.journal[s] # "absent"
    /\ run[v].global => run[v].phase \in AfterMetadata \cup {"aborted"}
    /\ run[v].crs => run[v].phase \in AfterCrs \cup {"aborted"}
    /\ run[v].phase \in AfterMetadata =>
          /\ run[v].global <=> store.global.status = "read"
          /\ store.global.status # "unreadable"
    /\ run[v].phase \in AfterCrs =>
          /\ run[v].crs <=> store.crs \in {"agreed", "other"}
          /\ store.crs # "unreadable"
    /\ run[v].phase # "aborted" =>
          /\ run[v].parsed = {i \in Seen(v) : store.records[i].status = "ok"}
          /\ \A i \in Seen(v) : store.records[i].status # "unreadable"
          /\ run[v].model = IF "attribution" \in Passed(v) THEN ModelOf(v) ELSE NoModel

\* The report has no finding exactly if the stages so far saw no fault.
Verdict(v) ==
    run[v].phase # "aborted" =>
        (IsConformant(Report(v)) <=>
            /\ run[v].phase \in AfterDeclarations => Mandatory \subseteq profile[v].declared
            /\ run[v].phase \in AfterStructure => store.folder
            /\ run[v].phase \in AfterWalk => store.misnamed = 0 /\ Misspelt(v) = {}
            /\ run[v].phase \in AfterMetadata =>
                  store.global.status = "read" /\ Mismatches(v) = {}
            /\ run[v].phase \in AfterEncodings =>
                  WronglyEncoded(v) = [models |-> 0, records |-> {}, global |-> 0]
            /\ run[v].phase \in AfterCrs => store.crs = "agreed"
            /\ \A i \in Seen(v) : store.records[i].status = "ok"
            /\ \A c \in Passed(v) : Sound(v, c)
            /\ run[v].phase = "done" =>
                  /\ Signalled(v) \subseteq profile[v].declared
                  /\ UnadmittedNames(v) = {} /\ CrossChecks(v) = {})

\* What a stage needs to have read to judge its class.
Readable(class) == class = "versioning" => JournalRead # "unreadable"

\* The coverage is what the stages came across, and all of that was judged.
Marks(v) ==
    /\ run[v].phase \notin {"done", "aborted"} =>
          \A c \in Class : CoverageOf(v, c) =
              IF c \in Mandatory THEN "checked"
              ELSE IF c \in Passed(v) /\ CameAcross(v, c) THEN MarkOf(c) ELSE "none"
    /\ run[v].phase = "done" =>
          \A c \in Class : CoverageOf(v, c) =
              IF c \in Mandatory THEN "checked"
              ELSE IF c \notin profile[v].declared
                   THEN IF c \in Signalled(v) THEN "unchecked" ELSE "none"
              ELSE IF \/ CameAcross(v, c)
                      \/ c = "attribution" /\ UnadmittedNames(v) # {}
                   THEN MarkOf(c) ELSE "none"
    /\ run[v].phase # "aborted" =>
          \A c \in Passed(v) : CameAcross(v, c) => Looked(v, c) \subseteq run[v].judged /\ Readable(c)

\* The findings on a record itself; its encoding is judged by its name.
About(v, i) ==
    {f \in BagToSet(Report(v).found) : f.about = Record(i) /\ f.code # "metadata-encoding"}
Filed(v) ==
    run[v].phase # "aborted" =>
        /\ \A i \in DOMAIN store.records \ Seen(v) : About(v, i) = {}
        /\ \A i \in Seen(v) : store.records[i].status # "ok" =>
              \E f \in About(v, i) : About(v, i) = {f} /\ Report(v).found[f] = 1
        /\ \A f \in BagToSet(Report(v).found) : f.code = "undeclared" =>
              /\ run[v].phase = "done" /\ Report(v).found[f] = 1
              /\ f.class \in Signalled(v) \ profile[v].declared

Stopped(v) ==
    run[v].phase = "aborted" =>
        \/ store.global.status = "unreadable" \/ store.crs = "unreadable"
        \/ \E i \in DOMAIN store.records : store.records[i].status = "unreadable"
        \/ "unreadable" \in Range(store.journal) /\ "versioning" \in profile[v].declared
        \/ /\ "attribution" \in profile[v].declared
           /\ \E m \in store.models : m.content = "unreadable"

Of(v) ==
    Shaped(v) /\ Placed(v) /\ Kept(v) /\ Verdict(v) /\ Marks(v) /\ Filed(v) /\ Stopped(v)
IInv ==
    /\ store \in Stores /\ profile \in Profiles(store)
    /\ DOMAIN run = Validation
    /\ \A v \in Validation : Of(v)

-----------------------------------------------------------------------------
(* Bags of findings *)

\* Filing findings adds up how often each of them is there.
LEMMA BagSum ==
    ASSUME NEW B, NEW C, IsABag(B), IsABag(C)
    PROVE  /\ IsABag(B (+) C)
           /\ BagToSet(B (+) C) = BagToSet(B) \cup BagToSet(C)
           /\ B (+) C = EmptyBag <=> B = EmptyBag /\ C = EmptyBag
           /\ \A f \in BagToSet(B) \ BagToSet(C) : (B (+) C)[f] = B[f]
           /\ \A f \in BagToSet(C) \ BagToSet(B) : (B (+) C)[f] = C[f]
<1>1. BagToSet(B (+) C) = BagToSet(B) \cup BagToSet(C)
  BY DEF BagToSet, (+)
<1>2. \A f \in DOMAIN B : B[f] \in Nat /\ B[f] > 0
  BY DEF IsABag
<1>3. \A f \in DOMAIN C : C[f] \in Nat /\ C[f] > 0
  BY DEF IsABag
<1>4. ASSUME NEW f \in DOMAIN (B (+) C)
      PROVE  (B (+) C)[f] \in {n \in Nat : n > 0}
  BY <1>2, <1>3, <1>4 DEF (+)
<1>5. IsABag(B (+) C)
  <2>1. B (+) C = [f \in DOMAIN (B (+) C) |-> (B (+) C)[f]]
    BY DEF (+)
  <2> QED
    BY <1>4, <2>1 DEF IsABag
<1>6. \A D : IsABag(D) => (D = EmptyBag <=> BagToSet(D) = {})
  BY DEF IsABag, EmptyBag, SetToBag, BagToSet
<1>7. B (+) C = EmptyBag <=> B = EmptyBag /\ C = EmptyBag
  BY <1>1, <1>5, <1>6
<1>8. /\ \A f \in BagToSet(B) \ BagToSet(C) : (B (+) C)[f] = B[f]
      /\ \A f \in BagToSet(C) \ BagToSet(B) : (B (+) C)[f] = C[f]
  BY <1>2, <1>3 DEF BagToSet, (+)
<1> QED
  BY <1>1, <1>5, <1>7, <1>8

\* A finding for each member of a set.
LEMMA BagOfSet ==
    ASSUME NEW S
    PROVE  /\ IsABag(SetToBag(S)) /\ BagToSet(SetToBag(S)) = S
           /\ SetToBag(S) = EmptyBag <=> S = {}
           /\ \A f \in S : SetToBag(S)[f] = 1
  BY DEF IsABag, EmptyBag, SetToBag, BagToSet

\* One finding, so many times.
LEMMA BagOfTimes ==
    ASSUME NEW f, NEW n \in Nat
    PROVE  /\ IsABag(Times(f, n)) /\ BagToSet(Times(f, n)) \subseteq {f}
           /\ Times(f, n) = EmptyBag <=> n = 0
  BY DEF IsABag, EmptyBag, SetToBag, BagToSet, Times

LEMMA NoFinding == IsABag(EmptyBag) /\ BagToSet(EmptyBag) = {}
  BY DEF IsABag, EmptyBag, SetToBag, BagToSet

LEMMA EmptySum == \A B : IsABag(B) => B (+) EmptyBag = B
  BY DEF IsABag, EmptyBag, SetToBag, (+)

LEMMA OptionalClasses ==
    /\ Len(Optional) = 6 /\ DOMAIN Optional = 1 .. 6
    /\ Optional[1] = "attribution" /\ Optional[2] = "coverages" /\ Optional[3] = "geometry"
    /\ Optional[4] = "tiling" /\ Optional[5] = "topology" /\ Optional[6] = "versioning"
    /\ Range(Optional) = {"attribution", "coverages", "geometry", "tiling", "topology", "versioning"}
    /\ Range(Optional) \cap Mandatory = {}
    /\ \A i, j \in 1 .. 6 : Optional[i] = Optional[j] => i = j
<1>1. /\ Len(Optional) = 6 /\ DOMAIN Optional = 1 .. 6
      /\ Optional[1] = "attribution" /\ Optional[2] = "coverages" /\ Optional[3] = "geometry"
      /\ Optional[4] = "tiling" /\ Optional[5] = "topology" /\ Optional[6] = "versioning"
  BY DEF Optional
<1>2. \A i \in 1 .. 6 : i = 1 \/ i = 2 \/ i = 3 \/ i = 4 \/ i = 5 \/ i = 6
  OBVIOUS
<1>3. Range(Optional) = {"attribution", "coverages", "geometry", "tiling", "topology", "versioning"}
  BY <1>1, <1>2 DEF Range
<1>4. \A i, j \in 1 .. 6 : Optional[i] = Optional[j] => i = j
  BY <1>1, <1>2
<1> QED
  BY <1>1, <1>3, <1>4 DEF Mandatory

-----------------------------------------------------------------------------
(* What one stage does to its validation *)

\* The other validations, the datastore and the yardsticks stay.
Alone(v) ==
    /\ UNCHANGED <<store, profile>>
    /\ DOMAIN run' = Validation
    /\ \A w \in Validation \ {v} : run'[w] = run[w]

\* A finding that a stage other than the reading of records may file.
Harmless(v, f) ==
    /\ f.class \in Class /\ f.code # "undeclared"
    /\ \A i \in DOMAIN store.records :
          f.about = Record(i) => f.code = "metadata-encoding" \/ i \in run[v].parsed

\* The report gets such findings, none exactly if what was judged is fine.
Adds(v, fine) ==
    \E B : /\ IsABag(B) /\ (B = EmptyBag <=> fine)
           /\ \A f \in BagToSet(B) : Harmless(v, f)
           /\ Report(v)'.found = Report(v).found (+) B
           /\ Report(v).listed \subseteq Report(v)'.listed /\ Report(v)'.listed \subseteq Class

Turns(v, from, to) ==
    /\ Alone(v)
    /\ DOMAIN run'[v] = Fields /\ DOMAIN Report(v)' = {"listed", "coverage", "found"}
    /\ run[v].phase = from /\ run'[v].phase = to /\ run'[v].at = 1

SameWalk(v) == run'[v].models = run[v].models /\ run'[v].journal = run[v].journal
SameGlobal(v) == run'[v].global = run[v].global
SameCrs(v) == run'[v].crs = run[v].crs
SameParsed(v) == run'[v].parsed = run[v].parsed
SameJudged(v) == run'[v].judged = run[v].judged /\ run'[v].model = run[v].model
SameCoverage(v) == Report(v)'.coverage = Report(v).coverage

LEMMA FilesReport ==
    ASSUME NEW r, NEW B, DOMAIN r = {"listed", "coverage", "found"}
    PROVE  /\ DOMAIN Files(r, B) = {"listed", "coverage", "found"}
           /\ Files(r, B).listed = r.listed \cup {f.class : f \in BagToSet(B)}
           /\ Files(r, B).coverage = r.coverage
           /\ Files(r, B).found = r.found (+) B
  BY DEF Files

LEMMA WithReport ==
    ASSUME NEW v, NEW r, DOMAIN run[v] = Fields
    PROVE  /\ DOMAIN With(v, r) = Fields
           /\ With(v, r).report = r
           /\ With(v, r).phase = run[v].phase /\ With(v, r).at = run[v].at
           /\ With(v, r).models = run[v].models /\ With(v, r).journal = run[v].journal
           /\ With(v, r).global = run[v].global /\ With(v, r).crs = run[v].crs
           /\ With(v, r).parsed = run[v].parsed /\ With(v, r).model = run[v].model
           /\ With(v, r).judged = run[v].judged
  BY DEF With, Fields

LEMMA GoesTo ==
    ASSUME NEW v \in Validation, NEW from, NEW to, NEW n, DOMAIN run = Validation,
           At(v, from), To(v, to, n), DOMAIN n = Fields,
           DOMAIN n.report = {"listed", "coverage", "found"}
    PROVE  /\ Turns(v, from, to)
           /\ Report(v)' = n.report
           /\ run'[v].models = n.models /\ run'[v].journal = n.journal
           /\ run'[v].global = n.global /\ run'[v].crs = n.crs
           /\ run'[v].parsed = n.parsed /\ run'[v].model = n.model
           /\ run'[v].judged = n.judged
  BY DEF At, To, Turns, Alone, Fields, Report

LEMMA FilingAdds ==
    ASSUME NEW v \in Validation, NEW B, NEW fine \in BOOLEAN, IsABag(B),
           Shaped(v), Report(v)' = Files(Report(v), B), B = EmptyBag <=> fine,
           \A f \in BagToSet(B) : Harmless(v, f)
    PROVE  Adds(v, fine) /\ SameCoverage(v)
<1>1. DOMAIN Report(v) = {"listed", "coverage", "found"}
  BY DEF Shaped
<1>2. /\ Report(v)'.found = Report(v).found (+) B
      /\ Report(v)'.listed = Report(v).listed \cup {f.class : f \in BagToSet(B)}
      /\ Report(v)'.coverage = Report(v).coverage
  BY <1>1, FilesReport
<1>3. Report(v)'.listed \subseteq Class
  BY <1>2 DEF Shaped, Harmless
<1> QED
  BY <1>2, <1>3 DEF Adds, SameCoverage

LEMMA NothingAdds ==
    ASSUME NEW v \in Validation, Shaped(v), Report(v)' = Report(v)
    PROVE  Adds(v, TRUE) /\ SameCoverage(v)
<1>1. IsABag(Report(v).found) /\ Report(v).listed \subseteq Class
  BY DEF Shaped
<1>2. Report(v).found (+) EmptyBag = Report(v).found
  BY <1>1 DEF IsABag, EmptyBag, SetToBag, (+)
<1> QED
  BY <1>1, <1>2, NoFinding DEF Adds, SameCoverage

SameSignals(v) == SameWalk(v) /\ SameGlobal(v) /\ SameCrs(v) /\ SameParsed(v)

LEMMA StoreFacts ==
    ASSUME IInv
    PROVE  /\ store.folder \in BOOLEAN /\ store.misnamed \in Nat
           /\ store.journal \in [Spelling -> {"absent", "sound", "broken", "unreadable"}]
           /\ store.models \subseteq ModelFile /\ IsFiniteSet(store.models)
           /\ \A m, n \in store.models : <<m.folder, m.name>> = <<n.folder, n.name>> => m = n
           /\ store.global.status \in {"read", "malformed", "missing", "unreadable"}
           /\ store.global.sound \in BOOLEAN /\ store.global.agrees \in BOOLEAN
           /\ store.crs \in {"agreed", "other", "missing", "unreadable"}
           /\ store.records \in Seq([status : {"ok", "malformed", "badlink", "unreadable"},
                                     encoding : {"json", "xml"}, elements : SUBSET Element,
                                     covers : BOOLEAN, keywords : BOOLEAN])
           /\ \A v \in Validation : profile[v].declared \subseteq Class
  BY ConformanceAssumption DEF IInv, ConformanceAssumption

\* Findings about the datastore, a model file or an element are about no record.
LEMMA NotARecord ==
    /\ \A i : Record(i) # Datastore
    /\ \A i, m : Record(i) # Model(m)
    /\ \A i, j : Record(i) = Record(j) => i = j
  BY DEF Record, Datastore, Model

LEMMA ClassNames ==
    Class = {"crs", "naming", "structure", "links", "metadata", "attribution", "coverages",
             "geometry", "tiling", "topology", "versioning"}
  BY OptionalClasses DEF Class, Mandatory


\* A stage that files findings and goes on.
LEMMA FilingStage ==
    ASSUME IInv, NEW v \in Validation, NEW from, NEW to, NEW B, NEW fine \in BOOLEAN,
           At(v, from), To(v, to, With(v, Files(run[v].report, B))),
           IsABag(B), B = EmptyBag <=> fine, \A f \in BagToSet(B) : Harmless(v, f)
    PROVE  /\ Turns(v, from, to) /\ Adds(v, fine) /\ SameCoverage(v)
           /\ SameSignals(v) /\ SameJudged(v)
<1> DEFINE n == With(v, Files(Report(v), B))
<1>1. Shaped(v) /\ DOMAIN run = Validation
  BY DEF IInv, Of
<1>2. /\ DOMAIN n = Fields /\ DOMAIN n.report = {"listed", "coverage", "found"}
      /\ n.report = Files(Report(v), B)
  BY <1>1, WithReport, FilesReport DEF Shaped
<1>3. At(v, from) /\ To(v, to, n)
  BY DEF Report
<1>4. /\ Turns(v, from, to) /\ Report(v)' = n.report
      /\ SameSignals(v) /\ SameJudged(v)
  <2> HIDE DEF n
  <2>1. /\ Turns(v, from, to) /\ Report(v)' = n.report
        /\ run'[v].models = n.models /\ run'[v].journal = n.journal
        /\ run'[v].global = n.global /\ run'[v].crs = n.crs
        /\ run'[v].parsed = n.parsed /\ run'[v].model = n.model
        /\ run'[v].judged = n.judged
    BY <1>1, <1>2, <1>3, GoesTo
  <2> QED
    BY <1>1, <2>1, WithReport
       DEF n, Shaped, SameSignals, SameWalk, SameGlobal, SameCrs, SameParsed, SameJudged
<1> QED
  BY <1>1, <1>2, <1>4, FilingAdds

\* A stage that finds nothing and goes on.
LEMMA QuietStage ==
    ASSUME IInv, NEW v \in Validation, NEW from, NEW to, At(v, from), To(v, to, run[v])
    PROVE  /\ Turns(v, from, to) /\ Adds(v, TRUE) /\ SameCoverage(v) /\ Report(v)' = Report(v)
           /\ SameSignals(v) /\ SameJudged(v)
<1>1. Shaped(v) /\ DOMAIN run = Validation
  BY DEF IInv, Of
<1>2. /\ Turns(v, from, to) /\ Report(v)' = Report(v)
      /\ SameSignals(v) /\ SameJudged(v)
  BY <1>1, GoesTo
     DEF Shaped, Report, SameSignals, SameWalk, SameGlobal, SameCrs, SameParsed, SameJudged
<1> QED
  BY <1>1, <1>2, NothingAdds

LEMMA DeclarationsEffect ==
    ASSUME IInv, NEW v \in Validation, Declarations(v)
    PROVE  /\ Turns(v, "declarations", "structure")
           /\ SameSignals(v) /\ SameJudged(v) /\ SameCoverage(v)
           /\ Adds(v, Mandatory \subseteq profile[v].declared)
<1> DEFINE S == {Finding(c, "minimal-core", Datastore) : c \in Mandatory \ profile[v].declared}
<1>1. At(v, "declarations") /\ To(v, "structure", With(v, Files(run[v].report, SetToBag(S))))
  BY DEF Declarations
<1>2. IsABag(SetToBag(S)) /\ BagToSet(SetToBag(S)) = S /\ (SetToBag(S) = EmptyBag <=> S = {})
  BY BagOfSet
<1>3. \A f \in S : Harmless(v, f)
  BY NotARecord, ClassNames DEF Harmless, Finding, Mandatory
<1>4. S = {} <=> Mandatory \subseteq profile[v].declared
  OBVIOUS
<1> QED
  BY <1>1, <1>2, <1>3, <1>4, FilingStage

LEMMA StructureEffect ==
    ASSUME IInv, NEW v \in Validation, Structure(v)
    PROVE  /\ Turns(v, "structure", "walk")
           /\ SameSignals(v) /\ SameJudged(v) /\ SameCoverage(v)
           /\ Adds(v, store.folder)
<1> DEFINE f == Finding("structure", "file-root-global-metadata", Datastore)
<1>1. CASE store.folder
  <2>1. At(v, "structure") /\ To(v, "walk", run[v])
    BY <1>1 DEF Structure
  <2>2. Adds(v, TRUE) => Adds(v, store.folder)
    BY <1>1 DEF Adds
  <2> QED
    BY <2>1, <2>2, QuietStage
<1>2. CASE ~store.folder
  <2>1. At(v, "structure") /\ To(v, "walk", With(v, Files(run[v].report, SetToBag({f}))))
    BY <1>2 DEF Structure, File
  <2>2. Harmless(v, f)
    BY NotARecord, ClassNames DEF Harmless, Finding
  <2>3. Adds(v, FALSE) => Adds(v, store.folder)
    BY <1>2 DEF Adds
  <2> HIDE DEF f
  <2>4. /\ IsABag(SetToBag({f})) /\ (SetToBag({f}) = EmptyBag <=> FALSE)
        /\ \A g \in BagToSet(SetToBag({f})) : Harmless(v, g)
    BY <2>2, BagOfSet
  <2> QED
    BY <2>1, <2>3, <2>4, FilingStage
<1> QED
  BY <1>1, <1>2, StoreFacts

LEMMA WalkEffect ==
    ASSUME IInv, NEW v \in Validation, Walk(v)
    PROVE  /\ Turns(v, "walk", "metadata")
           /\ run'[v].models = store.models
           /\ run'[v].journal <=> \E s \in Spelling : store.journal[s] # "absent"
           /\ SameGlobal(v) /\ SameCrs(v) /\ SameParsed(v) /\ SameJudged(v) /\ SameCoverage(v)
           /\ Adds(v, store.misnamed = 0 /\ Misspelt(v) = {})
<1> DEFINE f == Finding("naming", "name", Datastore)
<1> DEFINE count == store.misnamed + Cardinality(Misspelt(v))
<1> DEFINE B == Times(f, count)
<1> DEFINE m == With(v, Files(Report(v), B))
<1> DEFINE n == [m EXCEPT !.models = store.models,
                          !.journal = \E s \in Spelling : store.journal[s] # "absent"]
<1>1. Shaped(v) /\ DOMAIN run = Validation
  BY DEF IInv, Of
<1>2. At(v, "walk") /\ To(v, "metadata", n)
  BY DEF Walk, Report
<1>3. /\ count \in Nat
      /\ count = 0 <=> store.misnamed = 0 /\ Misspelt(v) = {}
  <2>1. IsFiniteSet(Misspelt(v))
    <3>1. IsFiniteSet({"journal", "folder"})
      <4>1. IsFiniteSet({"journal"})
        BY FS_Singleton
      <4>2. {"journal", "folder"} = {"journal"} \cup {"folder"}
        OBVIOUS
      <4> QED
        BY <4>1, <4>2, FS_AddElement
    <3> QED
      BY <3>1, FS_Subset DEF Misspelt
  <2>2. /\ Cardinality(Misspelt(v)) \in Nat
        /\ Cardinality(Misspelt(v)) = 0 <=> Misspelt(v) = {}
    BY <2>1, FS_CardinalityType, FS_EmptySet
  <2> QED
    BY <2>2, StoreFacts
<1>4. Harmless(v, f)
  BY NotARecord, ClassNames DEF Harmless, Finding
<1>5. /\ IsABag(B) /\ (B = EmptyBag <=> store.misnamed = 0 /\ Misspelt(v) = {})
      /\ \A g \in BagToSet(B) : Harmless(v, g)
  <2> HIDE DEF f, count
  <2> QED
    BY <1>3, <1>4, BagOfTimes
<1>6. /\ DOMAIN m = Fields /\ m.report = Files(Report(v), B)
      /\ DOMAIN m.report = {"listed", "coverage", "found"}
      /\ m.global = run[v].global /\ m.crs = run[v].crs /\ m.parsed = run[v].parsed
      /\ m.model = run[v].model /\ m.judged = run[v].judged
  <2> HIDE DEF B
  <2> QED
    BY <1>1, WithReport, FilesReport DEF Shaped
<1>7. /\ DOMAIN n = Fields /\ n.report = m.report /\ n.models = store.models
      /\ n.journal = \E s \in Spelling : store.journal[s] # "absent"
      /\ n.global = run[v].global /\ n.crs = run[v].crs /\ n.parsed = run[v].parsed
      /\ n.model = run[v].model /\ n.judged = run[v].judged
  <2> HIDE DEF m
  <2> QED
    BY <1>6 DEF Fields
<1> HIDE DEF n, m
<1>0. DOMAIN n = Fields /\ DOMAIN n.report = {"listed", "coverage", "found"}
  BY <1>6, <1>7
<1>8. /\ Turns(v, "walk", "metadata") /\ Report(v)' = n.report
      /\ run'[v].models = n.models /\ run'[v].journal = n.journal
      /\ run'[v].global = n.global /\ run'[v].crs = n.crs
      /\ run'[v].parsed = n.parsed /\ run'[v].model = n.model
      /\ run'[v].judged = n.judged
  <2> HIDE DEF B, count, f
  <2> QED
    BY <1>0, <1>1, <1>2, GoesTo
<1>9. Adds(v, store.misnamed = 0 /\ Misspelt(v) = {}) /\ SameCoverage(v)
  <2> HIDE DEF B, m
  <2> QED
    BY <1>1, <1>5, <1>6, <1>7, <1>8, FilingAdds
<1> QED
  BY <1>7, <1>8, <1>9 DEF SameGlobal, SameCrs, SameParsed, SameJudged

\* The validation ends without a report; all that was kept stays.
Ends(v, from) ==
    /\ Turns(v, from, "aborted") /\ Report(v)' = Report(v)
    /\ SameSignals(v) /\ SameJudged(v)

LEMMA AbortEffect ==
    ASSUME IInv, NEW v \in Validation, NEW from, At(v, from), Abort(v)
    PROVE  Ends(v, from)
  BY QuietStage DEF Abort, Ends

LEMMA MetadataEffect ==
    ASSUME IInv, NEW v \in Validation, Metadata(v)
    PROVE  \/ store.global.status = "unreadable" /\ Ends(v, "metadata")
           \/ /\ Turns(v, "metadata", "encodings") /\ store.global.status # "unreadable"
              /\ Adds(v, store.global.status = "read" /\ Mismatches(v) = {})
              /\ run'[v].global <=> store.global.status = "read"
              /\ SameWalk(v) /\ SameCrs(v) /\ SameParsed(v) /\ SameJudged(v) /\ SameCoverage(v)
<1>1. Shaped(v) /\ DOMAIN run = Validation
  BY DEF IInv, Of
<1>2. At(v, "metadata")
  BY DEF Metadata
<1>3. CASE store.global.status = "unreadable"
  BY <1>2, <1>3, AbortEffect DEF Metadata
<1>4. CASE store.global.status = "read"
  <2> DEFINE B == SetToBag(Mismatches(v))
  <2> DEFINE m == With(v, Files(Report(v), B))
  <2> DEFINE n == [m EXCEPT !.global = TRUE]
  <2>1. To(v, "encodings", n)
    BY <1>4 DEF Metadata, Report
  <2>2. \A g \in Mismatches(v) : Harmless(v, g)
    BY NotARecord, ClassNames DEF Harmless, Finding, Mismatches
  <2>3. /\ IsABag(B) /\ (B = EmptyBag <=> Mismatches(v) = {})
        /\ \A g \in BagToSet(B) : Harmless(v, g)
    BY <2>2, BagOfSet
  <2>4. /\ DOMAIN m = Fields /\ m.report = Files(Report(v), B)
        /\ DOMAIN m.report = {"listed", "coverage", "found"}
        /\ m.models = run[v].models /\ m.journal = run[v].journal
        /\ m.crs = run[v].crs /\ m.parsed = run[v].parsed
        /\ m.model = run[v].model /\ m.judged = run[v].judged
    <3> HIDE DEF B
    <3> QED
      BY <1>1, WithReport, FilesReport DEF Shaped
  <2>5. /\ DOMAIN n = Fields /\ n.report = m.report /\ n.models = run[v].models
        /\ n.journal = run[v].journal /\ n.global = TRUE /\ n.crs = run[v].crs
        /\ n.parsed = run[v].parsed /\ n.model = run[v].model /\ n.judged = run[v].judged
    <3> HIDE DEF m
    <3> QED
      BY <2>4 DEF Fields
  <2> HIDE DEF n, m, B
  <2>6. DOMAIN n = Fields /\ DOMAIN n.report = {"listed", "coverage", "found"}
    BY <2>4, <2>5
  <2>7. /\ Turns(v, "metadata", "encodings") /\ Report(v)' = n.report
        /\ run'[v].models = n.models /\ run'[v].journal = n.journal
        /\ run'[v].global = n.global /\ run'[v].crs = n.crs
        /\ run'[v].parsed = n.parsed /\ run'[v].model = n.model
        /\ run'[v].judged = n.judged
    BY <1>1, <1>2, <2>1, <2>6, GoesTo
  <2>8. Adds(v, Mismatches(v) = {}) /\ SameCoverage(v)
    BY <1>1, <2>3, <2>4, <2>5, <2>7, FilingAdds
  <2>9. Adds(v, store.global.status = "read" /\ Mismatches(v) = {})
    BY <1>4, <2>8 DEF Adds
  <2> QED
    BY <1>4, <2>5, <2>7, <2>8, <2>9 DEF SameWalk, SameCrs, SameParsed, SameJudged
<1>5. CASE store.global.status \in {"missing", "malformed"}
  <2> DEFINE f == Finding("metadata", "metadata-record", Datastore)
  <2>1. To(v, "encodings", With(v, Files(run[v].report, SetToBag({f}))))
    BY <1>5 DEF Metadata, File
  <2>2. Harmless(v, f)
    BY NotARecord, ClassNames DEF Harmless, Finding
  <2> HIDE DEF f
  <2>3. /\ IsABag(SetToBag({f})) /\ (SetToBag({f}) = EmptyBag <=> FALSE)
        /\ \A g \in BagToSet(SetToBag({f})) : Harmless(v, g)
    BY <2>2, BagOfSet
  <2>4. /\ Turns(v, "metadata", "encodings") /\ Adds(v, FALSE) /\ SameCoverage(v)
        /\ SameSignals(v) /\ SameJudged(v)
    BY <1>2, <2>1, <2>3, FilingStage
  <2>5. Adds(v, store.global.status = "read" /\ Mismatches(v) = {})
    BY <1>5, <2>4 DEF Adds
  <2>6. ~run[v].global
    BY <1>2 DEF IInv, Of, Kept, At, AfterMetadata
  <2>7. run'[v].global = run[v].global
    BY <2>4 DEF SameSignals, SameGlobal
  <2> QED
    BY <1>5, <2>4, <2>5, <2>6, <2>7 DEF SameSignals
<1> QED
  BY <1>3, <1>4, <1>5, StoreFacts

LEMMA EncodingsEffect ==
    ASSUME IInv, NEW v \in Validation, Encodings(v)
    PROVE  /\ Turns(v, "encodings", "crs")
           /\ SameSignals(v) /\ SameJudged(v) /\ SameCoverage(v)
           /\ Adds(v, WronglyEncoded(v) = [models |-> 0, records |-> {}, global |-> 0])
<1> DEFINE wrong == WronglyEncoded(v)
<1> DEFINE f == Finding("metadata", "metadata-encoding", Datastore)
<1> DEFINE S == {Finding("metadata", "metadata-encoding", Record(i)) : i \in wrong.records}
<1> DEFINE B == Times(f, wrong.models + wrong.global) (+) SetToBag(S)
<1>1. At(v, "encodings") /\ To(v, "crs", With(v, Files(run[v].report, B)))
  BY DEF Encodings
<1>2. /\ wrong.models \in Nat /\ wrong.global \in Nat
      /\ wrong = [models |-> wrong.models, records |-> wrong.records, global |-> wrong.global]
  <2> DEFINE m == {m \in store.models : EncodingOf(m.name) # profile[v].encoding}
  <2>1. IsFiniteSet(m)
    BY StoreFacts, FS_Subset
  <2>2. Cardinality(m) \in Nat
    BY <2>1, FS_CardinalityType
  <2> QED
    BY <2>2 DEF WronglyEncoded
<1>3. \A g \in S \cup {f} : Harmless(v, g)
  BY NotARecord, ClassNames DEF Harmless, Finding
<1> HIDE DEF wrong, f
<1>4. /\ wrong.models + wrong.global \in Nat
      /\ wrong.models + wrong.global = 0 <=> wrong.models = 0 /\ wrong.global = 0
  BY <1>2
<1>5. S = {} <=> wrong.records = {}
  OBVIOUS
<1> HIDE DEF S
<1>6. /\ IsABag(SetToBag(S)) /\ BagToSet(SetToBag(S)) = S
      /\ SetToBag(S) = EmptyBag <=> S = {}
  BY BagOfSet
<1>7. \A n \in Nat : /\ IsABag(Times(f, n)) /\ BagToSet(Times(f, n)) \subseteq {f}
                     /\ Times(f, n) = EmptyBag <=> n = 0
  BY BagOfTimes
<1>8. /\ IsABag(B) /\ BagToSet(B) \subseteq S \cup {f}
      /\ B = EmptyBag <=> wrong.models = 0 /\ wrong.global = 0 /\ wrong.records = {}
  BY <1>4, <1>5, <1>6, <1>7, BagSum
<1>9. wrong = [models |-> 0, records |-> {}, global |-> 0]
        <=> wrong.models = 0 /\ wrong.global = 0 /\ wrong.records = {}
  BY <1>2
<1> HIDE DEF B
<1> QED
  BY <1>1, <1>3, <1>8, <1>9, FilingStage DEF wrong

LEMMA CrsEffect ==
    ASSUME IInv, NEW v \in Validation, Crs(v)
    PROVE  \/ store.crs = "unreadable" /\ Ends(v, "crs")
           \/ /\ Turns(v, "crs", "records") /\ store.crs # "unreadable"
              /\ Adds(v, store.crs = "agreed")
              /\ run'[v].crs <=> store.crs \in {"agreed", "other"}
              /\ SameWalk(v) /\ SameGlobal(v) /\ SameParsed(v) /\ SameJudged(v)
              /\ SameCoverage(v)
<1>1. Shaped(v) /\ DOMAIN run = Validation
  BY DEF IInv, Of
<1>2. At(v, "crs")
  BY DEF Crs
<1>3. CASE store.crs = "unreadable"
  BY <1>2, <1>3, AbortEffect DEF Crs
<1>4. CASE store.crs = "agreed"
  <2> DEFINE n == [run[v] EXCEPT !.crs = TRUE]
  <2>1. To(v, "records", n)
    BY <1>4 DEF Crs
  <2>2. /\ DOMAIN n = Fields /\ n.report = Report(v) /\ n.models = run[v].models
        /\ n.journal = run[v].journal /\ n.global = run[v].global /\ n.crs = TRUE
        /\ n.parsed = run[v].parsed /\ n.model = run[v].model /\ n.judged = run[v].judged
    BY <1>1 DEF Shaped, Fields, Report
  <2> HIDE DEF n
  <2>3. DOMAIN n.report = {"listed", "coverage", "found"}
    BY <1>1, <2>2 DEF Shaped
  <2>4. /\ Turns(v, "crs", "records") /\ Report(v)' = n.report
        /\ run'[v].models = n.models /\ run'[v].journal = n.journal
        /\ run'[v].global = n.global /\ run'[v].crs = n.crs
        /\ run'[v].parsed = n.parsed /\ run'[v].model = n.model
        /\ run'[v].judged = n.judged
    BY <1>1, <1>2, <2>1, <2>2, <2>3, GoesTo
  <2>5. Adds(v, TRUE) /\ SameCoverage(v)
    BY <1>1, <2>2, <2>4, NothingAdds
  <2>6. Adds(v, store.crs = "agreed")
    BY <1>4, <2>5 DEF Adds
  <2> QED
    BY <1>4, <2>2, <2>4, <2>5, <2>6 DEF SameWalk, SameGlobal, SameParsed, SameJudged
<1>5. CASE store.crs = "other"
  <2> DEFINE f == Finding("crs", "crsStorage", Datastore)
  <2> DEFINE B == SetToBag({f})
  <2> DEFINE m == With(v, Files(Report(v), B))
  <2> DEFINE n == [m EXCEPT !.crs = TRUE]
  <2>1. To(v, "records", n)
    BY <1>5 DEF Crs, Report, File
  <2>2. Harmless(v, f)
    BY NotARecord, ClassNames DEF Harmless, Finding
  <2> HIDE DEF f
  <2>3. /\ IsABag(B) /\ (B = EmptyBag <=> FALSE)
        /\ \A g \in BagToSet(B) : Harmless(v, g)
    BY <2>2, BagOfSet
  <2>4. /\ DOMAIN m = Fields /\ m.report = Files(Report(v), B)
        /\ DOMAIN m.report = {"listed", "coverage", "found"}
        /\ m.models = run[v].models /\ m.journal = run[v].journal
        /\ m.global = run[v].global /\ m.parsed = run[v].parsed
        /\ m.model = run[v].model /\ m.judged = run[v].judged
    <3> HIDE DEF B
    <3> QED
      BY <1>1, WithReport, FilesReport DEF Shaped
  <2>5. /\ DOMAIN n = Fields /\ n.report = m.report /\ n.models = run[v].models
        /\ n.journal = run[v].journal /\ n.global = run[v].global /\ n.crs = TRUE
        /\ n.parsed = run[v].parsed /\ n.model = run[v].model /\ n.judged = run[v].judged
    <3> HIDE DEF m
    <3> QED
      BY <2>4 DEF Fields
  <2> HIDE DEF n, m, B
  <2>6. DOMAIN n = Fields /\ DOMAIN n.report = {"listed", "coverage", "found"}
    BY <2>4, <2>5
  <2>7. /\ Turns(v, "crs", "records") /\ Report(v)' = n.report
        /\ run'[v].models = n.models /\ run'[v].journal = n.journal
        /\ run'[v].global = n.global /\ run'[v].crs = n.crs
        /\ run'[v].parsed = n.parsed /\ run'[v].model = n.model
        /\ run'[v].judged = n.judged
    BY <1>1, <1>2, <2>1, <2>6, GoesTo
  <2>8. Adds(v, FALSE) /\ SameCoverage(v)
    BY <1>1, <2>3, <2>4, <2>5, <2>7, FilingAdds
  <2>9. Adds(v, store.crs = "agreed")
    BY <1>5, <2>8 DEF Adds
  <2> QED
    BY <1>5, <2>5, <2>7, <2>8, <2>9 DEF SameWalk, SameGlobal, SameParsed, SameJudged
<1>6. CASE store.crs = "missing"
  <2> DEFINE f == Finding("crs", "crs-record", Datastore)
  <2>1. To(v, "records", With(v, Files(run[v].report, SetToBag({f}))))
    BY <1>6 DEF Crs, File
  <2>2. Harmless(v, f)
    BY NotARecord, ClassNames DEF Harmless, Finding
  <2> HIDE DEF f
  <2>3. /\ IsABag(SetToBag({f})) /\ (SetToBag({f}) = EmptyBag <=> FALSE)
        /\ \A g \in BagToSet(SetToBag({f})) : Harmless(v, g)
    BY <2>2, BagOfSet
  <2>4. /\ Turns(v, "crs", "records") /\ Adds(v, FALSE) /\ SameCoverage(v)
        /\ SameSignals(v) /\ SameJudged(v)
    BY <1>2, <2>1, <2>3, FilingStage
  <2>5. Adds(v, store.crs = "agreed")
    BY <1>6, <2>4 DEF Adds
  <2>6. ~run[v].crs
    BY <1>2 DEF IInv, Of, Kept, At, AfterCrs
  <2>7. run'[v].crs = run[v].crs
    BY <2>4 DEF SameSignals, SameCrs
  <2> QED
    BY <1>6, <2>4, <2>5, <2>6, <2>7 DEF SameSignals
<1> QED
  BY <1>3, <1>4, <1>5, <1>6, StoreFacts

\* A record or a class is judged and the validation goes on to the next one.
GoesOn(v, phase) ==
    /\ Alone(v)
    /\ DOMAIN run'[v] = Fields /\ DOMAIN Report(v)' = {"listed", "coverage", "found"}
    /\ run[v].phase = phase /\ run'[v].phase = phase /\ run'[v].at = run[v].at + 1

LEMMA ReadRecordEffect ==
    ASSUME IInv, NEW v \in Validation, ReadRecord(v)
    PROVE  \/ /\ run[v].at > Len(store.records) /\ Turns(v, "records", "optional")
              /\ SameSignals(v) /\ SameJudged(v) /\ Report(v)' = Report(v)
           \/ /\ run[v].at <= Len(store.records)
              /\ store.records[run[v].at].status = "unreadable" /\ Ends(v, "records")
           \/ /\ run[v].at <= Len(store.records) /\ GoesOn(v, "records")
              /\ store.records[run[v].at].status = "ok"
              /\ SameWalk(v) /\ SameGlobal(v) /\ SameCrs(v) /\ SameJudged(v)
              /\ run'[v].parsed = run[v].parsed \cup {run[v].at} /\ Report(v)' = Report(v)
           \/ /\ run[v].at <= Len(store.records) /\ GoesOn(v, "records")
              /\ store.records[run[v].at].status \notin {"ok", "unreadable"}
              /\ SameSignals(v) /\ SameJudged(v)
              /\ LET filed == FiledAs(store.records[run[v].at].status)
                 IN  Report(v)' = File(Report(v), Finding(filed[1], filed[2], Record(run[v].at)))
<1> DEFINE i == run[v].at
<1>1. Shaped(v) /\ DOMAIN run = Validation
  BY DEF IInv, Of
<1>2. At(v, "records")
  BY DEF ReadRecord
<1>3. CASE i > Len(store.records) /\ To(v, "optional", run[v])
  BY <1>2, <1>3, QuietStage
<1>4. CASE i <= Len(store.records) /\ store.records[i].status = "unreadable" /\ Abort(v)
  BY <1>2, <1>4, AbortEffect
<1>5. CASE /\ i <= Len(store.records) /\ store.records[i].status # "unreadable"
           /\ run' = [run EXCEPT ![v] = Parse(v, i)]
  <2> DEFINE filed == FiledAs(store.records[i].status)
  <2> DEFINE f == Finding(filed[1], filed[2], Record(i))
  <2>1. run'[v] = Parse(v, i)
    BY <1>1, <1>5
  <2>2. Alone(v) /\ run[v].phase = "records"
    BY <1>1, <1>2, <1>5 DEF Alone, At
  <2>3. CASE store.records[i].status = "ok"
    <3>1. run'[v] = [[run[v] EXCEPT !.at = @ + 1] EXCEPT !.parsed = @ \cup {i}]
      BY <2>1, <2>3 DEF Parse
    <3> QED
      BY <1>1, <1>5, <2>2, <2>3, <3>1
         DEF Shaped, Fields, GoesOn, Report, SameWalk, SameGlobal, SameCrs, SameJudged
  <2>4. CASE store.records[i].status # "ok"
    <3>1. run'[v] = [[run[v] EXCEPT !.at = @ + 1] EXCEPT !.report = File(@, f)]
      BY <2>1, <2>4 DEF Parse
    <3>2. DOMAIN File(Report(v), f) = {"listed", "coverage", "found"}
      BY <1>1, FilesReport DEF File, Shaped
    <3> HIDE DEF f
    <3>3. /\ DOMAIN run'[v] = Fields /\ Report(v)' = File(Report(v), f)
          /\ run'[v].phase = run[v].phase /\ run'[v].at = run[v].at + 1
          /\ SameSignals(v) /\ SameJudged(v)
      BY <1>1, <3>1
         DEF Shaped, Fields, Report, SameSignals, SameWalk, SameGlobal, SameCrs, SameParsed, SameJudged
    <3> QED
      BY <1>5, <2>2, <2>4, <3>2, <3>3 DEF GoesOn, f
  <2> QED
    BY <2>3, <2>4
<1> QED
  BY <1>3, <1>4, <1>5 DEF ReadRecord

-----------------------------------------------------------------------------
(* What the stage of an optional class makes of its validation *)

Judges(v, class, j) ==
    /\ DOMAIN j = Fields /\ DOMAIN j.report = {"listed", "coverage", "found"}
    /\ j.phase = run[v].phase /\ j.at = run[v].at
    /\ j.models = run[v].models /\ j.journal = run[v].journal /\ j.global = run[v].global
    /\ j.crs = run[v].crs /\ j.parsed = run[v].parsed
    /\ j.model = IF class = "attribution" THEN ModelOf(v) ELSE run[v].model
    /\ run[v].judged \subseteq j.judged
    /\ CameAcross(v, class) => Looked(v, class) \subseteq j.judged
    /\ j.report.coverage =
          IF CameAcross(v, class) THEN [Report(v).coverage EXCEPT ![class] = MarkOf(class)]
          ELSE Report(v).coverage
    /\ Report(v).listed \subseteq j.report.listed /\ j.report.listed \subseteq Class
    /\ \E B : /\ IsABag(B) /\ (B = EmptyBag <=> Sound(v, class))
              /\ \A f \in BagToSet(B) : Harmless(v, f)
              /\ j.report.found = Report(v).found (+) B

LEMMA MarkedReport ==
    ASSUME NEW r, NEW class \in Class, DOMAIN r = {"listed", "coverage", "found"},
           DOMAIN r.coverage = Class, r.coverage[class] = "none"
    PROVE  /\ DOMAIN MarkContent(r, class) = {"listed", "coverage", "found"}
           /\ MarkContent(r, class).listed = r.listed \cup {class}
           /\ MarkContent(r, class).coverage = [r.coverage EXCEPT ![class] = "checked"]
           /\ MarkContent(r, class).found = r.found
           /\ DOMAIN MarkUnchecked(r, class) = {"listed", "coverage", "found"}
           /\ MarkUnchecked(r, class).listed = r.listed \cup {class}
           /\ MarkUnchecked(r, class).coverage = [r.coverage EXCEPT ![class] = "unchecked"]
           /\ MarkUnchecked(r, class).found = r.found
  BY DEF MarkContent, MarkUnchecked

\* What a class's stage starts from.
Unjudged(v, class) ==
    /\ run[v].phase = "optional" /\ class \in Range(Optional)
    /\ Report(v).coverage[class] = "none"
    /\ class = "attribution" => run[v].model = NoModel

\* Content is marked, what is not sound in it filed.
LEMMA MarksAndFiles ==
    ASSUME IInv, NEW v \in Validation, NEW class \in Class, NEW B, NEW r,
           Report(v).coverage[class] = "none", IsABag(B),
           \A f \in BagToSet(B) : Harmless(v, f),
           r = Files(MarkContent(Report(v), class), B)
    PROVE  /\ DOMAIN r = {"listed", "coverage", "found"}
           /\ r.coverage = [Report(v).coverage EXCEPT ![class] = "checked"]
           /\ Report(v).listed \subseteq r.listed /\ r.listed \subseteq Class
           /\ r.found = Report(v).found (+) B
<1>1. /\ DOMAIN Report(v) = {"listed", "coverage", "found"} /\ DOMAIN Report(v).coverage = Class
      /\ Report(v).listed \subseteq Class
  BY DEF IInv, Of, Shaped
<1>2. \A f \in BagToSet(B) : f.class \in Class
  BY DEF Harmless
<1> DEFINE m == MarkContent(Report(v), class)
<1>3. /\ DOMAIN m = {"listed", "coverage", "found"} /\ m.listed = Report(v).listed \cup {class}
      /\ m.coverage = [Report(v).coverage EXCEPT ![class] = "checked"]
      /\ m.found = Report(v).found
  BY <1>1, MarkedReport
<1> HIDE DEF m
<1>4. r = Files(m, B)
  BY DEF m
<1> QED
  BY <1>1, <1>2, <1>3, <1>4, FilesReport

LEMMA NothingJudged ==
    ASSUME IInv, NEW v \in Validation, NEW class, Unjudged(v, class),
           ~CameAcross(v, class), Sound(v, class),
           class = "attribution" => ModelOf(v) = NoModel
    PROVE  Judges(v, class, run[v])
<1>1. Shaped(v)
  BY DEF IInv, Of
<1>2. Report(v).found (+) EmptyBag = Report(v).found
  BY <1>1 DEF Shaped, IsABag, EmptyBag, SetToBag, (+)
<1>3. \E B : /\ IsABag(B) /\ (B = EmptyBag <=> Sound(v, class))
             /\ \A f \in BagToSet(B) : Harmless(v, f)
             /\ run[v].report.found = Report(v).found (+) B
  BY <1>2, NoFinding DEF Report
<1>4. run[v].model = IF class = "attribution" THEN ModelOf(v) ELSE run[v].model
  BY DEF Unjudged
<1> QED
  BY <1>1, <1>3, <1>4 DEF Judges, Shaped, Report

\* There is one file of a name.
LEMMA OneModel ==
    ASSUME IInv, NEW v \in Validation
    PROVE  \A m, n \in ModelRead(v) : m = n
  BY StoreFacts DEF ModelRead

LEMMA AttributionJudges ==
    ASSUME IInv, NEW v \in Validation, Unjudged(v, "attribution")
    PROVE  Judges(v, "attribution", Attribution(v))
<1>1. Shaped(v) /\ "attribution" \in Class
  BY ClassNames DEF IInv, Of
<1>2. CASE ModelRead(v) = {}
  <2>1. Attribution(v) = run[v]
    BY <1>2 DEF Attribution
  <2>2. ~CameAcross(v, "attribution") /\ Sound(v, "attribution") /\ ModelOf(v) = NoModel
    BY <1>2 DEF CameAcross, Sound, ModelOf
  <2> QED
    BY <2>1, <2>2, NothingJudged
<1>3. CASE ModelRead(v) # {}
  <2> DEFINE m == CHOOSE m \in ModelRead(v) : TRUE
  <2> DEFINE S == IF m.content = "invalid"
                  THEN {Finding("attribution", "attribute-model-content", Model(m))} ELSE {}
  <2> DEFINE q == IF m.content = "invalid"
                  THEN Files(MarkContent(Report(v), "attribution"), SetToBag(S))
                  ELSE MarkContent(Report(v), "attribution")
  <2> DEFINE w == With(v, q)
  <2> DEFINE j == [w EXCEPT !.model = IF m.content = "invalid" THEN NoModel ELSE m.content,
                            !.judged = @ \cup {Model(m)}]
  <2>1. ModelRead(v) = {m}
    BY <1>3, OneModel
  <2>2. Attribution(v) = j
    BY <1>3 DEF Attribution, Report, File
  <2>3. \A f \in S : Harmless(v, f)
    BY <1>1, NotARecord DEF Harmless, Finding
  <2>4. S = {} <=> Sound(v, "attribution")
    BY <2>1 DEF Sound
  <2>5. IF m.content = "invalid" THEN NoModel = ModelOf(v) ELSE m.content = ModelOf(v)
    BY <2>1 DEF ModelOf
  <2>6. CameAcross(v, "attribution") /\ Looked(v, "attribution") = {Model(m)}
    BY <2>1 DEF CameAcross, Looked
  <2>7. Report(v).coverage["attribution"] = "none"
    BY DEF Unjudged
  <2> HIDE DEF S
  <2>8. /\ IsABag(SetToBag(S)) /\ BagToSet(SetToBag(S)) = S
        /\ SetToBag(S) = EmptyBag <=> S = {}
    BY BagOfSet
  <2>9. /\ DOMAIN q = {"listed", "coverage", "found"}
        /\ q.coverage = [Report(v).coverage EXCEPT !["attribution"] = "checked"]
        /\ Report(v).listed \subseteq q.listed /\ q.listed \subseteq Class
        /\ q.found = Report(v).found (+) SetToBag(S)
    <3>1. CASE m.content = "invalid"
      <4>1. q = Files(MarkContent(Report(v), "attribution"), SetToBag(S))
        BY <3>1
      <4> HIDE DEF q
      <4> QED
        BY <1>1, <2>3, <2>7, <2>8, <4>1, MarksAndFiles
    <3>2. CASE m.content # "invalid"
      <4>1. q = MarkContent(Report(v), "attribution")
        BY <3>2
      <4>2. SetToBag(S) = EmptyBag
        BY <2>8, <3>2 DEF S
      <4> HIDE DEF q
      <4>3. /\ DOMAIN q = {"listed", "coverage", "found"}
            /\ q.listed = Report(v).listed \cup {"attribution"}
            /\ q.coverage = [Report(v).coverage EXCEPT !["attribution"] = "checked"]
            /\ q.found = Report(v).found
        BY <1>1, <2>7, <4>1, MarkedReport DEF Shaped
      <4>4. Report(v).found (+) EmptyBag = Report(v).found
        BY <1>1, EmptySum DEF Shaped
      <4> QED
        BY <1>1, <4>2, <4>3, <4>4 DEF Shaped
    <3> QED
      BY <3>1, <3>2
  <2>10. /\ DOMAIN w = Fields /\ w.report = q
         /\ w.phase = run[v].phase /\ w.at = run[v].at
         /\ w.models = run[v].models /\ w.journal = run[v].journal
         /\ w.global = run[v].global /\ w.crs = run[v].crs
         /\ w.parsed = run[v].parsed /\ w.judged = run[v].judged
    <3> HIDE DEF q
    <3> QED
      BY <1>1, WithReport DEF Shaped
  <2>11. /\ DOMAIN j = Fields /\ j.report = q
         /\ j.phase = run[v].phase /\ j.at = run[v].at
         /\ j.models = run[v].models /\ j.journal = run[v].journal
         /\ j.global = run[v].global /\ j.crs = run[v].crs /\ j.parsed = run[v].parsed
         /\ j.model = ModelOf(v) /\ j.judged = run[v].judged \cup {Model(m)}
    <3> HIDE DEF w, q
    <3> QED
      BY <2>5, <2>10 DEF Fields
  <2> HIDE DEF j, w, q
  <2>12. MarkOf("attribution") = "checked"
    BY DEF MarkOf
  <2>13. \E B : /\ IsABag(B) /\ (B = EmptyBag <=> Sound(v, "attribution"))
                /\ \A f \in BagToSet(B) : Harmless(v, f)
                /\ j.report.found = Report(v).found (+) B
    BY <2>3, <2>4, <2>8, <2>9, <2>11
  <2> QED
    BY <2>2, <2>6, <2>9, <2>11, <2>12, <2>13 DEF Judges
<1> QED
  BY <1>2, <1>3

\* The stages that mark their class, file what is not sound and note what they
\* judged.
LEMMA ContentJudged ==
    ASSUME IInv, NEW v \in Validation, NEW class \in Class, NEW S, NEW B, NEW q, NEW j,
           Unjudged(v, class), class # "attribution", MarkOf(class) = "checked",
           CameAcross(v, class), IsABag(B), B = EmptyBag <=> Sound(v, class),
           \A f \in BagToSet(B) : Harmless(v, f), Looked(v, class) \subseteq S,
           DOMAIN q = {"listed", "coverage", "found"},
           q.coverage = [Report(v).coverage EXCEPT ![class] = "checked"],
           Report(v).listed \subseteq q.listed, q.listed \subseteq Class,
           q.found = Report(v).found (+) B,
           j = [With(v, q) EXCEPT !.judged = @ \cup S]
    PROVE  Judges(v, class, j)
<1> DEFINE w == With(v, q)
<1>1. DOMAIN run[v] = Fields /\ Report(v).coverage[class] = "none"
  BY DEF IInv, Of, Shaped, Unjudged
<1>3. /\ DOMAIN w = Fields /\ w.report = q
      /\ w.phase = run[v].phase /\ w.at = run[v].at
      /\ w.models = run[v].models /\ w.journal = run[v].journal
      /\ w.global = run[v].global /\ w.crs = run[v].crs
      /\ w.parsed = run[v].parsed /\ w.judged = run[v].judged /\ w.model = run[v].model
  BY <1>1, WithReport
<1>4. j = [w EXCEPT !.judged = @ \cup S]
  OBVIOUS
<1> HIDE DEF w
<1>5. /\ DOMAIN j = Fields /\ j.report = q
      /\ j.phase = run[v].phase /\ j.at = run[v].at
      /\ j.models = run[v].models /\ j.journal = run[v].journal
      /\ j.global = run[v].global /\ j.crs = run[v].crs /\ j.parsed = run[v].parsed
      /\ j.model = run[v].model /\ j.judged = run[v].judged \cup S
  BY <1>3, <1>4 DEF Fields
<1> QED
  BY <1>5 DEF Judges

LEMMA CoveragesJudges ==
    ASSUME IInv, NEW v \in Validation, Unjudged(v, "coverages")
    PROVE  Judges(v, "coverages", Coverages(v))
<1>1. CASE Carrying(v, "domainSet") = {}
  <2>1. Coverages(v) = run[v]
    BY <1>1 DEF Coverages
  <2>2. ~CameAcross(v, "coverages") /\ Sound(v, "coverages")
    BY <1>1 DEF CameAcross, Sound
  <2> QED
    BY <2>1, <2>2, NothingJudged
<1>2. CASE Carrying(v, "domainSet") # {}
  <2> DEFINE unsound == {i \in Carrying(v, "domainSet") : ~store.records[i].covers}
  <2> DEFINE S == {Finding("coverages", "coverage-domainSet", Record(i)) : i \in unsound}
  <2> DEFINE looked == {<<"domainSet", i>> : i \in Carrying(v, "domainSet")}
  <2> DEFINE B == SetToBag(S)
  <2> DEFINE j == [With(v, Files(MarkContent(Report(v), "coverages"), B))
                   EXCEPT !.judged = @ \cup looked]
  <2>1. Coverages(v) = j
    BY <1>2 DEF Coverages, Report
  <2>2. \A f \in S : Harmless(v, f)
    BY ClassNames, NotARecord DEF Harmless, Finding, Carrying
  <2>3. S = {} <=> Sound(v, "coverages")
    BY DEF Sound
  <2>4. CameAcross(v, "coverages") /\ Looked(v, "coverages") = looked
    BY <1>2 DEF CameAcross, Looked
  <2> HIDE DEF S, looked
  <2>5. /\ IsABag(B) /\ BagToSet(B) = S /\ (B = EmptyBag <=> S = {})
    BY BagOfSet
  <2>6. MarkOf("coverages") = "checked" /\ "coverages" \in Class
    BY ClassNames DEF MarkOf
  <2> HIDE DEF B
  <2> DEFINE q == Files(MarkContent(Report(v), "coverages"), B)
  <2>7. /\ DOMAIN q = {"listed", "coverage", "found"}
        /\ q.coverage = [Report(v).coverage EXCEPT !["coverages"] = "checked"]
        /\ Report(v).listed \subseteq q.listed /\ q.listed \subseteq Class
        /\ q.found = Report(v).found (+) B
    BY <2>2, <2>5, <2>6, MarksAndFiles DEF Unjudged
  <2>9. j = [With(v, q) EXCEPT !.judged = @ \cup looked]
    OBVIOUS
  <2> HIDE DEF j, q
  <2>8. Judges(v, "coverages", j)
    BY <2>2, <2>3, <2>4, <2>5, <2>6, <2>7, <2>9, ContentJudged
  <2> QED
    BY <2>1, <2>8
<1> QED
  BY <1>1, <1>2

LEMMA UncheckedJudges ==
    ASSUME IInv, NEW v \in Validation, NEW class \in {"geometry", "topology"}, NEW element,
           element = IF class = "geometry" THEN "uom" ELSE "windingOrder",
           Unjudged(v, class)
    PROVE  Judges(v, class, Unchecked(v, class, element))
<1>1. /\ CameAcross(v, class) <=> Carrying(v, element) # {}
      /\ Sound(v, class) /\ Looked(v, class) = {} /\ MarkOf(class) = "unchecked"
  BY DEF CameAcross, Sound, Looked, MarkOf
<1>2. CASE Carrying(v, element) = {}
  <2>1. Unchecked(v, class, element) = run[v]
    BY <1>2 DEF Unchecked
  <2> QED
    BY <1>1, <1>2, <2>1, NothingJudged
<1>3. CASE Carrying(v, element) # {}
  <2> DEFINE q == MarkUnchecked(Report(v), class)
  <2> DEFINE j == With(v, q)
  <2>1. Unchecked(v, class, element) = j
    BY <1>3 DEF Unchecked, Report
  <2>2. Shaped(v) /\ Report(v).coverage[class] = "none" /\ class \in Class
    BY ClassNames DEF IInv, Of, Unjudged
  <2>3. /\ DOMAIN q = {"listed", "coverage", "found"}
        /\ q.listed = Report(v).listed \cup {class}
        /\ q.coverage = [Report(v).coverage EXCEPT ![class] = "unchecked"]
        /\ q.found = Report(v).found
    BY <2>2, MarkedReport DEF Shaped
  <2> HIDE DEF q
  <2>4. /\ DOMAIN j = Fields /\ j.report = q
        /\ j.phase = run[v].phase /\ j.at = run[v].at
        /\ j.models = run[v].models /\ j.journal = run[v].journal
        /\ j.global = run[v].global /\ j.crs = run[v].crs
        /\ j.parsed = run[v].parsed /\ j.judged = run[v].judged /\ j.model = run[v].model
    BY <2>2, WithReport DEF Shaped
  <2> HIDE DEF j
  <2>5. j.report.found = Report(v).found (+) EmptyBag
    BY <2>2, <2>3, <2>4, EmptySum DEF Shaped
  <2>6. \E B : /\ IsABag(B) /\ (B = EmptyBag <=> Sound(v, class))
               /\ \A f \in BagToSet(B) : Harmless(v, f)
               /\ j.report.found = Report(v).found (+) B
    BY <1>1, <2>5, NoFinding
  <2> QED
    BY <1>1, <1>3, <2>1, <2>2, <2>3, <2>4, <2>6 DEF Judges, Shaped
<1> QED
  BY <1>2, <1>3

LEMMA TilingJudges ==
    ASSUME IInv, NEW v \in Validation, Unjudged(v, "tiling")
    PROVE  Judges(v, "tiling", Tiling(v))
<1>1. CASE ~run[v].global \/ store.global.scheme = NoScheme
  <2>1. Tiling(v) = run[v]
    BY <1>1 DEF Tiling
  <2>2. ~CameAcross(v, "tiling") /\ Sound(v, "tiling")
    BY <1>1 DEF CameAcross, Sound
  <2> QED
    BY <2>1, <2>2, NothingJudged
<1>2. CASE run[v].global /\ store.global.scheme # NoScheme
  <2> DEFINE unsound == run[v].crs /\ ~store.global.sound
  <2> DEFINE untagged == {i \in run[v].parsed : ~store.records[i].keywords}
  <2> DEFINE f == Finding("tiling", "tiling-tilingscheme", Datastore)
  <2> DEFINE count == IF unsound THEN 1 ELSE 0
  <2> DEFINE S == {Finding("tiling", "tileset-keywords", Record(i)) : i \in untagged}
  <2> DEFINE B == Times(f, count) (+) SetToBag(S)
  <2> DEFINE j == [With(v, Files(MarkContent(Report(v), "tiling"), B))
                   EXCEPT !.judged = @ \cup {<<"scheme">>}]
  <2>1. Tiling(v) = j
    BY <1>2 DEF Tiling, Report
  <2>2. \A g \in S \cup {f} : Harmless(v, g)
    BY ClassNames, NotARecord DEF Harmless, Finding
  <2>3. count = 0 /\ S = {} <=> Sound(v, "tiling")
    <3>1. S = {} <=> \A i \in run[v].parsed : store.records[i].keywords
      OBVIOUS
    <3>2. count = 0 <=> (run[v].crs => store.global.sound)
      OBVIOUS
    <3> QED
      BY <1>2, <3>1, <3>2 DEF Sound
  <2>4. CameAcross(v, "tiling") /\ Looked(v, "tiling") = {<<"scheme">>}
    BY <1>2 DEF CameAcross, Looked
  <2>5. count \in Nat
    OBVIOUS
  <2> HIDE DEF S, f, count
  <2>6. /\ IsABag(Times(f, count)) /\ BagToSet(Times(f, count)) \subseteq {f}
        /\ Times(f, count) = EmptyBag <=> count = 0
    BY <2>5, BagOfTimes
  <2>7. IsABag(SetToBag(S)) /\ BagToSet(SetToBag(S)) = S /\ (SetToBag(S) = EmptyBag <=> S = {})
    BY BagOfSet
  <2>8. /\ IsABag(B) /\ BagToSet(B) \subseteq S \cup {f}
        /\ B = EmptyBag <=> count = 0 /\ S = {}
    BY <2>6, <2>7, BagSum
  <2>9. MarkOf("tiling") = "checked" /\ "tiling" \in Class
    BY ClassNames DEF MarkOf
  <2> HIDE DEF B
  <2> DEFINE q == Files(MarkContent(Report(v), "tiling"), B)
  <2>10. /\ DOMAIN q = {"listed", "coverage", "found"}
         /\ q.coverage = [Report(v).coverage EXCEPT !["tiling"] = "checked"]
         /\ Report(v).listed \subseteq q.listed /\ q.listed \subseteq Class
         /\ q.found = Report(v).found (+) B
    BY <2>2, <2>8, <2>9, MarksAndFiles DEF Unjudged
  <2>12. j = [With(v, q) EXCEPT !.judged = @ \cup {<<"scheme">>}]
    OBVIOUS
  <2> HIDE DEF j, q
  <2>11. Judges(v, "tiling", j)
    BY <2>2, <2>3, <2>4, <2>8, <2>9, <2>10, <2>12, ContentJudged
  <2> QED
    BY <2>1, <2>11
<1> QED
  BY <1>1, <1>2

LEMMA VersioningJudges ==
    ASSUME IInv, NEW v \in Validation, Unjudged(v, "versioning")
    PROVE  Judges(v, "versioning", Versioning(v))
<1>1. CASE ~run[v].global \/ ~run[v].journal
  <2>1. Versioning(v) = run[v]
    BY <1>1 DEF Versioning
  <2>2. ~CameAcross(v, "versioning") /\ Sound(v, "versioning")
    BY <1>1 DEF CameAcross, Sound
  <2> QED
    BY <2>1, <2>2, NothingJudged
<1>2. CASE run[v].global /\ run[v].journal
  <2> DEFINE S == IF JournalRead = "broken"
                  THEN {Finding("versioning", "versioning-collection", Datastore)} ELSE {}
  <2> DEFINE B == SetToBag(S)
  <2> DEFINE q == IF JournalRead = "broken"
                  THEN Files(MarkContent(Report(v), "versioning"), B)
                  ELSE MarkContent(Report(v), "versioning")
  <2> DEFINE looked == {<<"journal", "canonical">>}
  <2>1. Versioning(v) = [With(v, q) EXCEPT !.judged = @ \cup looked]
    BY <1>2 DEF Versioning, Report, File
  <2>2. \A g \in S : Harmless(v, g)
    BY ClassNames, NotARecord DEF Harmless, Finding
  <2>3. S = {} <=> Sound(v, "versioning")
    BY <1>2 DEF Sound
  <2>4. CameAcross(v, "versioning") /\ Looked(v, "versioning") = looked
    BY <1>2 DEF CameAcross, Looked
  <2>5. MarkOf("versioning") = "checked" /\ "versioning" \in Class
    BY ClassNames DEF MarkOf
  <2>6. IsABag(SetToBag(S)) /\ BagToSet(SetToBag(S)) = S /\ (SetToBag(S) = EmptyBag <=> S = {})
    <3> HIDE DEF S
    <3> QED
      BY BagOfSet
  <2>7. /\ DOMAIN q = {"listed", "coverage", "found"}
        /\ q.coverage = [Report(v).coverage EXCEPT !["versioning"] = "checked"]
        /\ Report(v).listed \subseteq q.listed /\ q.listed \subseteq Class
        /\ q.found = Report(v).found (+) B
    <3>1. CASE JournalRead = "broken"
      <4>1. q = Files(MarkContent(Report(v), "versioning"), B)
        BY <3>1
      <4> HIDE DEF q, B, S
      <4> QED
        BY <2>2, <2>5, <2>6, <4>1, MarksAndFiles DEF Unjudged, B
    <3>2. CASE JournalRead # "broken"
      <4>1. q = MarkContent(Report(v), "versioning")
        BY <3>2
      <4>2. B = EmptyBag
        BY <2>6, <3>2
      <4> HIDE DEF q, B
      <4>3. /\ DOMAIN q = {"listed", "coverage", "found"}
            /\ q.listed = Report(v).listed \cup {"versioning"}
            /\ q.coverage = [Report(v).coverage EXCEPT !["versioning"] = "checked"]
            /\ q.found = Report(v).found
        BY <2>5, <4>1, MarkedReport DEF IInv, Of, Shaped, Unjudged
      <4> QED
        BY <2>5, <4>2, <4>3, EmptySum DEF IInv, Of, Shaped
    <3> QED
      BY <3>1, <3>2
  <2> HIDE DEF S, B, q, looked
  <2>8. Judges(v, "versioning", [With(v, q) EXCEPT !.judged = @ \cup looked])
    BY <2>2, <2>3, <2>4, <2>5, <2>6, <2>7, ContentJudged DEF B
  <2> QED
    BY <2>1, <2>8
<1> QED
  BY <1>1, <1>2

LEMMA JudgeJudges ==
    ASSUME IInv, NEW v \in Validation, NEW class, Unjudged(v, class)
    PROVE  Judges(v, class, Judge(v, class))
<1>1. CASE class = "attribution"
  <2>1. Judge(v, "attribution") = Attribution(v)
    BY DEF Judge
  <2> QED
    BY <1>1, <2>1, AttributionJudges
<1>2. CASE class = "coverages"
  <2>1. Judge(v, "coverages") = Coverages(v)
    BY DEF Judge
  <2> QED
    BY <1>2, <2>1, CoveragesJudges
<1>3. CASE class = "geometry"
  <2>1. Judge(v, "geometry") = Unchecked(v, "geometry", "uom")
    BY DEF Judge
  <2> QED
    BY <1>3, <2>1, UncheckedJudges
<1>4. CASE class = "tiling"
  <2>1. Judge(v, "tiling") = Tiling(v)
    BY DEF Judge
  <2> QED
    BY <1>4, <2>1, TilingJudges
<1>5. CASE class = "topology"
  <2>1. Judge(v, "topology") = Unchecked(v, "topology", "windingOrder")
    BY DEF Judge
  <2> QED
    BY <1>5, <2>1, UncheckedJudges
<1>6. CASE class = "versioning"
  <2>1. Judge(v, "versioning") = Versioning(v)
    BY DEF Judge
  <2> QED
    BY <1>6, <2>1, VersioningJudges
<1> QED
  BY <1>1, <1>2, <1>3, <1>4, <1>5, <1>6, OptionalClasses DEF Unjudged

LEMMA OptionalEffect ==
    ASSUME IInv, NEW v \in Validation, OptionalStage(v),
           NEW class, class = Optional[run[v].at]
    PROVE  \/ /\ run[v].at > 6 /\ Turns(v, "optional", "sweep")
              /\ SameSignals(v) /\ SameJudged(v) /\ Report(v)' = Report(v)
           \/ /\ run[v].at <= 6 /\ class \in profile[v].declared
              /\ Blocked(v, class) /\ Ends(v, "optional")
           \/ /\ run[v].at <= 6 /\ class \notin profile[v].declared /\ GoesOn(v, "optional")
              /\ SameSignals(v) /\ SameJudged(v) /\ Report(v)' = Report(v)
           \/ /\ run[v].at <= 6 /\ class \in profile[v].declared /\ ~Blocked(v, class)
              /\ GoesOn(v, "optional") /\ SameSignals(v)
              /\ \E j : /\ Judges(v, class, j)
                        /\ run'[v].model = j.model /\ run'[v].judged = j.judged
                        /\ Report(v)'.coverage = j.report.coverage
                        /\ Report(v)'.found = j.report.found
                        /\ Report(v)'.listed = j.report.listed \cup {class}
<1>1. Shaped(v) /\ DOMAIN run = Validation
  BY DEF IInv, Of
<1>2. At(v, "optional") /\ run[v].phase = "optional" /\ UNCHANGED <<store, profile>>
  BY DEF OptionalStage, At
<1>3. Len(Optional) = 6
  BY OptionalClasses
<1>4. CASE run[v].at > Len(Optional) /\ To(v, "sweep", run[v])
  BY <1>2, <1>3, <1>4, QuietStage
<1>5. CASE run[v].at <= Len(Optional) /\ class \in profile[v].declared
           /\ Blocked(v, class) /\ Abort(v)
  BY <1>2, <1>3, <1>5, AbortEffect
<1>6. CASE run[v].at <= Len(Optional) /\ class \notin profile[v].declared
           /\ run' = [run EXCEPT ![v].at = @ + 1]
  <2>1. run' = [run EXCEPT ![v] = [run[v] EXCEPT !.at = run[v].at + 1]]
    BY <1>6
  <2>2. run'[v] = [run[v] EXCEPT !.at = run[v].at + 1]
    BY <1>1, <2>1
  <2>3. Alone(v)
    BY <1>1, <1>2, <2>1 DEF Alone
  <2> QED
    BY <1>1, <1>2, <1>3, <1>6, <2>2, <2>3
       DEF Shaped, Fields, GoesOn, Report, SameSignals, SameWalk, SameGlobal, SameCrs,
           SameParsed, SameJudged
<1>7. CASE run[v].at <= Len(Optional) /\ class \in profile[v].declared /\ ~Blocked(v, class)
           /\ run' = [run EXCEPT ![v] = [Judge(v, class) EXCEPT !.report = DeclareClass(@, class),
                                                               !.at = @ + 1]]
  <2> DEFINE j == Judge(v, class)
  <2>1. run[v].at \in 1 .. 6
    BY <1>1, <1>2, <1>3, <1>7 DEF IInv, Of, Placed
  <2>2. Unjudged(v, class)
    <3>1. class \in Range(Optional) /\ class \notin Mandatory /\ class \in Class
      BY <2>1, OptionalClasses DEF Range, Class
    <3>2. class \notin Passed(v)
      BY <1>2, <2>1, OptionalClasses DEF Passed, AfterOptional
    <3>3. Report(v).coverage[class] = "none"
      BY <1>2, <3>1, <3>2 DEF IInv, Of, Marks, CoverageOf
    <3>4. class = "attribution" => run[v].model = NoModel
      BY <1>2, <3>2 DEF IInv, Of, Kept
    <3> QED
      BY <1>2, <3>1, <3>3, <3>4 DEF Unjudged
  <2>3. Judges(v, class, j)
    BY <2>2, JudgeJudges
  <2> HIDE DEF j
  <2>4. run' = [run EXCEPT ![v] = [j EXCEPT !.report = DeclareClass(@, class), !.at = @ + 1]]
    BY <1>7 DEF j
  <2>5. run'[v] = [j EXCEPT !.report = DeclareClass(@, class), !.at = @ + 1]
    BY <1>1, <2>4
  <2>6. Alone(v)
    BY <1>1, <1>2, <2>4 DEF Alone
  <2>7. DOMAIN j = Fields /\ DOMAIN j.report = {"listed", "coverage", "found"}
    BY <2>3 DEF Judges
  <2>8. /\ DOMAIN run'[v] = Fields /\ run'[v].at = j.at + 1 /\ run'[v].phase = j.phase
        /\ run'[v].models = j.models /\ run'[v].journal = j.journal
        /\ run'[v].global = j.global /\ run'[v].crs = j.crs /\ run'[v].parsed = j.parsed
        /\ run'[v].model = j.model /\ run'[v].judged = j.judged
        /\ run'[v].report = DeclareClass(j.report, class)
    BY <2>5, <2>7 DEF Fields
  <2>9. /\ DOMAIN Report(v)' = {"listed", "coverage", "found"}
        /\ Report(v)'.coverage = j.report.coverage /\ Report(v)'.found = j.report.found
        /\ Report(v)'.listed = j.report.listed \cup {class}
    BY <2>7, <2>8 DEF DeclareClass, Report
  <2>10. GoesOn(v, "optional") /\ SameSignals(v)
    BY <1>2, <2>3, <2>6, <2>8, <2>9
       DEF GoesOn, Judges, SameSignals, SameWalk, SameGlobal, SameCrs, SameParsed
  <2> QED
    BY <1>3, <1>7, <2>3, <2>8, <2>9, <2>10
<1> QED
  BY <1>3, <1>4, <1>5, <1>6, <1>7 DEF OptionalStage

-----------------------------------------------------------------------------
(* What the sweep makes of it *)

Undeclared(v) == Signalled(v) \ profile[v].declared
Convictions(v) == {Finding(c, "undeclared", Datastore) : c \in Undeclared(v)}
Misnomers(v) ==
    {Finding("attribution", "attribute-model-C", Model(m)) : m \in UnadmittedNames(v)}
        \cup CrossChecks(v)

LEMMA SweepEffect ==
    ASSUME IInv, NEW v \in Validation, Sweep(v)
    PROVE  /\ Turns(v, "sweep", "done") /\ SameSignals(v)
           /\ run'[v].model = run[v].model /\ run[v].judged \subseteq run'[v].judged
           /\ Report(v)'.found =
                 (Report(v).found (+) SetToBag(Convictions(v))) (+) SetToBag(Misnomers(v))
           /\ Report(v)'.coverage =
                 [c \in Class |->
                     IF c \in Undeclared(v) THEN "unchecked"
                     ELSE IF c = "attribution" /\ UnadmittedNames(v) # {}
                             /\ Report(v).coverage[c] = "none" THEN "checked"
                     ELSE Report(v).coverage[c]]
           /\ Mandatory \subseteq Report(v)'.listed /\ Report(v)'.listed \subseteq Class
<1>1. Shaped(v) /\ DOMAIN run = Validation
  BY DEF IInv, Of
<1> DEFINE named == IF UnadmittedNames(v) = {} THEN Report(v)
                    ELSE MarkContent(Report(v), "attribution")
<1> DEFINE marked == [named EXCEPT !.listed = @ \cup Undeclared(v),
                      !.coverage = [c \in Class |-> IF c \in Undeclared(v) THEN "unchecked"
                                                    ELSE @[c]]]
<1> DEFINE convicted == Files(marked, SetToBag(Convictions(v)))
<1> DEFINE q == Files(convicted, SetToBag(Misnomers(v)))
<1> DEFINE w == With(v, q)
<1> DEFINE n == [w EXCEPT !.judged = @ \cup {Model(m) : m \in UnadmittedNames(v)}]
<1>2. At(v, "sweep") /\ To(v, "done", n)
  BY DEF Sweep, Convicted, Report, Undeclared, Convictions, Misnomers
<1>3. /\ DOMAIN named = {"listed", "coverage", "found"}
      /\ Mandatory \subseteq named.listed /\ named.listed \subseteq Class
      /\ named.found = Report(v).found
      /\ \A c \in Class : named.coverage[c] =
            IF c = "attribution" /\ UnadmittedNames(v) # {} /\ Report(v).coverage[c] = "none"
            THEN "checked" ELSE Report(v).coverage[c]
  <2>1. CASE UnadmittedNames(v) = {}
    BY <1>1, <2>1 DEF Shaped
  <2>2. CASE UnadmittedNames(v) # {}
    <3>1. named = MarkContent(Report(v), "attribution")
      BY <2>2
    <3> HIDE DEF named
    <3> QED
      BY <1>1, <2>2, <3>1, ClassNames DEF Shaped, MarkContent
  <2> QED
    BY <2>1, <2>2
<1> HIDE DEF named
<1>4. /\ DOMAIN marked = {"listed", "coverage", "found"} /\ marked.found = named.found
      /\ marked.listed = named.listed \cup Undeclared(v)
      /\ marked.coverage = [c \in Class |-> IF c \in Undeclared(v) THEN "unchecked"
                                            ELSE named.coverage[c]]
  BY <1>3
<1> HIDE DEF marked
<1>5. /\ DOMAIN convicted = {"listed", "coverage", "found"}
      /\ convicted.found = Report(v).found (+) SetToBag(Convictions(v))
      /\ convicted.listed = marked.listed \cup {f.class : f \in Convictions(v)}
      /\ convicted.coverage = marked.coverage
  BY <1>3, <1>4, FilesReport, BagOfSet
<1> HIDE DEF convicted
<1>6. /\ DOMAIN q = {"listed", "coverage", "found"}
      /\ q.found = convicted.found (+) SetToBag(Misnomers(v))
      /\ q.listed = convicted.listed \cup {f.class : f \in Misnomers(v)}
      /\ q.coverage = convicted.coverage
  BY <1>5, FilesReport, BagOfSet
<1> HIDE DEF q
<1>7. /\ DOMAIN w = Fields /\ w.report = q
      /\ w.models = run[v].models /\ w.journal = run[v].journal
      /\ w.global = run[v].global /\ w.crs = run[v].crs
      /\ w.parsed = run[v].parsed /\ w.judged = run[v].judged /\ w.model = run[v].model
  BY <1>1, WithReport DEF Shaped
<1> HIDE DEF w
<1>8. /\ DOMAIN n = Fields /\ n.report = q
      /\ n.models = run[v].models /\ n.journal = run[v].journal
      /\ n.global = run[v].global /\ n.crs = run[v].crs
      /\ n.parsed = run[v].parsed /\ n.model = run[v].model
      /\ run[v].judged \subseteq n.judged
  BY <1>7 DEF Fields
<1> HIDE DEF n
<1>9. /\ Turns(v, "sweep", "done") /\ Report(v)' = n.report
      /\ run'[v].models = n.models /\ run'[v].journal = n.journal
      /\ run'[v].global = n.global /\ run'[v].crs = n.crs
      /\ run'[v].parsed = n.parsed /\ run'[v].model = n.model
      /\ run'[v].judged = n.judged
  <2>1. DOMAIN n = Fields /\ DOMAIN n.report = {"listed", "coverage", "found"}
    BY <1>6, <1>8
  <2> QED
    BY <1>1, <1>2, <2>1, GoesTo
<1>10. SameSignals(v)
  BY <1>8, <1>9 DEF SameSignals, SameWalk, SameGlobal, SameCrs, SameParsed
<1>11. Report(v)'.found =
           (Report(v).found (+) SetToBag(Convictions(v))) (+) SetToBag(Misnomers(v))
  BY <1>5, <1>6, <1>8, <1>9
<1>12. Mandatory \subseteq Report(v)'.listed /\ Report(v)'.listed \subseteq Class
  <2>1. Undeclared(v) \subseteq Class
    BY DEF Undeclared, Signalled, Class
  <2>2. \A f \in Convictions(v) \cup Misnomers(v) : f.class \in Class
    BY <2>1, ClassNames DEF Convictions, Misnomers, Finding, CrossChecks
  <2> QED
    BY <1>3, <1>4, <1>5, <1>6, <1>8, <1>9, <2>1, <2>2
<1>13. Report(v)'.coverage =
           [c \in Class |->
               IF c \in Undeclared(v) THEN "unchecked"
               ELSE IF c = "attribution" /\ UnadmittedNames(v) # {}
                       /\ Report(v).coverage[c] = "none" THEN "checked"
               ELSE Report(v).coverage[c]]
  BY <1>3, <1>4, <1>5, <1>6, <1>8, <1>9
<1> QED
  BY <1>8, <1>9, <1>10, <1>11, <1>12, <1>13

-----------------------------------------------------------------------------
(* The invariant holds in every behaviour *)

LEMMA StoreOnly ==
    ASSUME NEW v \in Validation, Alone(v)
    PROVE  /\ Misspelt(v)' = Misspelt(v) /\ Mismatches(v)' = Mismatches(v)
           /\ WronglyEncoded(v)' = WronglyEncoded(v)
  BY DEF Alone, Misspelt, Mismatches, WronglyEncoded

LEMMA SignalsOnly ==
    ASSUME NEW v \in Validation, Alone(v), SameSignals(v)
    PROVE  /\ ModelRead(v)' = ModelRead(v) /\ UnadmittedNames(v)' = UnadmittedNames(v)
           /\ \A e : Carrying(v, e)' = Carrying(v, e)
           /\ \A c \in Range(Optional) : /\ CameAcross(v, c)' <=> CameAcross(v, c)
                                         /\ Looked(v, c)' = Looked(v, c)
                                         /\ Sound(v, c)' <=> Sound(v, c)
           /\ ModelOf(v)' = ModelOf(v) /\ Signalled(v)' = Signalled(v)
           /\ run'[v].model = run[v].model => CrossChecks(v)' = CrossChecks(v)
<1>1. /\ store' = store /\ profile' = profile
      /\ run'[v].models = run[v].models /\ run'[v].journal = run[v].journal
      /\ run'[v].global = run[v].global /\ run'[v].crs = run[v].crs
      /\ run'[v].parsed = run[v].parsed
  BY DEF Alone, SameSignals, SameWalk, SameGlobal, SameCrs, SameParsed
<1>2. /\ \A e : Carrying(v, e)' = Carrying(v, e)
      /\ UnadmittedNames(v)' = UnadmittedNames(v)
  BY <1>1 DEF Carrying, UnadmittedNames
<1>3. ModelRead(v)' = ModelRead(v)
  BY <1>1 DEF ModelRead
<1>4. ModelOf(v)' = ModelOf(v)
  BY <1>3 DEF ModelOf
<1>5. Signalled(v)' = Signalled(v)
  BY <1>1, <1>2 DEF Signalled
<1>6. run'[v].model = run[v].model => CrossChecks(v)' = CrossChecks(v)
  BY <1>1 DEF CrossChecks
<1>7. ASSUME NEW c \in Range(Optional)
      PROVE  /\ CameAcross(v, c)' <=> CameAcross(v, c)
             /\ Looked(v, c)' = Looked(v, c)
             /\ Sound(v, c)' <=> Sound(v, c)
  <2>1. CameAcross(v, c)' <=> CameAcross(v, c)
    BY <1>1, <1>2, <1>3, <1>7, OptionalClasses DEF CameAcross
  <2>2. Looked(v, c)' = Looked(v, c)
    BY <1>1, <1>2, <1>3, <1>7, OptionalClasses DEF Looked
  <2>3. Sound(v, c)' <=> Sound(v, c)
    BY <1>1, <1>2, <1>3, <1>7, OptionalClasses DEF Sound, JournalRead
  <2> QED
    BY <2>1, <2>2, <2>3
<1> QED
  BY <1>2, <1>3, <1>4, <1>5, <1>6, <1>7

Before == {"declarations", "structure", "walk", "metadata", "encodings", "crs"}

\* No record is read and no class judged in the early stages, and none is left
\* at the end of theirs.
LEMMA EarlyFacts ==
    ASSUME IInv, NEW v \in Validation, run[v].phase \in Before
    PROVE  Seen(v) = {} /\ Passed(v) = {}
  BY DEF Before, Seen, Passed, AfterRecords, AfterOptional

LEMMA EarlyTurns ==
    ASSUME IInv, NEW v \in Validation, NEW from, NEW to \in Before \cup {"records"},
           Turns(v, from, to)
    PROVE  Seen(v)' = {} /\ Passed(v)' = {}
<1>1. run'[v].phase = to /\ run'[v].at = 1 /\ store' = store /\ profile' = profile
  BY DEF Turns, Alone
<1>2. \A i \in DOMAIN store.records : ~(i < 1)
  BY StoreFacts
<1> QED
  BY <1>1, <1>2 DEF Before, Seen, Passed, AfterRecords, AfterOptional

\* What harmless findings make of a report.
LEMMA AddsReport ==
    ASSUME IInv, NEW v \in Validation, NEW fine \in BOOLEAN, Adds(v, fine)
    PROVE  /\ IsABag(Report(v)'.found)
           /\ IsConformant(Report(v))' <=> IsConformant(Report(v)) /\ fine
           /\ Mandatory \subseteq Report(v)'.listed /\ Report(v)'.listed \subseteq Class
           /\ \A i \in DOMAIN store.records \ run[v].parsed :
                 /\ {f \in BagToSet(Report(v)'.found) :
                       f.about = Record(i) /\ f.code # "metadata-encoding"} = About(v, i)
                 /\ \A f \in About(v, i) : Report(v)'.found[f] = Report(v).found[f]
           /\ \A f \in BagToSet(Report(v)'.found) :
                 f.code = "undeclared" => f \in BagToSet(Report(v).found)
<1>1. Shaped(v)
  BY DEF IInv, Of
<1>2. PICK B : /\ IsABag(B) /\ (B = EmptyBag <=> fine)
               /\ \A f \in BagToSet(B) : Harmless(v, f)
               /\ Report(v)'.found = Report(v).found (+) B
               /\ Report(v).listed \subseteq Report(v)'.listed /\ Report(v)'.listed \subseteq Class
  BY DEF Adds
<1>3. /\ IsABag(Report(v).found (+) B)
      /\ BagToSet(Report(v).found (+) B) = BagToSet(Report(v).found) \cup BagToSet(B)
      /\ Report(v).found (+) B = EmptyBag <=> Report(v).found = EmptyBag /\ B = EmptyBag
      /\ \A f \in BagToSet(Report(v).found) \ BagToSet(B) :
            (Report(v).found (+) B)[f] = Report(v).found[f]
  BY <1>1, <1>2, BagSum DEF Shaped
<1>4. IsConformant(Report(v))' <=> IsConformant(Report(v)) /\ fine
  BY <1>2, <1>3 DEF IsConformant
<1>5. Mandatory \subseteq Report(v)'.listed /\ Report(v)'.listed \subseteq Class
  BY <1>1, <1>2 DEF Shaped, Harmless
<1>6. ASSUME NEW i \in DOMAIN store.records \ run[v].parsed
      PROVE  /\ {f \in BagToSet(Report(v)'.found) :
                   f.about = Record(i) /\ f.code # "metadata-encoding"} = About(v, i)
             /\ \A f \in About(v, i) : Report(v)'.found[f] = Report(v).found[f]
  BY <1>2, <1>3, <1>6 DEF About, Harmless
<1>7. \A f \in BagToSet(Report(v)'.found) :
          f.code = "undeclared" => f \in BagToSet(Report(v).found)
  BY <1>2, <1>3 DEF Harmless
<1> QED
  BY <1>2, <1>3, <1>4, <1>5, <1>6, <1>7

\* The findings on a record are none of a stage that judges no record.
LEMMA AddsFiled ==
    ASSUME IInv, NEW v \in Validation, NEW fine \in BOOLEAN, Adds(v, fine), Alone(v),
           run[v].phase \notin {"done", "aborted"}, Seen(v)' = Seen(v)
    PROVE  Filed(v)'
<1>1. Filed(v) /\ Kept(v) /\ store' = store
  BY DEF IInv, Of, Alone
<1>2. /\ \A i \in DOMAIN store.records \ run[v].parsed :
            /\ About(v, i)' = About(v, i)
            /\ \A f \in About(v, i) : Report(v)'.found[f] = Report(v).found[f]
      /\ \A f \in BagToSet(Report(v)'.found) :
            f.code = "undeclared" => f \in BagToSet(Report(v).found)
  BY AddsReport DEF About
<1>3. /\ \A i \in DOMAIN store.records \ Seen(v) : i \notin run[v].parsed
      /\ \A i \in Seen(v) : i \in DOMAIN store.records
      /\ \A i \in Seen(v) : store.records[i].status # "ok" => i \notin run[v].parsed
  BY <1>1 DEF Kept, Seen
<1>4. \A i \in DOMAIN store.records \ Seen(v) : About(v, i)' = {}
  BY <1>1, <1>2, <1>3 DEF Filed
<1>5. \A i \in Seen(v) : store.records[i].status # "ok" =>
          \E f \in About(v, i)' : About(v, i)' = {f} /\ Report(v)'.found[f] = 1
  BY <1>1, <1>2, <1>3 DEF Filed
<1>6. \A f \in BagToSet(Report(v)'.found) : f.code # "undeclared"
  BY <1>1, <1>2 DEF Filed
<1> QED
  BY <1>1, <1>4, <1>5, <1>6 DEF Filed

LEMMA EndStage ==
    ASSUME IInv, NEW v \in Validation, NEW from, Ends(v, from),
           \/ store.global.status = "unreadable" \/ store.crs = "unreadable"
           \/ \E i \in DOMAIN store.records : store.records[i].status = "unreadable"
           \/ "unreadable" \in Range(store.journal) /\ "versioning" \in profile[v].declared
           \/ /\ "attribution" \in profile[v].declared
              /\ \E m \in store.models : m.content = "unreadable"
    PROVE  Of(v)'
<1>1. /\ run'[v].phase = "aborted" /\ run'[v].at = 1 /\ store' = store /\ profile' = profile
      /\ DOMAIN run'[v] = Fields
      /\ Report(v)' = Report(v) /\ run'[v].parsed = run[v].parsed
      /\ run'[v].models = run[v].models
  BY DEF Ends, Turns, Alone, SameSignals, SameWalk, SameParsed
<1>2. Shaped(v) /\ Kept(v)
  BY DEF IInv, Of
<1>3. Shaped(v)'
  BY <1>1, <1>2 DEF Shaped
<1>4. Placed(v)'
  BY <1>1 DEF Placed, Phase
<1>5. Kept(v)'
  BY <1>1, <1>2 DEF Kept, AfterWalk, AfterMetadata, AfterCrs
<1>6. Verdict(v)' /\ Marks(v)' /\ Filed(v)'
  BY <1>1 DEF Verdict, Marks, Filed
<1>7. Stopped(v)'
  BY <1>1 DEF Stopped
<1> QED
  BY <1>3, <1>4, <1>5, <1>6, <1>7 DEF Of

LEMMA EarlyStage ==
    ASSUME IInv, NEW v \in Validation, NEW from \in Before, NEW to \in Before \cup {"records"},
           Turns(v, from, to), NEW fine \in BOOLEAN, Adds(v, fine), SameCoverage(v),
           SameParsed(v), SameJudged(v)
    PROVE  /\ Shaped(v)' /\ Placed(v)' /\ Marks(v)' /\ Filed(v)' /\ Stopped(v)'
           /\ run[v].phase = from /\ run'[v].phase = to /\ store' = store /\ profile' = profile
           /\ Seen(v) = {} /\ Passed(v) = {} /\ Seen(v)' = {} /\ Passed(v)' = {}
           /\ run'[v].parsed = {} /\ run'[v].model = NoModel
           /\ IsConformant(Report(v))' <=> IsConformant(Report(v)) /\ fine
<1>1. /\ run[v].phase = from /\ run'[v].phase = to /\ run'[v].at = 1
      /\ store' = store /\ profile' = profile /\ Alone(v)
      /\ DOMAIN run'[v] = Fields /\ DOMAIN Report(v)' = {"listed", "coverage", "found"}
  BY DEF Turns, Alone
<1>2. Shaped(v) /\ Kept(v) /\ Marks(v)
  BY DEF IInv, Of
<1>3. Seen(v) = {} /\ Passed(v) = {} /\ Seen(v)' = {} /\ Passed(v)' = {}
  BY <1>1, EarlyFacts, EarlyTurns
<1>4. Shaped(v)'
  BY <1>1, <1>2, AddsReport DEF Shaped, SameCoverage
<1>5. Placed(v)'
  BY <1>1, StoreFacts DEF Placed, Phase, Before
<1>6. Marks(v)'
  BY <1>1, <1>2, <1>3 DEF Marks, CoverageOf, SameCoverage, Before
<1>7. Filed(v)'
  BY <1>1, <1>3, AddsFiled DEF Before
<1>8. Stopped(v)'
  BY <1>1 DEF Stopped, Before
<1>9. run'[v].parsed = {} /\ run'[v].model = NoModel
  BY <1>1, <1>2, <1>3 DEF Kept, SameParsed, SameJudged, Before
<1>10. IsConformant(Report(v))' <=> IsConformant(Report(v)) /\ fine
  BY AddsReport
<1> QED
  BY <1>1, <1>3, <1>4, <1>5, <1>6, <1>7, <1>8, <1>9, <1>10

LEMMA DeclarationsKeeps ==
    ASSUME IInv, NEW v \in Validation, Declarations(v)
    PROVE  Of(v)'
<1> DEFINE fine == Mandatory \subseteq profile[v].declared
<1>1. /\ Turns(v, "declarations", "structure")
      /\ SameSignals(v) /\ SameJudged(v) /\ SameCoverage(v) /\ Adds(v, fine)
  BY DeclarationsEffect
<1>2. fine \in BOOLEAN
  OBVIOUS
<1>3. /\ Shaped(v)' /\ Placed(v)' /\ Marks(v)' /\ Filed(v)' /\ Stopped(v)'
      /\ run[v].phase = "declarations" /\ run'[v].phase = "structure"
      /\ store' = store /\ profile' = profile
      /\ Seen(v) = {} /\ Passed(v) = {} /\ Seen(v)' = {} /\ Passed(v)' = {}
      /\ run'[v].parsed = {} /\ run'[v].model = NoModel
      /\ IsConformant(Report(v))' <=> IsConformant(Report(v)) /\ fine
  <2> HIDE DEF fine
  <2> QED
    BY <1>1, <1>2, EarlyStage DEF Before, SameSignals
<1>4. Verdict(v) /\ Kept(v)
  BY DEF IInv, Of
<1>5. Verdict(v)'
  BY <1>3, <1>4
     DEF Verdict, AfterDeclarations, AfterStructure, AfterWalk, AfterMetadata, AfterEncodings, AfterCrs
<1>6. Kept(v)'
  BY <1>1, <1>3, <1>4
     DEF Kept, AfterWalk, AfterMetadata, AfterCrs, SameSignals, SameWalk, SameGlobal, SameCrs
<1> QED
  BY <1>3, <1>5, <1>6 DEF Of

LEMMA StructureKeeps ==
    ASSUME IInv, NEW v \in Validation, Structure(v)
    PROVE  Of(v)'
<1> DEFINE fine == store.folder
<1>1. /\ Turns(v, "structure", "walk")
      /\ SameSignals(v) /\ SameJudged(v) /\ SameCoverage(v) /\ Adds(v, fine)
  BY StructureEffect
<1>2. fine \in BOOLEAN
  BY StoreFacts
<1>3. /\ Shaped(v)' /\ Placed(v)' /\ Marks(v)' /\ Filed(v)' /\ Stopped(v)'
      /\ run[v].phase = "structure" /\ run'[v].phase = "walk"
      /\ store' = store /\ profile' = profile
      /\ Seen(v) = {} /\ Passed(v) = {} /\ Seen(v)' = {} /\ Passed(v)' = {}
      /\ run'[v].parsed = {} /\ run'[v].model = NoModel
      /\ IsConformant(Report(v))' <=> IsConformant(Report(v)) /\ fine
  <2> HIDE DEF fine
  <2> QED
    BY <1>1, <1>2, EarlyStage DEF Before, SameSignals
<1>4. /\ Verdict(v) /\ Kept(v)
      /\ Misspelt(v)' = Misspelt(v) /\ Mismatches(v)' = Mismatches(v)
      /\ WronglyEncoded(v)' = WronglyEncoded(v)
  BY <1>1, StoreOnly DEF IInv, Of, Turns
<1>5. Verdict(v)'
  BY <1>3, <1>4
     DEF Verdict, AfterDeclarations, AfterStructure, AfterWalk, AfterMetadata, AfterEncodings, AfterCrs
<1>6. Kept(v)'
  BY <1>1, <1>3, <1>4
     DEF Kept, AfterWalk, AfterMetadata, AfterCrs, SameSignals, SameWalk, SameGlobal, SameCrs
<1> QED
  BY <1>3, <1>5, <1>6 DEF Of

LEMMA WalkKeeps ==
    ASSUME IInv, NEW v \in Validation, Walk(v)
    PROVE  Of(v)'
<1> DEFINE fine == store.misnamed = 0 /\ Misspelt(v) = {}
<1>1. /\ Turns(v, "walk", "metadata")
      /\ SameGlobal(v) /\ SameCrs(v) /\ SameParsed(v) /\ SameJudged(v) /\ SameCoverage(v) /\ Adds(v, fine)
      /\ run'[v].models = store.models
      /\ run'[v].journal <=> \E s \in Spelling : store.journal[s] # "absent"
  BY WalkEffect
<1>2. fine \in BOOLEAN
  OBVIOUS
<1>3. /\ Shaped(v)' /\ Placed(v)' /\ Marks(v)' /\ Filed(v)' /\ Stopped(v)'
      /\ run[v].phase = "walk" /\ run'[v].phase = "metadata"
      /\ store' = store /\ profile' = profile
      /\ Seen(v) = {} /\ Passed(v) = {} /\ Seen(v)' = {} /\ Passed(v)' = {}
      /\ run'[v].parsed = {} /\ run'[v].model = NoModel
      /\ IsConformant(Report(v))' <=> IsConformant(Report(v)) /\ fine
  <2> HIDE DEF fine
  <2> QED
    BY <1>1, <1>2, EarlyStage DEF Before, SameSignals
<1>4. /\ Verdict(v) /\ Kept(v)
      /\ Misspelt(v)' = Misspelt(v) /\ Mismatches(v)' = Mismatches(v)
      /\ WronglyEncoded(v)' = WronglyEncoded(v)
  BY <1>1, StoreOnly DEF IInv, Of, Turns
<1>5. Verdict(v)'
  BY <1>3, <1>4
     DEF Verdict, AfterDeclarations, AfterStructure, AfterWalk, AfterMetadata, AfterEncodings, AfterCrs
<1>6. Kept(v)'
  BY <1>1, <1>3, <1>4, StoreFacts
     DEF Kept, AfterWalk, AfterMetadata, AfterCrs, SameSignals, SameWalk, SameGlobal, SameCrs
<1> QED
  BY <1>3, <1>5, <1>6 DEF Of

LEMMA EncodingsKeeps ==
    ASSUME IInv, NEW v \in Validation, Encodings(v)
    PROVE  Of(v)'
<1> DEFINE fine == WronglyEncoded(v) = [models |-> 0, records |-> {}, global |-> 0]
<1>1. /\ Turns(v, "encodings", "crs")
      /\ SameSignals(v) /\ SameJudged(v) /\ SameCoverage(v) /\ Adds(v, fine)
  BY EncodingsEffect
<1>2. fine \in BOOLEAN
  OBVIOUS
<1>3. /\ Shaped(v)' /\ Placed(v)' /\ Marks(v)' /\ Filed(v)' /\ Stopped(v)'
      /\ run[v].phase = "encodings" /\ run'[v].phase = "crs"
      /\ store' = store /\ profile' = profile
      /\ Seen(v) = {} /\ Passed(v) = {} /\ Seen(v)' = {} /\ Passed(v)' = {}
      /\ run'[v].parsed = {} /\ run'[v].model = NoModel
      /\ IsConformant(Report(v))' <=> IsConformant(Report(v)) /\ fine
  <2> HIDE DEF fine
  <2> QED
    BY <1>1, <1>2, EarlyStage DEF Before, SameSignals
<1>4. /\ Verdict(v) /\ Kept(v)
      /\ Misspelt(v)' = Misspelt(v) /\ Mismatches(v)' = Mismatches(v)
      /\ WronglyEncoded(v)' = WronglyEncoded(v)
  BY <1>1, StoreOnly DEF IInv, Of, Turns
<1>5. Verdict(v)'
  BY <1>3, <1>4
     DEF Verdict, AfterDeclarations, AfterStructure, AfterWalk, AfterMetadata, AfterEncodings, AfterCrs
<1>6. Kept(v)'
  BY <1>1, <1>3, <1>4
     DEF Kept, AfterWalk, AfterMetadata, AfterCrs, SameSignals, SameWalk, SameGlobal, SameCrs
<1> QED
  BY <1>3, <1>5, <1>6 DEF Of

LEMMA MetadataKeeps ==
    ASSUME IInv, NEW v \in Validation, Metadata(v)
    PROVE  Of(v)'
<1>1. CASE store.global.status = "unreadable" /\ Ends(v, "metadata")
  BY <1>1, EndStage
<1>2. CASE /\ Turns(v, "metadata", "encodings") /\ store.global.status # "unreadable"
           /\ Adds(v, store.global.status = "read" /\ Mismatches(v) = {})
           /\ run'[v].global <=> store.global.status = "read"
           /\ store.global.status # "unreadable"
           /\ SameWalk(v) /\ SameCrs(v) /\ SameParsed(v) /\ SameJudged(v) /\ SameCoverage(v)
  <2> DEFINE fine == store.global.status = "read" /\ Mismatches(v) = {}
  <2>1. /\ Turns(v, "metadata", "encodings")
        /\ SameWalk(v) /\ SameCrs(v) /\ SameParsed(v) /\ SameJudged(v) /\ SameCoverage(v) /\ Adds(v, fine)
        /\ run'[v].global <=> store.global.status = "read"
        /\ store.global.status # "unreadable"
    BY <1>2
  <2>2. fine \in BOOLEAN
    OBVIOUS
  <2>3. /\ Shaped(v)' /\ Placed(v)' /\ Marks(v)' /\ Filed(v)' /\ Stopped(v)'
        /\ run[v].phase = "metadata" /\ run'[v].phase = "encodings"
        /\ store' = store /\ profile' = profile
        /\ Seen(v) = {} /\ Passed(v) = {} /\ Seen(v)' = {} /\ Passed(v)' = {}
        /\ run'[v].parsed = {} /\ run'[v].model = NoModel
        /\ IsConformant(Report(v))' <=> IsConformant(Report(v)) /\ fine
    <3> HIDE DEF fine
    <3> QED
      BY <2>1, <2>2, EarlyStage DEF Before, SameSignals
  <2>4. /\ Verdict(v) /\ Kept(v)
        /\ Misspelt(v)' = Misspelt(v) /\ Mismatches(v)' = Mismatches(v)
        /\ WronglyEncoded(v)' = WronglyEncoded(v)
    BY <2>1, StoreOnly DEF IInv, Of, Turns
  <2>5. Verdict(v)'
    BY <2>3, <2>4
       DEF Verdict, AfterDeclarations, AfterStructure, AfterWalk, AfterMetadata, AfterEncodings, AfterCrs
  <2>6. Kept(v)'
    BY <2>1, <2>3, <2>4
       DEF Kept, AfterWalk, AfterMetadata, AfterCrs, SameSignals, SameWalk, SameGlobal, SameCrs
  <2> QED
    BY <2>3, <2>5, <2>6 DEF Of
<1> QED
  BY <1>1, <1>2, MetadataEffect

LEMMA CrsKeeps ==
    ASSUME IInv, NEW v \in Validation, Crs(v)
    PROVE  Of(v)'
<1>1. CASE store.crs = "unreadable" /\ Ends(v, "crs")
  BY <1>1, EndStage
<1>2. CASE /\ Turns(v, "crs", "records") /\ store.crs # "unreadable"
           /\ Adds(v, store.crs = "agreed")
           /\ run'[v].crs <=> store.crs \in {"agreed", "other"}
           /\ store.crs # "unreadable"
           /\ SameWalk(v) /\ SameGlobal(v) /\ SameParsed(v) /\ SameJudged(v) /\ SameCoverage(v)
  <2> DEFINE fine == store.crs = "agreed"
  <2>1. /\ Turns(v, "crs", "records")
        /\ SameWalk(v) /\ SameGlobal(v) /\ SameParsed(v) /\ SameJudged(v) /\ SameCoverage(v) /\ Adds(v, fine)
        /\ run'[v].crs <=> store.crs \in {"agreed", "other"}
        /\ store.crs # "unreadable"
    BY <1>2
  <2>2. fine \in BOOLEAN
    OBVIOUS
  <2>3. /\ Shaped(v)' /\ Placed(v)' /\ Marks(v)' /\ Filed(v)' /\ Stopped(v)'
        /\ run[v].phase = "crs" /\ run'[v].phase = "records"
        /\ store' = store /\ profile' = profile
        /\ Seen(v) = {} /\ Passed(v) = {} /\ Seen(v)' = {} /\ Passed(v)' = {}
        /\ run'[v].parsed = {} /\ run'[v].model = NoModel
        /\ IsConformant(Report(v))' <=> IsConformant(Report(v)) /\ fine
    <3> HIDE DEF fine
    <3> QED
      BY <2>1, <2>2, EarlyStage DEF Before, SameSignals
  <2>4. /\ Verdict(v) /\ Kept(v)
        /\ Misspelt(v)' = Misspelt(v) /\ Mismatches(v)' = Mismatches(v)
        /\ WronglyEncoded(v)' = WronglyEncoded(v)
    BY <2>1, StoreOnly DEF IInv, Of, Turns
  <2>5. Verdict(v)'
    BY <2>3, <2>4
       DEF Verdict, AfterDeclarations, AfterStructure, AfterWalk, AfterMetadata, AfterEncodings, AfterCrs
  <2>6. Kept(v)'
    BY <2>1, <2>3, <2>4
       DEF Kept, AfterWalk, AfterMetadata, AfterCrs, SameSignals, SameWalk, SameGlobal, SameCrs
  <2> QED
    BY <2>3, <2>5, <2>6 DEF Of
<1> QED
  BY <1>1, <1>2, CrsEffect

\* Which records are behind a validation when it reads the next one.
LEMMA SeenGrows ==
    ASSUME IInv, NEW v \in Validation, GoesOn(v, "records"), run[v].at <= Len(store.records)
    PROVE  /\ run[v].at \in DOMAIN store.records \ Seen(v)
           /\ Seen(v)' = Seen(v) \cup {run[v].at} /\ run'[v].at \in 1 .. Len(store.records) + 1
           /\ Passed(v) = {} /\ Passed(v)' = {}
<1>1. /\ store' = store /\ profile' = profile /\ run[v].phase = "records"
      /\ run'[v].phase = "records" /\ run'[v].at = run[v].at + 1
  BY DEF GoesOn, Alone
<1>2. run[v].at \in 1 .. Len(store.records) + 1
  BY <1>1 DEF IInv, Of, Placed
<1>3. DOMAIN store.records = 1 .. Len(store.records) /\ Len(store.records) \in Nat
  BY StoreFacts
<1>4. Seen(v) = {i \in DOMAIN store.records : i < run[v].at}
  BY <1>1 DEF Seen, AfterRecords
<1>5. Seen(v)' = {i \in DOMAIN store.records : i < run[v].at + 1}
  BY <1>1 DEF Seen, AfterRecords
<1>6. Passed(v) = {} /\ Passed(v)' = {}
  BY <1>1 DEF Passed, AfterOptional
<1> QED
  BY <1>1, <1>2, <1>3, <1>4, <1>5, <1>6

LEMMA ReadRecordKeeps ==
    ASSUME IInv, NEW v \in Validation, ReadRecord(v)
    PROVE  Of(v)'
<1>0. PICK at : at = run[v].at
  OBVIOUS
<1> USE <1>0
<1>1. /\ Shaped(v) /\ Placed(v) /\ Kept(v) /\ Verdict(v) /\ Marks(v) /\ Filed(v)
  BY DEF IInv, Of
<1>2. CASE /\ at > Len(store.records) /\ Turns(v, "records", "optional")
           /\ SameSignals(v) /\ SameJudged(v) /\ Report(v)' = Report(v)
  <2>1. /\ run[v].phase = "records" /\ run'[v].phase = "optional" /\ run'[v].at = 1
        /\ store' = store /\ profile' = profile /\ Alone(v) /\ DOMAIN run'[v] = Fields
    BY <1>2 DEF Turns, Alone
  <2>2. Seen(v) = DOMAIN store.records /\ Seen(v)' = DOMAIN store.records
    BY <1>1, <1>2, <2>1, StoreFacts DEF Seen, AfterRecords, Placed
  <2>3. Passed(v) = {} /\ Passed(v)' = {}
    BY <2>1 DEF Passed, AfterOptional
  <2>4. /\ Misspelt(v)' = Misspelt(v) /\ Mismatches(v)' = Mismatches(v)
        /\ WronglyEncoded(v)' = WronglyEncoded(v)
    BY <2>1, StoreOnly
  <2>5. Shaped(v)' /\ Placed(v)' /\ Stopped(v)'
    BY <1>1, <1>2, <2>1 DEF Shaped, Placed, Stopped, Phase
  <2>6. Kept(v)'
    BY <1>1, <1>2, <2>1, <2>2, <2>3
       DEF Kept, AfterWalk, AfterMetadata, AfterCrs, SameSignals, SameWalk, SameGlobal, SameCrs,
           SameParsed, SameJudged
  <2>7. Verdict(v)'
    BY <1>1, <1>2, <2>1, <2>2, <2>3, <2>4
       DEF Verdict, AfterDeclarations, AfterStructure, AfterWalk, AfterMetadata, AfterEncodings, AfterCrs
  <2>8. Marks(v)'
    BY <1>1, <1>2, <2>1, <2>3 DEF Marks, CoverageOf
  <2>9. Filed(v)'
    BY <1>1, <1>2, <2>1, <2>2 DEF Filed, About
  <2> QED
    BY <2>5, <2>6, <2>7, <2>8, <2>9 DEF Of
<1>3. CASE /\ at <= Len(store.records)
           /\ store.records[at].status = "unreadable" /\ Ends(v, "records")
  <2>1. at \in DOMAIN store.records
    BY <1>1, <1>3, StoreFacts DEF Placed, Ends, Turns
  <2> QED
    BY <1>3, <2>1, EndStage
<1>4. CASE /\ at <= Len(store.records) /\ GoesOn(v, "records")
           /\ store.records[at].status = "ok"
           /\ SameWalk(v) /\ SameGlobal(v) /\ SameCrs(v) /\ SameJudged(v)
           /\ run'[v].parsed = run[v].parsed \cup {at} /\ Report(v)' = Report(v)
  <2>1. /\ run[v].phase = "records" /\ run'[v].phase = "records"
        /\ store' = store /\ profile' = profile /\ Alone(v) /\ DOMAIN run'[v] = Fields
    BY <1>4 DEF GoesOn, Alone
  <2>2. /\ at \in DOMAIN store.records \ Seen(v)
        /\ Seen(v)' = Seen(v) \cup {at} /\ run'[v].at \in 1 .. Len(store.records) + 1
        /\ Passed(v) = {} /\ Passed(v)' = {}
    BY <1>4, SeenGrows
  <2>4. /\ Misspelt(v)' = Misspelt(v) /\ Mismatches(v)' = Mismatches(v)
        /\ WronglyEncoded(v)' = WronglyEncoded(v)
    BY <2>1, StoreOnly
  <2>5. Shaped(v)' /\ Placed(v)' /\ Stopped(v)'
    BY <1>1, <1>4, <2>1, <2>2 DEF Shaped, Placed, Stopped, Phase
  <2>6. Kept(v)'
    BY <1>1, <1>4, <2>1, <2>2
       DEF Kept, AfterWalk, AfterMetadata, AfterCrs, SameWalk, SameGlobal, SameCrs, SameJudged
  <2>7. Verdict(v)'
    BY <1>1, <1>4, <2>1, <2>2, <2>4
       DEF Verdict, AfterDeclarations, AfterStructure, AfterWalk, AfterMetadata, AfterEncodings, AfterCrs
  <2>8. Marks(v)'
    BY <1>1, <1>4, <2>1, <2>2 DEF Marks, CoverageOf
  <2>9. Filed(v)'
    BY <1>1, <1>4, <2>1, <2>2 DEF Filed, About
  <2> QED
    BY <2>5, <2>6, <2>7, <2>8, <2>9 DEF Of
<1>5. CASE /\ at <= Len(store.records) /\ GoesOn(v, "records")
           /\ store.records[at].status \notin {"ok", "unreadable"}
           /\ SameSignals(v) /\ SameJudged(v)
           /\ LET filed == FiledAs(store.records[at].status)
              IN  Report(v)' = File(Report(v), Finding(filed[1], filed[2], Record(at)))
  <2> DEFINE filed == FiledAs(store.records[at].status)
  <2> DEFINE f == Finding(filed[1], filed[2], Record(at))
  <2> DEFINE B == SetToBag({f})
  <2>1. /\ run[v].phase = "records" /\ run'[v].phase = "records"
        /\ store' = store /\ profile' = profile /\ Alone(v) /\ DOMAIN run'[v] = Fields
        /\ DOMAIN Report(v)' = {"listed", "coverage", "found"}
    BY <1>5 DEF GoesOn, Alone
  <2>2. /\ at \in DOMAIN store.records \ Seen(v)
        /\ Seen(v)' = Seen(v) \cup {at} /\ run'[v].at \in 1 .. Len(store.records) + 1
        /\ Passed(v) = {} /\ Passed(v)' = {}
    BY <1>5, SeenGrows
  <2>3. /\ f.about = Record(at) /\ f.code \notin {"metadata-encoding", "undeclared"}
        /\ f.class \in Class
    <3>1. filed \in {<<"links", "link">>, <<"metadata", "metadata-record">>}
      BY DEF FiledAs
    <3> HIDE DEF filed
    <3> QED
      BY <3>1, ClassNames DEF Finding
  <2> HIDE DEF f
  <2>4. Report(v)' = Files(Report(v), B)
    BY <1>5 DEF File, f
  <2>5. IsABag(B) /\ BagToSet(B) = {f} /\ B # EmptyBag /\ B[f] = 1
    BY BagOfSet
  <2> HIDE DEF B
  <2>6. /\ Report(v)'.found = Report(v).found (+) B
        /\ Report(v)'.coverage = Report(v).coverage
        /\ Report(v)'.listed = Report(v).listed \cup {f.class}
    BY <1>1, <2>4, <2>5, FilesReport DEF Shaped
  <2>7. /\ IsABag(Report(v)'.found)
        /\ BagToSet(Report(v)'.found) = BagToSet(Report(v).found) \cup {f}
        /\ Report(v)'.found # EmptyBag
        /\ \A g \in BagToSet(Report(v).found) \ {f} : Report(v)'.found[g] = Report(v).found[g]
        /\ f \notin BagToSet(Report(v).found) => Report(v)'.found[f] = 1
    BY <1>1, <2>5, <2>6, BagSum DEF Shaped
  <2>8. f \notin BagToSet(Report(v).found)
    BY <1>1, <2>1, <2>2, <2>3 DEF Filed, About
  <2>9. About(v, at)' = {f} /\ \A i \in DOMAIN store.records \ {at} : About(v, i)' = About(v, i)
    <3>1. About(v, at) = {}
      BY <1>1, <2>1, <2>2 DEF Filed
    <3> QED
      BY <2>3, <2>7, <3>1, NotARecord DEF About
  <2>10. Shaped(v)' /\ Placed(v)' /\ Stopped(v)'
    BY <1>1, <1>5, <2>1, <2>2, <2>3, <2>6, <2>7 DEF Shaped, Placed, Stopped, Phase
  <2>11. Kept(v)'
    BY <1>1, <1>5, <2>1, <2>2
       DEF Kept, AfterWalk, AfterMetadata, AfterCrs, SameSignals, SameWalk, SameGlobal, SameCrs,
           SameParsed, SameJudged
  <2>12. Verdict(v)'
    BY <1>5, <2>1, <2>2, <2>7 DEF Verdict, IsConformant
  <2>13. Marks(v)'
    BY <1>1, <2>1, <2>2, <2>6 DEF Marks, CoverageOf
  <2>14. Filed(v)'
    <3>1. \A i \in DOMAIN store.records \ Seen(v)' : About(v, i)' = {}
      BY <1>1, <2>1, <2>2, <2>9 DEF Filed
    <3>2. ASSUME NEW i \in Seen(v)', store.records[i].status # "ok"
          PROVE  \E g \in About(v, i)' : About(v, i)' = {g} /\ Report(v)'.found[g] = 1
      <4>1. CASE i = at
        BY <2>7, <2>8, <2>9, <4>1
      <4>2. CASE i # at
        <5>1. i \in Seen(v) /\ i \in DOMAIN store.records
          BY <2>2, <3>2, <4>2 DEF Seen
        <5>2. PICK g \in About(v, i) : About(v, i) = {g} /\ Report(v).found[g] = 1
          BY <1>1, <2>1, <3>2, <5>1 DEF Filed
        <5>3. g # f /\ g \in BagToSet(Report(v).found)
          BY <2>8, <5>2 DEF About
        <5> QED
          BY <2>7, <2>9, <4>2, <5>1, <5>2, <5>3
      <4> QED
        BY <4>1, <4>2
    <3>3. \A g \in BagToSet(Report(v)'.found) : g.code # "undeclared"
      BY <1>1, <2>1, <2>3, <2>7 DEF Filed
    <3> QED
      BY <2>1, <3>1, <3>2, <3>3 DEF Filed
  <2> QED
    BY <2>10, <2>11, <2>12, <2>13, <2>14 DEF Of
<1> QED
  BY <1>2, <1>3, <1>4, <1>5, ReadRecordEffect

\* Which classes are behind a validation when it goes on to the next one.
LEMMA PassedGrows ==
    ASSUME IInv, NEW v \in Validation, GoesOn(v, "optional"), run[v].at <= 6
    PROVE  /\ run[v].at \in 1 .. 6 /\ run'[v].at \in 1 .. 7 /\ Seen(v)' = Seen(v)
           /\ Passed(v)' = Passed(v) \cup ({Optional[run[v].at]} \cap profile[v].declared)
           /\ Optional[run[v].at] \notin Passed(v)
           /\ Optional[run[v].at] \in Range(Optional)
<1>1. /\ store' = store /\ profile' = profile /\ run[v].phase = "optional"
      /\ run'[v].phase = "optional" /\ run'[v].at = run[v].at + 1
  BY DEF GoesOn, Alone
<1>2. run[v].at \in 1 .. 6
  BY <1>1 DEF IInv, Of, Placed
<1>3. Seen(v) = DOMAIN store.records /\ Seen(v)' = DOMAIN store.records
  BY <1>1 DEF Seen, AfterRecords
<1>4. Passed(v) = {c \in profile[v].declared : \E k \in 1 .. 6 : Optional[k] = c /\ k < run[v].at}
  BY <1>1 DEF Passed, AfterOptional
<1>5. Passed(v)' =
          {c \in profile[v].declared : \E k \in 1 .. 6 : Optional[k] = c /\ k < run[v].at + 1}
  BY <1>1 DEF Passed, AfterOptional
<1>6. Passed(v)' = Passed(v) \cup ({Optional[run[v].at]} \cap profile[v].declared)
  BY <1>2, <1>4, <1>5
<1>7. Optional[run[v].at] \notin Passed(v)
  BY <1>2, <1>4, OptionalClasses
<1>8. Optional[run[v].at] \in Range(Optional)
  BY <1>2, OptionalClasses DEF Range
<1> QED
  BY <1>1, <1>2, <1>3, <1>6, <1>7, <1>8

\* Going on among the optional classes, or past them, when those of D have been
\* judged.
LEMMA LateStage ==
    ASSUME IInv, NEW v \in Validation, NEW D \in SUBSET Range(Optional),
           Alone(v), SameSignals(v), run[v].phase = "optional",
           DOMAIN run'[v] = Fields, DOMAIN Report(v)' = {"listed", "coverage", "found"},
           \/ run'[v].phase = "optional" /\ run'[v].at \in 1 .. 7
           \/ run'[v].phase = "sweep" /\ run'[v].at = 1,
           Seen(v)' = Seen(v), Passed(v)' = Passed(v) \cup D,
           Adds(v, \A c \in D : Sound(v, c)),
           run'[v].model = IF "attribution" \in Passed(v)' THEN ModelOf(v) ELSE NoModel,
           run[v].judged \subseteq run'[v].judged,
           \A c \in D : CameAcross(v, c) => Looked(v, c) \subseteq run'[v].judged /\ Readable(c),
           DOMAIN Report(v)'.coverage = Class,
           \A c \in Class : Report(v)'.coverage[c] =
               IF c \in D /\ CameAcross(v, c) THEN MarkOf(c) ELSE Report(v).coverage[c],
           Report(v)'.coverage = [c \in Class |-> Report(v)'.coverage[c]]
    PROVE  Of(v)'
<1>1. /\ Shaped(v) /\ Placed(v) /\ Kept(v) /\ Verdict(v) /\ Marks(v) /\ Filed(v)
  BY DEF IInv, Of
<1>2. store' = store /\ profile' = profile
  BY DEF Alone
<1>3. Passed(v) \subseteq Range(Optional)
  BY OptionalClasses DEF Passed, Range
<1>4. /\ Misspelt(v)' = Misspelt(v) /\ Mismatches(v)' = Mismatches(v)
      /\ WronglyEncoded(v)' = WronglyEncoded(v)
  BY StoreOnly
<1>5. /\ \A c \in Range(Optional) : /\ CameAcross(v, c)' <=> CameAcross(v, c)
                                    /\ Looked(v, c)' = Looked(v, c)
                                    /\ Sound(v, c)' <=> Sound(v, c)
      /\ ModelOf(v)' = ModelOf(v)
  BY SignalsOnly
<1>6. /\ IsABag(Report(v)'.found)
      /\ IsConformant(Report(v))' <=> IsConformant(Report(v)) /\ \A c \in D : Sound(v, c)
      /\ Mandatory \subseteq Report(v)'.listed /\ Report(v)'.listed \subseteq Class
  <2> DEFINE fine == \A c \in D : Sound(v, c)
  <2>1. fine \in BOOLEAN /\ Adds(v, fine)
    OBVIOUS
  <2> HIDE DEF fine
  <2>2. /\ IsABag(Report(v)'.found)
        /\ IsConformant(Report(v))' <=> IsConformant(Report(v)) /\ fine
        /\ Mandatory \subseteq Report(v)'.listed /\ Report(v)'.listed \subseteq Class
    BY <2>1, AddsReport
  <2> QED
    BY <2>2 DEF fine
<1>7. Shaped(v)'
  <2>1. \A c \in Class : Report(v)'.coverage[c] \in Coverage
    BY <1>1 DEF Shaped, MarkOf, Coverage
  <2> QED
    BY <1>6, <2>1 DEF Shaped
<1>8. Placed(v)' /\ Stopped(v)'
  BY DEF Placed, Stopped, Phase
<1>9. Kept(v)'
  BY <1>1, <1>2, <1>5
     DEF Kept, AfterWalk, AfterMetadata, AfterCrs, SameSignals, SameWalk, SameGlobal, SameCrs,
         SameParsed
<1>10. Verdict(v)'
  <2>1. (\A c \in Passed(v)' : Sound(v, c)')
            <=> (\A c \in Passed(v) : Sound(v, c)) /\ (\A c \in D : Sound(v, c))
    BY <1>3, <1>5
  <2> QED
    BY <1>1, <1>2, <1>4, <1>6, <2>1
       DEF Verdict, AfterDeclarations, AfterStructure, AfterWalk, AfterMetadata, AfterEncodings,
           AfterCrs
<1>11. Marks(v)'
  <2>1. \A c \in Class \ Mandatory : c \in Range(Optional)
    BY DEF Class
  <2>2. Range(Optional) \cap Mandatory = {} /\ Range(Optional) \subseteq Class
    BY OptionalClasses DEF Class
  <2> QED
    BY <1>1, <1>2, <1>3, <1>5, <2>1, <2>2 DEF Marks, CoverageOf, Readable, JournalRead
<1>12. Filed(v)'
  <2> DEFINE fine == \A c \in D : Sound(v, c)
  <2>1. fine \in BOOLEAN /\ Adds(v, fine)
    OBVIOUS
  <2> HIDE DEF fine
  <2> QED
    BY <2>1, AddsFiled
<1> QED
  BY <1>7, <1>8, <1>9, <1>10, <1>11, <1>12 DEF Of

\* Going on without having judged anything.
LEMMA LateQuiet ==
    ASSUME IInv, NEW v \in Validation,
           Alone(v), SameSignals(v), SameJudged(v), Report(v)' = Report(v),
           run[v].phase = "optional", DOMAIN run'[v] = Fields,
           \/ run'[v].phase = "optional" /\ run'[v].at \in 1 .. 7
           \/ run'[v].phase = "sweep" /\ run'[v].at = 1,
           Seen(v)' = Seen(v), Passed(v)' = Passed(v)
    PROVE  Of(v)'
<1>1. Shaped(v) /\ Kept(v)
  BY DEF IInv, Of
<1>2. Adds(v, TRUE)
  BY <1>1, NothingAdds
<1>3. Adds(v, \A c \in {} : Sound(v, c))
  BY <1>2 DEF Adds
<1>4. /\ DOMAIN Report(v)' = {"listed", "coverage", "found"}
      /\ DOMAIN Report(v)'.coverage = Class
      /\ Report(v)'.coverage = [c \in Class |-> Report(v)'.coverage[c]]
  BY <1>1 DEF Shaped
<1>5. /\ run'[v].model = IF "attribution" \in Passed(v)' THEN ModelOf(v) ELSE NoModel
      /\ run[v].judged \subseteq run'[v].judged
  BY <1>1 DEF Kept, SameJudged
<1>6. \A c \in Class : Report(v)'.coverage[c] =
          IF c \in {} /\ CameAcross(v, c) THEN MarkOf(c) ELSE Report(v).coverage[c]
  OBVIOUS
<1>7. Passed(v)' = Passed(v) \cup {} /\ {} \in SUBSET Range(Optional)
  OBVIOUS
<1>8. \A c \in {} : CameAcross(v, c) => Looked(v, c) \subseteq run'[v].judged /\ Readable(c)
  OBVIOUS
<1> QED
  BY <1>3, <1>4, <1>5, <1>6, <1>7, <1>8, LateStage

LEMMA OptionalKeeps ==
    ASSUME IInv, NEW v \in Validation, OptionalStage(v)
    PROVE  Of(v)'
<1>0. PICK class : class = Optional[run[v].at]
  OBVIOUS
<1>1. /\ Shaped(v) /\ Placed(v) /\ Kept(v)
  BY DEF IInv, Of
<1>2. CASE /\ run[v].at > 6 /\ Turns(v, "optional", "sweep")
           /\ SameSignals(v) /\ SameJudged(v) /\ Report(v)' = Report(v)
  <2>1. /\ Alone(v) /\ run[v].phase = "optional" /\ run'[v].phase = "sweep" /\ run'[v].at = 1
        /\ store' = store /\ profile' = profile
        /\ DOMAIN run'[v] = Fields /\ DOMAIN Report(v)' = {"listed", "coverage", "found"}
    BY <1>2 DEF Turns, Alone
  <2>2. Seen(v)' = Seen(v)
    BY <2>1 DEF Seen, AfterRecords
  <2>3. run[v].at = 7
    BY <1>1, <1>2, <2>1 DEF Placed
  <2>4. Passed(v)' = Passed(v)
    BY <2>1, <2>3 DEF Passed, AfterOptional
  <2> QED
    BY <1>2, <2>1, <2>2, <2>4, LateQuiet
<1>3. CASE run[v].at <= 6 /\ class \in profile[v].declared /\ Blocked(v, class) /\ Ends(v, "optional")
  <2>1. CASE class = "attribution" /\ \E m \in ModelRead(v) : m.content = "unreadable"
    BY <1>3, <2>1, EndStage DEF ModelRead
  <2>2. CASE class = "versioning" /\ JournalRead = "unreadable"
    <3>1. "unreadable" \in Range(store.journal)
      BY <2>2, StoreFacts DEF JournalRead, Range, Spelling
    <3> QED
      BY <1>3, <2>2, <3>1, EndStage
  <2> QED
    BY <1>3, <2>1, <2>2 DEF Blocked
<1>4. CASE /\ run[v].at <= 6 /\ class \notin profile[v].declared /\ GoesOn(v, "optional")
           /\ SameSignals(v) /\ SameJudged(v) /\ Report(v)' = Report(v)
  <2>1. /\ Alone(v) /\ run[v].phase = "optional" /\ run'[v].phase = "optional"
        /\ DOMAIN run'[v] = Fields /\ DOMAIN Report(v)' = {"listed", "coverage", "found"}
    BY <1>4 DEF GoesOn
  <2>2. Seen(v)' = Seen(v) /\ Passed(v)' = Passed(v) /\ run'[v].at \in 1 .. 7
    BY <1>0, <1>4, PassedGrows
  <2> QED
    BY <1>4, <2>1, <2>2, LateQuiet
<1>5. CASE /\ run[v].at <= 6 /\ class \in profile[v].declared /\ ~Blocked(v, class)
           /\ GoesOn(v, "optional") /\ SameSignals(v)
           /\ \E j : /\ Judges(v, class, j)
                     /\ run'[v].model = j.model /\ run'[v].judged = j.judged
                     /\ Report(v)'.coverage = j.report.coverage
                     /\ Report(v)'.found = j.report.found
                     /\ Report(v)'.listed = j.report.listed \cup {class}
  <2>1. /\ Alone(v) /\ run[v].phase = "optional" /\ run'[v].phase = "optional"
        /\ DOMAIN run'[v] = Fields /\ DOMAIN Report(v)' = {"listed", "coverage", "found"}
    BY <1>5 DEF GoesOn
  <2>2. /\ Seen(v)' = Seen(v) /\ Passed(v)' = Passed(v) \cup {class} /\ run'[v].at \in 1 .. 7
        /\ class \notin Passed(v) /\ class \in Range(Optional)
    BY <1>0, <1>5, PassedGrows
  <2>3. PICK j : /\ Judges(v, class, j)
                 /\ run'[v].model = j.model /\ run'[v].judged = j.judged
                 /\ Report(v)'.coverage = j.report.coverage
                 /\ Report(v)'.found = j.report.found
                 /\ Report(v)'.listed = j.report.listed \cup {class}
    BY <1>5
  <2>4. Adds(v, Sound(v, class))
    BY <2>2, <2>3, OptionalClasses DEF Judges, Adds, Class
  <2>5. (\A c \in {class} : Sound(v, c)) <=> Sound(v, class)
    OBVIOUS
  <2>6. Adds(v, \A c \in {class} : Sound(v, c))
    BY <2>4, <2>5 DEF Adds
  <2>7. run'[v].model = IF "attribution" \in Passed(v)' THEN ModelOf(v) ELSE NoModel
    <3>1. run'[v].model = IF class = "attribution" THEN ModelOf(v) ELSE run[v].model
      BY <2>3 DEF Judges
    <3>2. run[v].model = IF "attribution" \in Passed(v) THEN ModelOf(v) ELSE NoModel
      BY <1>1, <2>1 DEF Kept
    <3> QED
      BY <2>2, <3>1, <3>2
  <2>8. /\ run[v].judged \subseteq run'[v].judged
        /\ \A c \in {class} :
              CameAcross(v, c) => Looked(v, c) \subseteq run'[v].judged /\ Readable(c)
    BY <1>5, <2>3 DEF Judges, Blocked, Readable, CameAcross
  <2>9. /\ DOMAIN Report(v)'.coverage = Class
        /\ \A c \in Class : Report(v)'.coverage[c] =
              IF c \in {class} /\ CameAcross(v, c) THEN MarkOf(c) ELSE Report(v).coverage[c]
        /\ Report(v)'.coverage = [c \in Class |-> Report(v)'.coverage[c]]
    BY <1>1, <2>3 DEF Judges, Shaped
  <2>10. {class} \in SUBSET Range(Optional)
    BY <2>2
  <2> QED
    BY <1>5, <2>1, <2>2, <2>6, <2>7, <2>8, <2>9, <2>10, LateStage
<1> QED
  BY <1>0, <1>2, <1>3, <1>4, <1>5, OptionalEffect

LEMMA SweepKeeps ==
    ASSUME IInv, NEW v \in Validation, Sweep(v)
    PROVE  Of(v)'
<1> DEFINE C == SetToBag(Convictions(v))
<1> DEFINE M == SetToBag(Misnomers(v))
<1>1. /\ Shaped(v) /\ Placed(v) /\ Kept(v) /\ Verdict(v) /\ Marks(v) /\ Filed(v)
  BY DEF IInv, Of
<1>2. /\ Turns(v, "sweep", "done") /\ SameSignals(v)
      /\ run'[v].model = run[v].model /\ run[v].judged \subseteq run'[v].judged
      /\ Report(v)'.found = (Report(v).found (+) C) (+) M
      /\ Report(v)'.coverage =
            [c \in Class |->
                IF c \in Undeclared(v) THEN "unchecked"
                ELSE IF c = "attribution" /\ UnadmittedNames(v) # {}
                        /\ Report(v).coverage[c] = "none" THEN "checked"
                ELSE Report(v).coverage[c]]
      /\ Mandatory \subseteq Report(v)'.listed /\ Report(v)'.listed \subseteq Class
  BY SweepEffect
<1>3. /\ Alone(v) /\ run[v].phase = "sweep" /\ run'[v].phase = "done" /\ run'[v].at = 1
      /\ store' = store /\ profile' = profile
      /\ DOMAIN run'[v] = Fields /\ DOMAIN Report(v)' = {"listed", "coverage", "found"}
  BY <1>2 DEF Turns, Alone
<1>4. Seen(v) = DOMAIN store.records /\ Seen(v)' = DOMAIN store.records
  BY <1>3 DEF Seen, AfterRecords
<1>5. Passed(v)' = Passed(v) /\ Passed(v) = profile[v].declared \cap Range(Optional)
  BY <1>3, OptionalClasses DEF Passed, AfterOptional, Range
<1>6. /\ Misspelt(v)' = Misspelt(v) /\ Mismatches(v)' = Mismatches(v)
      /\ WronglyEncoded(v)' = WronglyEncoded(v)
  BY <1>3, StoreOnly
<1>7. /\ \A c \in Range(Optional) : /\ CameAcross(v, c)' <=> CameAcross(v, c)
                                    /\ Looked(v, c)' = Looked(v, c)
                                    /\ Sound(v, c)' <=> Sound(v, c)
      /\ ModelOf(v)' = ModelOf(v) /\ Signalled(v)' = Signalled(v)
      /\ UnadmittedNames(v)' = UnadmittedNames(v) /\ CrossChecks(v)' = CrossChecks(v)
  BY <1>2, <1>3, SignalsOnly
<1>8. /\ \A f \in Convictions(v) : /\ f.code = "undeclared" /\ f.class \in Undeclared(v)
                                   /\ \A i : f.about # Record(i)
      /\ \A f \in Misnomers(v) : f.code # "undeclared" /\ \A i : f.about # Record(i)
  BY NotARecord DEF Convictions, Misnomers, CrossChecks, Finding
<1>9. /\ Convictions(v) = {} <=> Signalled(v) \subseteq profile[v].declared
      /\ Misnomers(v) = {} <=> UnadmittedNames(v) = {} /\ CrossChecks(v) = {}
  BY DEF Convictions, Undeclared, Misnomers
<1>10. /\ IsABag(C) /\ BagToSet(C) = Convictions(v) /\ (C = EmptyBag <=> Convictions(v) = {})
       /\ \A f \in Convictions(v) : C[f] = 1
       /\ IsABag(M) /\ BagToSet(M) = Misnomers(v) /\ (M = EmptyBag <=> Misnomers(v) = {})
  BY BagOfSet
<1> HIDE DEF C, M
<1> DEFINE mid == Report(v).found (+) C
<1>11. /\ IsABag(mid) /\ BagToSet(mid) = BagToSet(Report(v).found) \cup Convictions(v)
       /\ mid = EmptyBag <=> Report(v).found = EmptyBag /\ Convictions(v) = {}
       /\ \A f \in BagToSet(Report(v).found) \ Convictions(v) : mid[f] = Report(v).found[f]
       /\ \A f \in Convictions(v) \ BagToSet(Report(v).found) : mid[f] = 1
  BY <1>1, <1>10, BagSum DEF Shaped
<1> HIDE DEF mid
<1>12. Report(v)'.found = mid (+) M
  BY <1>2 DEF mid
<1>13. /\ IsABag(Report(v)'.found)
       /\ BagToSet(Report(v)'.found) =
             BagToSet(Report(v).found) \cup Convictions(v) \cup Misnomers(v)
       /\ Report(v)'.found = EmptyBag <=>
             Report(v).found = EmptyBag /\ Convictions(v) = {} /\ Misnomers(v) = {}
       /\ \A f \in BagToSet(Report(v).found) \ (Convictions(v) \cup Misnomers(v)) :
             Report(v)'.found[f] = Report(v).found[f]
       /\ \A f \in Convictions(v) \ (BagToSet(Report(v).found) \cup Misnomers(v)) :
             Report(v)'.found[f] = 1
  <2>1. /\ IsABag(mid (+) M) /\ BagToSet(mid (+) M) = BagToSet(mid) \cup Misnomers(v)
        /\ mid (+) M = EmptyBag <=> mid = EmptyBag /\ Misnomers(v) = {}
        /\ \A f \in BagToSet(mid) \ Misnomers(v) : (mid (+) M)[f] = mid[f]
    BY <1>10, <1>11, BagSum
  <2> QED
    BY <1>11, <1>12, <2>1
<1>14. Undeclared(v) \subseteq Range(Optional)
  BY DEF Undeclared, Signalled
<1>15. Shaped(v)'
  <2>1. Report(v)'.coverage \in [Class -> Coverage]
    BY <1>1, <1>2 DEF Shaped, Coverage
  <2> QED
    BY <1>2, <1>3, <1>13, <2>1 DEF Shaped
<1>16. Placed(v)' /\ Stopped(v)'
  BY <1>3 DEF Placed, Stopped, Phase
<1>17. Kept(v)'
  BY <1>1, <1>2, <1>3, <1>4, <1>5, <1>7
     DEF Kept, AfterWalk, AfterMetadata, AfterCrs, SameSignals, SameWalk, SameGlobal, SameCrs,
         SameParsed
<1>18. Verdict(v)'
  <2>1. (\A c \in Passed(v)' : Sound(v, c)') <=> (\A c \in Passed(v) : Sound(v, c))
    BY <1>5, <1>7
  <2>2. /\ run[v].phase \in AfterDeclarations /\ run'[v].phase \in AfterDeclarations
        /\ run[v].phase \in AfterStructure /\ run'[v].phase \in AfterStructure
        /\ run[v].phase \in AfterWalk /\ run'[v].phase \in AfterWalk
        /\ run[v].phase \in AfterMetadata /\ run'[v].phase \in AfterMetadata
        /\ run[v].phase \in AfterEncodings /\ run'[v].phase \in AfterEncodings
        /\ run[v].phase \in AfterCrs /\ run'[v].phase \in AfterCrs
    BY <1>3 DEF AfterDeclarations, AfterStructure, AfterWalk, AfterMetadata, AfterEncodings,
                AfterCrs
  <2>3. (Signalled(v) \subseteq profile[v].declared)' <=> Convictions(v) = {}
    BY <1>3, <1>7, <1>9
  <2>4. (UnadmittedNames(v) = {} /\ CrossChecks(v) = {})' <=> Misnomers(v) = {}
    BY <1>7, <1>9
  <2> QED
    BY <1>1, <1>3, <1>4, <1>6, <1>13, <2>1, <2>2, <2>3, <2>4 DEF Verdict, IsConformant
<1>19. Marks(v)'
  <2>1. ASSUME NEW c \in Class
        PROVE  CoverageOf(v, c)' =
                   IF c \in Mandatory THEN "checked"
                   ELSE IF c \notin profile[v].declared
                        THEN IF c \in Signalled(v) THEN "unchecked" ELSE "none"
                   ELSE IF \/ CameAcross(v, c)
                           \/ c = "attribution" /\ UnadmittedNames(v) # {}
                        THEN MarkOf(c) ELSE "none"
    <3>1. CoverageOf(v, c)' =
              IF c \in Undeclared(v) THEN "unchecked"
              ELSE IF c = "attribution" /\ UnadmittedNames(v) # {} /\ CoverageOf(v, c) = "none"
                   THEN "checked"
              ELSE CoverageOf(v, c)
      BY <1>2 DEF CoverageOf
    <3>2. CoverageOf(v, c) =
              IF c \in Mandatory THEN "checked"
              ELSE IF c \in Passed(v) /\ CameAcross(v, c) THEN MarkOf(c) ELSE "none"
      BY <1>1, <1>3 DEF Marks
    <3>3. /\ c = "attribution" => MarkOf(c) = "checked"
          /\ MarkOf(c) # "none" /\ (c \in Mandatory => c \notin Range(Optional))
          /\ "attribution" \in Range(Optional)
      BY OptionalClasses DEF MarkOf
    <3>4. UnadmittedNames(v) # {} => "attribution" \in Signalled(v)
      BY <3>3 DEF UnadmittedNames, Signalled
    <3>5. c \in Mandatory \/ c \in Range(Optional)
      BY DEF Class
    <3> QED
      BY <1>5, <1>14, <3>1, <3>2, <3>3, <3>4, <3>5 DEF Undeclared
  <2>2. \A c \in Passed(v) :
            CameAcross(v, c) => Looked(v, c) \subseteq run'[v].judged /\ Readable(c)'
    BY <1>1, <1>2, <1>3 DEF Marks, Readable, JournalRead
  <2>3. Class \cap Range(Optional) = Range(Optional) /\ Class = Mandatory \cup Range(Optional)
    BY DEF Class
  <2>4. \A c \in Passed(v)' :
            CameAcross(v, c)' => Looked(v, c)' \subseteq run'[v].judged /\ Readable(c)'
    BY <1>5, <1>7, <2>2
  <2>5. ASSUME NEW c \in Class
        PROVE  CoverageOf(v, c)' =
                   IF c \in Mandatory THEN "checked"
                   ELSE IF c \notin profile'[v].declared
                        THEN IF c \in Signalled(v)' THEN "unchecked" ELSE "none"
                   ELSE IF \/ CameAcross(v, c)'
                           \/ c = "attribution" /\ UnadmittedNames(v)' # {}
                        THEN MarkOf(c) ELSE "none"
    BY <1>3, <1>7, <2>1, <2>3
  <2> QED
    BY <1>3, <2>4, <2>5 DEF Marks
<1>20. Filed(v)'
  <2>1. \A i \in DOMAIN store.records : About(v, i)' = About(v, i)
    BY <1>8, <1>13 DEF About
  <2>2. ASSUME NEW i \in Seen(v)', store.records[i].status # "ok"
        PROVE  \E f \in About(v, i)' : About(v, i)' = {f} /\ Report(v)'.found[f] = 1
    <3>1. i \in Seen(v) /\ i \in DOMAIN store.records
      BY <1>4, <2>2
    <3>2. PICK f \in About(v, i) : About(v, i) = {f} /\ Report(v).found[f] = 1
      BY <1>1, <1>3, <2>2, <3>1 DEF Filed
    <3>3. f \in BagToSet(Report(v).found) \ (Convictions(v) \cup Misnomers(v))
      BY <1>8, <3>2 DEF About
    <3> QED
      BY <1>13, <2>1, <3>1, <3>2, <3>3
  <2>3. ASSUME NEW f \in BagToSet(Report(v)'.found), f.code = "undeclared"
        PROVE  Report(v)'.found[f] = 1 /\ f.class \in (Signalled(v) \ profile[v].declared)'
    <3>1. f \notin BagToSet(Report(v).found)
      BY <1>1, <1>3, <2>3 DEF Filed
    <3>2. f \in Convictions(v) \ (BagToSet(Report(v).found) \cup Misnomers(v))
      BY <1>8, <1>13, <2>3, <3>1
    <3> QED
      BY <1>3, <1>7, <1>8, <1>13, <3>2 DEF Undeclared
  <2>4. \A i \in DOMAIN store.records \ Seen(v)' : FALSE
    BY <1>4
  <2> QED
    BY <1>3, <2>2, <2>3, <2>4 DEF Filed
<1> QED
  BY <1>15, <1>16, <1>17, <1>18, <1>19, <1>20 DEF Of

\* A validation that does not move stays what it is.
LEMMA SameRun ==
    ASSUME NEW v, Of(v), run'[v] = run[v], store' = store, profile' = profile
    PROVE  Of(v)'
<1>1. /\ Seen(v)' = Seen(v) /\ Passed(v)' = Passed(v) /\ Report(v)' = Report(v)
      /\ Misspelt(v)' = Misspelt(v) /\ Mismatches(v)' = Mismatches(v)
      /\ WronglyEncoded(v)' = WronglyEncoded(v) /\ UnadmittedNames(v)' = UnadmittedNames(v)
      /\ CrossChecks(v)' = CrossChecks(v) /\ \A e : Carrying(v, e)' = Carrying(v, e)
  BY DEF Seen, Passed, Report, Misspelt, Mismatches, WronglyEncoded, UnadmittedNames,
         CrossChecks, Carrying
<1>2. ModelRead(v)' = ModelRead(v)
  BY DEF ModelRead
<1>3. ModelOf(v)' = ModelOf(v)
  BY <1>2 DEF ModelOf
<1>4. Signalled(v)' = Signalled(v)
  BY <1>1 DEF Signalled
<1>5. \A i : About(v, i)' = About(v, i)
  BY <1>1 DEF About
<1>6. \A c \in Range(Optional) : /\ CameAcross(v, c)' <=> CameAcross(v, c)
                                 /\ Looked(v, c)' = Looked(v, c)
                                 /\ Sound(v, c)' <=> Sound(v, c)
  <2>1. ASSUME NEW c \in Range(Optional)
        PROVE  CameAcross(v, c)' <=> CameAcross(v, c)
    BY <1>1, <1>2, <2>1, OptionalClasses DEF CameAcross
  <2>2. ASSUME NEW c \in Range(Optional)
        PROVE  Looked(v, c)' = Looked(v, c)
    BY <1>1, <1>2, <2>2, OptionalClasses DEF Looked
  <2>3. ASSUME NEW c \in Range(Optional)
        PROVE  Sound(v, c)' <=> Sound(v, c)
    BY <1>1, <1>2, <2>3, OptionalClasses DEF Sound, JournalRead
  <2> QED
    BY <2>1, <2>2, <2>3
<1>7. Passed(v) \subseteq Range(Optional)
  BY OptionalClasses DEF Passed, Range
<1>8. Shaped(v)' /\ Placed(v)' /\ Stopped(v)'
  BY <1>1 DEF Of, Shaped, Placed, Stopped
<1>9. Kept(v)'
  BY <1>1, <1>3 DEF Of, Kept
<1>10. Verdict(v)'
  <2>1. (\A c \in Passed(v)' : Sound(v, c)') <=> (\A c \in Passed(v) : Sound(v, c))
    BY <1>1, <1>6, <1>7
  <2> QED
    BY <1>1, <1>4, <2>1 DEF Of, Verdict
<1>11. Marks(v)'
  <2>1. Class = Mandatory \cup Range(Optional)
    BY DEF Class
  <2> QED
    BY <1>1, <1>4, <1>6, <1>7, <2>1 DEF Of, Marks, CoverageOf, Readable, JournalRead
<1>12. Filed(v)'
  BY <1>1, <1>4, <1>5 DEF Of, Filed
<1> QED
  BY <1>8, <1>9, <1>10, <1>11, <1>12 DEF Of

LEMMA InitInv ==
    ASSUME Init
    PROVE  IInv
<1>1. DOMAIN run = Validation /\ store \in Stores /\ profile \in Profiles(store)
  BY DEF Init
<1>2. ASSUME NEW v \in Validation
      PROVE  Of(v)
  <2>1. run[v] = Begun
    BY DEF Init
  <2>2. /\ DOMAIN run[v] = Fields /\ run[v].phase = "declarations" /\ run[v].at = 1
        /\ run[v].models = {} /\ ~run[v].journal /\ ~run[v].global /\ ~run[v].crs
        /\ run[v].parsed = {} /\ run[v].model = NoModel /\ Report(v) = EmptyReport
    BY <2>1 DEF Begun, Fields, Report
  <2>3. Seen(v) = {} /\ Passed(v) = {}
    BY <2>2 DEF Seen, Passed, AfterRecords, AfterOptional
  <2>4. Shaped(v)
    BY <2>2, NoFinding DEF Shaped, EmptyReport, Coverage, Class
  <2>5. Placed(v) /\ Stopped(v)
    BY <2>2 DEF Placed, Stopped, Phase
  <2>6. Kept(v)
    BY <2>2, <2>3 DEF Kept, AfterWalk, AfterMetadata, AfterCrs
  <2>7. Verdict(v)
    BY <2>2, <2>3
       DEF Verdict, IsConformant, EmptyReport, AfterDeclarations, AfterStructure, AfterWalk,
           AfterMetadata, AfterEncodings, AfterCrs
  <2>8. Marks(v)
    BY <2>2, <2>3 DEF Marks, CoverageOf, EmptyReport
  <2>9. Filed(v)
    <3>1. BagToSet(Report(v).found) = {}
      BY <2>2, NoFinding DEF EmptyReport
    <3> QED
      BY <2>3, <3>1 DEF Filed, About
  <2> QED
    BY <2>4, <2>5, <2>6, <2>7, <2>8, <2>9 DEF Of
<1> QED
  BY <1>1, <1>2 DEF IInv

\* A stage moves its own validation.
LEMMA StageAlone ==
    ASSUME IInv, NEW v \in Validation, Stage(v)
    PROVE  Alone(v) /\ Of(v)'
<1>1. CASE Declarations(v)
  BY <1>1, DeclarationsEffect, DeclarationsKeeps DEF Turns
<1>2. CASE Structure(v)
  BY <1>2, StructureEffect, StructureKeeps DEF Turns
<1>3. CASE Walk(v)
  BY <1>3, WalkEffect, WalkKeeps DEF Turns
<1>4. CASE Metadata(v)
  BY <1>4, MetadataEffect, MetadataKeeps DEF Turns, Ends
<1>5. CASE Encodings(v)
  BY <1>5, EncodingsEffect, EncodingsKeeps DEF Turns
<1>6. CASE Crs(v)
  BY <1>6, CrsEffect, CrsKeeps DEF Turns, Ends
<1>7. CASE ReadRecord(v)
  BY <1>7, ReadRecordEffect, ReadRecordKeeps DEF Turns, Ends, GoesOn
<1>8. CASE OptionalStage(v)
  BY <1>8, OptionalEffect, OptionalKeeps DEF Turns, Ends, GoesOn
<1>9. CASE Sweep(v)
  BY <1>9, SweepEffect, SweepKeeps DEF Turns
<1> QED
  BY <1>1, <1>2, <1>3, <1>4, <1>5, <1>6, <1>7, <1>8, <1>9 DEF Stage

LEMMA NextInv ==
    ASSUME IInv, [Next]_vars
    PROVE  IInv'
<1>1. ASSUME NEW v \in Validation, Stage(v)
      PROVE  IInv'
  <2>1. Alone(v) /\ Of(v)'
    BY <1>1, StageAlone
  <2>2. ASSUME NEW w \in Validation
        PROVE  Of(w)'
    BY <2>1, SameRun DEF IInv, Alone
  <2> QED
    BY <2>1, <2>2 DEF IInv, Alone
<1>2. CASE UNCHANGED vars
  <2>1. store' = store /\ profile' = profile /\ run' = run
    BY <1>2 DEF vars
  <2>2. ASSUME NEW w \in Validation
        PROVE  Of(w)'
    BY <2>1, SameRun DEF IInv
  <2> QED
    BY <2>1, <2>2 DEF IInv
<1> QED
  BY <1>1, <1>2 DEF Next

\* Whatever stage a validation has reached, its report is the account of the
\* stages behind it (validate/mod.rs).
THEOREM Invariance == Spec => []IInv
<1>1. Init => IInv
  BY InitInv
<1>2. IInv /\ [Next]_vars => IInv'
  BY NextInv
<1> QED
  BY <1>1, <1>2, PTL DEF Spec

\* The state of every validation has its type.
THEOREM TypeCorrect == Spec => []TypeOK
<1>1. ASSUME IInv
      PROVE  TypeOK
  <2>1. ASSUME NEW v \in Validation
        PROVE  run[v].at \in 1 .. Len(Optional) + Len(store.records) + 1
    <3>1. Placed(v) /\ Len(store.records) \in Nat /\ Len(Optional) = 6
      BY <1>1, <2>1, StoreFacts, OptionalClasses DEF IInv, Of
    <3> QED
      BY <3>1 DEF Placed
  <2> QED
    BY <1>1, <2>1 DEF TypeOK, IInv, Of, Shaped, Placed, Kept
<1> QED
  BY <1>1, Invariance, PTL

-----------------------------------------------------------------------------
(* What a complete report says *)

LEMMA DoneFacts ==
    ASSUME IInv, NEW v \in Validation, Done(v)
    PROVE  /\ run[v].models = store.models
           /\ run[v].journal <=> \E s \in Spelling : store.journal[s] # "absent"
           /\ run[v].global <=> store.global.status = "read"
           /\ store.global.status # "unreadable"
           /\ run[v].crs <=> store.crs \in {"agreed", "other"}
           /\ store.crs # "unreadable"
           /\ run[v].parsed = {i \in DOMAIN store.records : store.records[i].status = "ok"}
           /\ \A i \in DOMAIN store.records : store.records[i].status # "unreadable"
           /\ Seen(v) = DOMAIN store.records
           /\ Passed(v) = profile[v].declared \cap Range(Optional)
           /\ run[v].model = IF "attribution" \in profile[v].declared THEN ModelOf(v) ELSE NoModel
           /\ \A c \in Class : CoverageOf(v, c) =
                  IF c \in Mandatory THEN "checked"
                  ELSE IF c \notin profile[v].declared
                       THEN IF c \in Signalled(v) THEN "unchecked" ELSE "none"
                  ELSE IF \/ CameAcross(v, c)
                          \/ c = "attribution" /\ UnadmittedNames(v) # {}
                       THEN MarkOf(c) ELSE "none"
           /\ \A c \in profile[v].declared \cap Range(Optional) :
                  CameAcross(v, c) => Looked(v, c) \subseteq run[v].judged /\ Readable(c)
<1>1. run[v].phase = "done"
  BY DEF Done
<1>2. Kept(v) /\ Marks(v)
  BY DEF IInv, Of
<1>3. Seen(v) = DOMAIN store.records
  BY <1>1 DEF Seen, AfterRecords
<1>4. Passed(v) = profile[v].declared \cap Range(Optional)
  BY <1>1, OptionalClasses DEF Passed, AfterOptional, Range
<1>5. "attribution" \in Range(Optional)
  BY OptionalClasses
<1> QED
  BY <1>1, <1>2, <1>3, <1>4, <1>5 DEF Kept, Marks, AfterWalk, AfterMetadata, AfterCrs

LEMMA DoneVerdict ==
    ASSUME IInv, NEW v \in Validation, Done(v)
    PROVE  Green(v) <=>
               /\ Mandatory \subseteq profile[v].declared
               /\ store.folder /\ store.misnamed = 0 /\ Misspelt(v) = {}
               /\ store.global.status = "read" /\ Mismatches(v) = {}
               /\ WronglyEncoded(v) = [models |-> 0, records |-> {}, global |-> 0]
               /\ store.crs = "agreed"
               /\ \A i \in DOMAIN store.records : store.records[i].status = "ok"
               /\ \A c \in profile[v].declared \cap Range(Optional) : Sound(v, c)
               /\ Signalled(v) \subseteq profile[v].declared
               /\ UnadmittedNames(v) = {} /\ CrossChecks(v) = {}
<1>1. run[v].phase = "done" /\ (Green(v) <=> IsConformant(Report(v)))
  BY DEF Done, Green
<1>2. Verdict(v)
  BY DEF IInv, Of
<1>3. Seen(v) = DOMAIN store.records /\ Passed(v) = profile[v].declared \cap Range(Optional)
  BY DoneFacts
<1> QED
  BY <1>1, <1>2, <1>3
     DEF Verdict, AfterDeclarations, AfterStructure, AfterWalk, AfterMetadata, AfterEncodings,
         AfterCrs

\* Under a case rule that rejects other spellings of the folder, every attribute
\* model has the name it is read under.
LEMMA GreenFacts ==
    ASSUME IInv, FolderRejected, NEW v \in Validation, Green(v)
    PROVE  /\ "journal" \notin Misspelt(v)
           /\ ModelRead(v) = store.models
           /\ \A m \in store.models : m.name # "xsd"
           /\ run[v].parsed = DOMAIN store.records
<1>1. Done(v)
  BY DEF Green
<1>2. /\ Misspelt(v) = {} /\ store.global.status = "read" /\ Mismatches(v) = {}
      /\ WronglyEncoded(v) = [models |-> 0, records |-> {}, global |-> 0]
      /\ \A i \in DOMAIN store.records : store.records[i].status = "ok"
      /\ UnadmittedNames(v) = {}
  BY <1>1, DoneVerdict
<1>3. "folder" \notin profile[v].admits
  BY DEF FolderRejected
<1>4. "journal" \notin Misspelt(v) /\ \A m \in store.models : m.folder # "variant"
  BY <1>2, <1>3 DEF Misspelt
<1>5. run[v].models = store.models /\ run[v].global
  BY <1>1, <1>2, DoneFacts
<1>6. \A m \in store.models : m.name # "xsd"
  BY <1>2, <1>5 DEF UnadmittedNames
<1>7. store.global.encoding = profile[v].encoding
  BY <1>2 DEF Mismatches
<1>8. \A m \in store.models : EncodingOf(m.name) = profile[v].encoding
  <2> DEFINE wrong == {m \in store.models : EncodingOf(m.name) # profile[v].encoding}
  <2>1. Cardinality(wrong) = 0
    BY <1>2 DEF WronglyEncoded
  <2>2. IsFiniteSet(wrong)
    BY StoreFacts, FS_Subset
  <2> HIDE DEF wrong
  <2>3. wrong = {}
    BY <2>1, <2>2, FS_EmptySet
  <2> QED
    BY <2>3 DEF wrong
<1>9. ASSUME NEW m \in store.models
      PROVE  m \in ModelRead(v)
  <2>1. m.name \in {"json", "xml", "xsd"} /\ m.folder \in {"canonical", "variant"}
    BY <1>9, StoreFacts DEF ModelFile, Spelling
  <2>2. m.name = store.global.encoding
    BY <1>6, <1>7, <1>8, <2>1 DEF EncodingOf
  <2>3. ModelName(run[v].models, store.global.encoding) = store.global.encoding
    BY <1>5, <2>2 DEF ModelName, NamedIn
  <2> QED
    BY <1>4, <1>5, <2>1, <2>2, <2>3 DEF ModelRead
<1>10. ModelRead(v) = store.models
  BY <1>9 DEF ModelRead
<1>11. run[v].parsed = DOMAIN store.records
  BY <1>1, <1>2, DoneFacts
<1> QED
  BY <1>4, <1>6, <1>10, <1>11

\* A green report leaves no content out: what is there is of a declared class
\* and is not shown as "no content" (sweep.rs, and the stages it completes), unless
\* its case rule lets attribute models lie where they are not read.
THEOREM GreenLeavesNothingOut == Spec => [](FolderRejected => NoSilentPass)
<1>1. ASSUME IInv, FolderRejected, NEW v \in Validation, Green(v),
             NEW c \in Range(Optional), Content(c) # {}
      PROVE  /\ c \in profile[v].declared \/ c = "geometry"
             /\ c \in profile[v].declared => CoverageOf(v, c) # "none"
  <2>1. Done(v)
    BY <1>1 DEF Green
  <2>2. /\ store.global.status = "read" /\ Signalled(v) \subseteq profile[v].declared
    BY <1>1, <2>1, DoneVerdict
  <2>3. /\ run[v].models = store.models /\ run[v].global
        /\ run[v].journal <=> \E s \in Spelling : store.journal[s] # "absent"
        /\ c \in Class /\ c \notin Mandatory /\ MarkOf(c) # "none"
    BY <1>1, <2>1, <2>2, DoneFacts, OptionalClasses DEF Class, MarkOf
  <2>4. /\ ModelRead(v) = store.models /\ run[v].parsed = DOMAIN store.records
    BY <1>1, GreenFacts
  <2>5. \A e : Having(e) # {} => Carrying(v, e) # {}
    BY <2>4 DEF Having, Carrying
  <2>6. CameAcross(v, c) /\ (c # "geometry" => c \in Signalled(v))
    <3>1. CASE c = "attribution"
      BY <1>1, <2>3, <2>4, <3>1 DEF Content, CameAcross, Signalled
    <3>2. CASE c = "coverages"
      BY <1>1, <2>5, <3>2 DEF Content, CameAcross, Signalled
    <3>3. CASE c = "geometry"
      BY <1>1, <2>5, <3>3 DEF Content, CameAcross
    <3>4. CASE c = "tiling"
      BY <1>1, <2>3, <3>4 DEF Content, CameAcross, Signalled
    <3>5. CASE c = "topology"
      BY <1>1, <2>5, <3>5 DEF Content, CameAcross, Signalled
    <3>6. CASE c = "versioning"
      BY <1>1, <2>3, <3>6 DEF Content, CameAcross, Signalled
    <3> QED
      BY <1>1, <3>1, <3>2, <3>3, <3>4, <3>5, <3>6, OptionalClasses
  <2> QED
    BY <1>1, <2>1, <2>2, <2>3, <2>6, DoneFacts
<1>2. IInv => (FolderRejected => NoSilentPass)
  BY <1>1 DEF NoSilentPass
<1> QED
  BY <1>2, Invariance, PTL

\* "checked" is a promise kept: all content of a class so shown in a green
\* report was judged, and none of it is faulty (stages.rs), unless its case rule
\* lets the content, a journal included, lie where it is not read.
THEOREM CheckedIsTrue == Spec => [](FolderRejected /\ JournalFound => CheckedMeansJudged)
<1>1. ASSUME IInv, FolderRejected, JournalFound, NEW v \in Validation, Green(v),
             NEW c \in Range(Optional), CoverageOf(v, c) = "checked"
      PROVE  Content(c) \subseteq run[v].judged /\ ~Faulty(c)
  <2>1. Done(v)
    BY <1>1 DEF Green
  <2>2. /\ store.global.status = "read" /\ store.crs = "agreed" /\ UnadmittedNames(v) = {}
        /\ \A d \in profile[v].declared \cap Range(Optional) : Sound(v, d)
    BY <1>1, <2>1, DoneVerdict
  <2>3. c \in Class /\ c \notin Mandatory
    BY <1>1, OptionalClasses DEF Class
  <2>4. c \in profile[v].declared /\ CameAcross(v, c) /\ MarkOf(c) = "checked"
    BY <1>1, <2>1, <2>2, <2>3, DoneFacts
  <2>5. Looked(v, c) \subseteq run[v].judged /\ Readable(c) /\ Sound(v, c)
    BY <1>1, <2>1, <2>2, <2>4, DoneFacts
  <2>6. run[v].global /\ run[v].crs
    BY <1>1, <2>1, <2>2, DoneFacts
  <2>7. /\ store.journal["variant"] = "absent" /\ ModelRead(v) = store.models
        /\ \A m \in store.models : m.name # "xsd"
        /\ run[v].parsed = DOMAIN store.records
    BY <1>1, GreenFacts DEF JournalFound, Misspelt
  <2>8. CASE c = "attribution"
    BY <2>5, <2>7, <2>8 DEF Content, Looked, Faulty, Sound
  <2>9. CASE c = "coverages"
    <3>1. Carrying(v, "domainSet") =
              {i \in DOMAIN store.records : "domainSet" \in store.records[i].elements}
      BY <2>7 DEF Carrying
    <3> QED
      BY <2>5, <2>9, <3>1 DEF Content, Having, Looked, Faulty, Sound
  <2>10. CASE c = "tiling"
    BY <2>4, <2>5, <2>6, <2>7, <2>10 DEF Content, Looked, Faulty, Sound, CameAcross
  <2>11. CASE c = "versioning"
    BY <2>4, <2>5, <2>7, <2>11
       DEF Content, Looked, Faulty, Sound, CameAcross, Readable, JournalRead, Spelling
  <2>12. c \notin {"geometry", "topology"}
    BY <2>4 DEF MarkOf
  <2> QED
    BY <1>1, <2>8, <2>9, <2>10, <2>11, <2>12, OptionalClasses
<1>2. IInv => (FolderRejected /\ JournalFound => CheckedMeansJudged)
  BY <1>1 DEF CheckedMeansJudged
<1> QED
  BY <1>2, Invariance, PTL

\* Each fault is answered once: a record that does not parse and a class nobody
\* declared are one finding each, and there is no report exactly if something
\* cannot be read (stages.rs, sweep.rs), whatever the yardsticks.
THEOREM EachFaultOnce == Spec => []FaultsAnswered
<1>1. ASSUME IInv, NEW v \in Validation, Done(v)
      PROVE  /\ \A i \in {i \in DOMAIN store.records : store.records[i].status # "ok"} :
                    \E f \in {f \in BagToSet(Report(v).found) :
                                f.about = Record(i) /\ f.code # "metadata-encoding"} :
                        /\ Report(v).found[f] = 1
                        /\ \A g \in BagToSet(Report(v).found) :
                              g.about = Record(i) /\ g.code # "metadata-encoding" => g = f
             /\ \A f \in BagToSet(Report(v).found) :
                    f.code = "undeclared" =>
                        /\ Report(v).found[f] = 1
                        /\ f.class \notin profile[v].declared /\ Content(f.class) # {}
  <2>1. Filed(v) /\ run[v].phase # "aborted" /\ Seen(v) = DOMAIN store.records
    BY <1>1, DoneFacts DEF IInv, Of, Done
  <2>2. ASSUME NEW i \in DOMAIN store.records, store.records[i].status # "ok"
        PROVE  \E f \in About(v, i) : About(v, i) = {f} /\ Report(v).found[f] = 1
    BY <2>1, <2>2 DEF Filed
  <2>3. ASSUME NEW c \in Signalled(v)
        PROVE  Content(c) # {}
    <3>1. /\ run[v].models = store.models /\ (run[v].global <=> store.global.status = "read")
          /\ run[v].journal <=> \E s \in Spelling : store.journal[s] # "absent"
          /\ \A e : Carrying(v, e) # {} => Having(e) # {}
      <4>1. /\ run[v].models = store.models /\ (run[v].global <=> store.global.status = "read")
            /\ run[v].journal <=> \E s \in Spelling : store.journal[s] # "absent"
            /\ run[v].parsed \subseteq DOMAIN store.records
        BY <1>1, DoneFacts
      <4> QED
        BY <4>1 DEF Carrying, Having
    <3>2. c \in Range(Optional)
      BY <2>3 DEF Signalled
    <3>3. CASE c = "attribution"
      BY <2>3, <3>1, <3>3 DEF Signalled, Content
    <3>4. CASE c = "coverages"
      BY <2>3, <3>1, <3>4 DEF Signalled, Content
    <3>5. CASE c = "tiling"
      BY <2>3, <3>1, <3>5 DEF Signalled, Content
    <3>6. CASE c = "topology"
      BY <2>3, <3>1, <3>6 DEF Signalled, Content
    <3>7. CASE c = "versioning"
      BY <2>3, <3>1, <3>7 DEF Signalled, Content
    <3>8. c # "geometry"
      BY <2>3 DEF Signalled
    <3> QED
      BY <3>2, <3>3, <3>4, <3>5, <3>6, <3>7, <3>8, OptionalClasses
  <2>4. ASSUME NEW f \in BagToSet(Report(v).found), f.code = "undeclared"
        PROVE  /\ Report(v).found[f] = 1
               /\ f.class \notin profile[v].declared /\ Content(f.class) # {}
    BY <2>1, <2>3, <2>4 DEF Filed
  <2> QED
    BY <2>2, <2>4 DEF About
<1>2. ASSUME IInv, NEW v \in Validation
      PROVE  /\ run[v].phase = "aborted" =>
                    \/ store.global.status = "unreadable" \/ store.crs = "unreadable"
                    \/ \E i \in DOMAIN store.records : store.records[i].status = "unreadable"
                    \/ /\ "unreadable" \in Range(store.journal)
                       /\ "versioning" \in profile[v].declared
                    \/ /\ "attribution" \in profile[v].declared
                       /\ \E m \in store.models : m.content = "unreadable"
             /\ Done(v) =>
                    /\ store.global.status # "unreadable" /\ store.crs # "unreadable"
                    /\ \A i \in DOMAIN store.records : store.records[i].status # "unreadable"
  BY <1>2, DoneFacts DEF IInv, Of, Stopped
<1>3. IInv => FaultsAnswered
  BY <1>1, <1>2 DEF FaultsAnswered, OncePerFault, ErrorIsOperational
<1> QED
  BY <1>3, Invariance, PTL

\* Declaring less earns neither a green report nor a "checked" that declaring
\* more would not (sweep.rs): two calls on one datastore, two yardsticks.
THEOREM DeclaringLessEarnsNothing == Spec => []LessIsNotGreener
<1>1. ASSUME IInv, NEW v \in Validation, NEW w \in Validation, Done(v), Done(w),
             profile[v].declared \subseteq profile[w].declared,
             profile[v] = [profile[w] EXCEPT !.declared = profile[v].declared]
      PROVE  /\ Green(v) => Green(w)
             /\ \A c \in Class : CoverageOf(v, c) = "checked" => CoverageOf(w, c) = "checked"
  <2>1. /\ profile[v].admits = profile[w].admits /\ profile[v].encoding = profile[w].encoding
        /\ profile[v].scheme = profile[w].scheme /\ profile[v].model = profile[w].model
    <3>1. DOMAIN profile[w] = {"declared", "encoding", "scheme", "model", "admits"}
      BY <1>1, ConformanceAssumption DEF ConformanceAssumption, IInv
    <3>2. PICK d : d = profile[v].declared
      OBVIOUS
    <3> QED
      BY <1>1, <3>1, <3>2
  <2>2. /\ run[v].models = run[w].models /\ (run[v].journal <=> run[w].journal)
        /\ run[v].global <=> run[w].global
        /\ run[v].crs <=> run[w].crs
        /\ run[v].parsed = run[w].parsed
    BY <1>1, DoneFacts
  <2>3. /\ Misspelt(v) = Misspelt(w) /\ Mismatches(v) = Mismatches(w)
        /\ WronglyEncoded(v) = WronglyEncoded(w)
    BY <2>1 DEF Misspelt, Mismatches, WronglyEncoded
  <2>4. /\ \A e : Carrying(v, e) = Carrying(w, e)
        /\ UnadmittedNames(v) = UnadmittedNames(w) /\ ModelRead(v) = ModelRead(w)
    BY <2>2 DEF Carrying, UnadmittedNames, ModelRead
  <2>5. Signalled(v) = Signalled(w) /\ ModelOf(v) = ModelOf(w)
    <3>1. ASSUME NEW c \in Range(Optional)
          PROVE  c \in Signalled(v) <=> c \in Signalled(w)
      BY <2>2, <2>4, OptionalClasses DEF Signalled
    <3>2. Signalled(v) \subseteq Range(Optional) /\ Signalled(w) \subseteq Range(Optional)
      BY DEF Signalled
    <3>3. Signalled(v) = Signalled(w)
      BY <3>1, <3>2
    <3>4. ModelOf(v) = ModelOf(w)
      BY <2>4 DEF ModelOf
    <3> QED
      BY <3>3, <3>4
  <2>6. \A c \in Range(Optional) : /\ CameAcross(v, c) <=> CameAcross(w, c)
                                   /\ Sound(v, c) <=> Sound(w, c)
    <3>1. ASSUME NEW c \in Range(Optional)
          PROVE  CameAcross(v, c) <=> CameAcross(w, c)
      BY <2>2, <2>4, <3>1, OptionalClasses DEF CameAcross
    <3>2. ASSUME NEW c \in Range(Optional)
          PROVE  Sound(v, c) <=> Sound(w, c)
      BY <2>2, <2>4, <3>2, OptionalClasses DEF Sound
    <3> QED
      BY <3>1, <3>2
  <2>7. ASSUME NEW c \in Range(Optional), c \notin Signalled(w), c # "geometry"
        PROVE  Sound(w, c)
    <3>1. run[w].models = {} => ModelRead(w) = {}
      BY <1>1, DoneFacts DEF ModelRead
    <3> QED
      BY <2>7, <3>1, OptionalClasses DEF Sound, Signalled
  <2>8. Sound(w, "geometry")
    BY DEF Sound
  <2>9. ASSUME Green(v)
        PROVE  Green(w)
    <3>1. /\ Mandatory \subseteq profile[v].declared
          /\ store.folder /\ store.misnamed = 0 /\ Misspelt(v) = {}
          /\ store.global.status = "read" /\ Mismatches(v) = {}
          /\ WronglyEncoded(v) = [models |-> 0, records |-> {}, global |-> 0]
          /\ store.crs = "agreed"
          /\ \A i \in DOMAIN store.records : store.records[i].status = "ok"
          /\ \A c \in profile[v].declared \cap Range(Optional) : Sound(v, c)
          /\ Signalled(v) \subseteq profile[v].declared
          /\ UnadmittedNames(v) = {} /\ CrossChecks(v) = {}
      BY <1>1, <2>9, DoneVerdict
    <3>2. \A c \in profile[w].declared \cap Range(Optional) : Sound(w, c)
      BY <2>5, <2>6, <2>7, <2>8, <3>1
    <3>3. run[w].model = run[v].model
      <4>1. CASE "attribution" \in profile[v].declared
        BY <1>1, <2>5, <4>1, DoneFacts
      <4>2. CASE "attribution" \notin profile[v].declared
        <5>1. run[w].models = {}
          BY <2>2, <3>1, <4>2, OptionalClasses DEF Signalled
        <5>2. ModelRead(w) = {}
          BY <1>1, <5>1, DoneFacts DEF ModelRead
        <5>3. ModelOf(w) = NoModel
          BY <5>2 DEF ModelOf
        <5> QED
          BY <1>1, <4>2, <5>3, DoneFacts
      <4> QED
        BY <4>1, <4>2
    <3>4. CrossChecks(w) = {}
      BY <2>1, <2>2, <3>1, <3>3 DEF CrossChecks
    <3> QED
      BY <1>1, <2>3, <2>4, <2>5, <3>1, <3>2, <3>4, DoneVerdict
  <2>10. ASSUME NEW c \in Class, CoverageOf(v, c) = "checked"
         PROVE  CoverageOf(w, c) = "checked"
    <3>1. c \in Mandatory \/ (c \in profile[v].declared /\ c \in Range(Optional))
      BY <1>1, <2>10, DoneFacts DEF Class
    <3> QED
      BY <1>1, <2>4, <2>6, <2>10, <3>1, DoneFacts
  <2> QED
    BY <2>9, <2>10
<1>2. IInv => LessIsNotGreener
  BY <1>1 DEF LessIsNotGreener
<1> QED
  BY <1>2, Invariance, PTL
=============================================================================
