-------------------------- MODULE MigrationProofs ---------------------------
(***************************************************************************)
(* For every set of processes, files and contents, every number of changes *)
(* of the source, of failures and of foreign files: a published report     *)
(* comes last, is never replaced or withdrawn, and holds what the promise  *)
(* of the migration says; two migrations into one place never mix.         *)
(*                                                                         *)
(* No step sees the source at an instant.  A walk reads one directory      *)
(* after the other: of every file it can say that it was found, that it is *)
(* in, or under, something the walk has still to come to, or that it was   *)
(* absent at some moment since the walk began (WalkHeld).  What is read    *)
(* and copied is read and copied one file after the other.  That the files *)
(* of the plan stood together when it was made follows from the look that  *)
(* verifies it: a file that is found to be as in the snapshot has been so  *)
(* ever since, for a change gives it a stamp that no snapshot has (Stamps, *)
(* PlanHeld).  The same of what was copied: it was compared with the       *)
(* source, and the look after the copy says that the source was then as    *)
(* planned (CopyHeld).                                                     *)
(***************************************************************************)
EXTENDS Migration, SequenceTheorems, WellFoundedInduction, TLAPS

-----------------------------------------------------------------------------
(* The inductive invariant *)

Looking == {"match", "walk", "fingerprint"}
Planning == {"idle", "inventory", "snapshot"}
Watching == {"inventory", "snapshot", "walk", "fingerprint"}
Copying == {"copy", "apply", "compare"}
Ending == {"validate", "stage_descriptor", "stage_report", "publish_descriptor",
           "publish_report", "done"}

\* A process that has made the datastore and has not failed.
Owns(p) ==
    \/ at[p] \in {"records"} \cup Copying \cup Ending
    \/ at[p] \in Looking /\ passed[p] >= 2

\* How often the source was verified before each step.
Rounds(p) ==
    /\ at[p] \in Planning => passed[p] = 0
    /\ at[p] \in {"preflight", "create", "records"} \cup Copying => passed[p] = 2
    /\ at[p] \in Looking => passed[p] \in 0 .. 4
    /\ at[p] = "validate" => passed[p] = 3
    /\ at[p] \in {"stage_descriptor", "stage_report"} => passed[p] = 4
    /\ at[p] \in {"publish_descriptor", "publish_report", "done"} => passed[p] = 5

\* The next change of a file gives it a stamp of its own.
Stamps(p) == \A f \in DOMAIN snap[p] : snap[p][f].stamp <= edits

Ahead(p) ==
    /\ at[p] \in {"fingerprint"} \cup Copying => todo[p] \subseteq DOMAIN snap[p]
    /\ at[p] \in {"apply", "compare"} => todo[p] # {}

\* While a process looks, its history has what every file holds.
SeenHeld(p) ==
    /\ at[p] \in Watching => \A f \in File : Content(source)[f] \in seen[p][f]
    /\ at[p] \notin Watching \cup {"stopped"} => seen[p] = Unseen

Absent(p, f) == NoFile \in seen[p][f]
Agreed(p, f) == snap[p][f].bytes \in seen[p][f]

\* What a walk, and the reading after it, can say of every file.
WalkHeld(p) ==
    /\ at[p] \in {"idle", "inventory"} => DOMAIN snap[p] = {}
    /\ at[p] \in {"inventory", "walk"} =>
          \A f \in File : f \in found[p] \/ Absent(p, f) \/ (Above[f] \cup {f}) \cap todo[p] # {}
    /\ at[p] = "snapshot" =>
          /\ todo[p] \subseteq File
          /\ \A f \in File \ DOMAIN snap[p] : f \in todo[p] \/ Absent(p, f)
          /\ \A f \in DOMAIN snap[p] : Agreed(p, f)
    /\ at[p] = "fingerprint" =>
          /\ \A f \in File \ DOMAIN snap[p] : Absent(p, f)
          /\ \A f \in DOMAIN snap[p] \ todo[p] : Agreed(p, f)

\* The file was as in the snapshot when the plan was made.
Stood(p, f) == \A then \in stood[p] : then[f] = snap[p][f].bytes

PlanHeld(p) ==
    /\ at[p] \in Planning => stood[p] = {}
    /\ at[p] \notin Planning \cup {"stopped"} =>
          /\ stood[p] # {}
          /\ \A f \in DOMAIN snap[p] : Stood(p, f) \/ ~Same(p, f)
    /\ at[p] = "fingerprint" => \A f \in DOMAIN snap[p] \ todo[p] : Stood(p, f)

\* The copies that were compared with the source, as far as they are trusted.
Confirmed(p, f) == target[f] = snap[p][f].bytes

CopyHeld(p) ==
    /\ at[p] \in Copying =>
          \A f \in DOMAIN snap[p] \ todo[p] : Confirmed(p, f) \/ ~Same(p, f)
    /\ at[p] \in {"match", "walk"} =>
          \A f \in DOMAIN snap[p] : Confirmed(p, f) \/ (passed[p] = 2 /\ ~Same(p, f))
    /\ at[p] = "fingerprint" =>
          \A f \in DOMAIN snap[p] :
              Confirmed(p, f) \/ (passed[p] = 2 /\ f \in todo[p] /\ ~Same(p, f))
    /\ at[p] \in Ending => \A f \in DOMAIN snap[p] : Confirmed(p, f)

\* The files whose collections are committed.
Committed(p) ==
    IF at[p] = "records" THEN {}
    ELSE IF at[p] \in {"copy", "apply"} THEN DOMAIN snap[p] \ todo[p]
    ELSE IF at[p] = "compare"
    THEN (DOMAIN snap[p] \ todo[p]) \cup {First(CopyOrder, todo[p])}
    ELSE DOMAIN snap[p]

\* What the process that made the datastore has put there is all there is.
Sole(p) ==
    /\ root = p
    /\ at[p] # "records" => record = p
    /\ ToSet(journal) = Committed(p) /\ IsInjective(journal)
    /\ \A f \in File \ DOMAIN snap[p] : target[f] = NoFile

ReportAfterAll(p) ==
    /\ at[p] \in {"publish_report", "done"} => final["descriptor"] = p
    /\ final["report"] = p => at[p] = "done"

LookHeld(p) == SeenHeld(p) /\ WalkHeld(p) /\ PlanHeld(p)

Sound(p) ==
    /\ Rounds(p) /\ Stamps(p) /\ Ahead(p) /\ LookHeld(p)
    /\ Owns(p) => CopyHeld(p) /\ Sole(p)
    /\ ReportAfterAll(p)

Unmade == root = NoFile => journal = <<>> /\ \A f \in File : target[f] = NoFile

SourceHeld ==
    /\ \A f \in File : source[f] # NoFile => source[f].stamp <= edits
    /\ \A f \in Present : Above[f] \subseteq standing

IInv == TypeOK /\ SourceHeld /\ Unmade /\ \A p \in Migrator : Sound(p)

-----------------------------------------------------------------------------
(* Helpers *)

LEMMA LeastNumber ==
    ASSUME NEW S \in SUBSET Nat, S # {}
    PROVE  \E n \in S : \A m \in S : n <= m
<1> DEFINE R == {ss \in Nat \X Nat : ss[1] < ss[2]}
<1>1. PICK n \in S : \A m \in S : <<m, n>> \notin R
  <2>1. IsWellFoundedOn(R, Nat)
    BY NatLessThanWellFounded DEF OpToRel
  <2>2. S \subseteq Nat
    OBVIOUS
  <2> HIDE DEF R
  <2> QED
    BY <2>1, <2>2, WFMin
<1>2. \A m \in S : ~(m < n)
  <2> TAKE m \in S
  <2>1. m \in Nat /\ n \in Nat
    OBVIOUS
  <2>2. SUFFICES ASSUME m < n PROVE <<m, n>> \in R
    BY <1>1
  <2> QED
    BY <2>1, <2>2
<1> QED
  BY <1>2

\* What comes first of what is left is a part of it.
LEMMA FirstIsDue ==
    ASSUME NEW S, NEW order \in Seq(S), ToSet(order) = S, NEW left \in SUBSET S, left # {}
    PROVE  First(order, left) \in left
<1> DEFINE Due == {i \in DOMAIN order : order[i] \in left}
<1>2. DOMAIN order \subseteq Nat
  OBVIOUS
<1>3. Due \in SUBSET Nat /\ Due # {}
  BY <1>2 DEF ToSet
<1>4. PICK i \in Due : \A j \in Due : i <= j
  <2> HIDE DEF Due
  <2> QED
    BY <1>3, LeastNumber
<1>5. \A j \in 1 .. i - 1 : order[j] \notin left
  BY <1>2, <1>3, <1>4
<1>6. \E k \in DOMAIN order : order[k] \in left /\ \A j \in 1 .. k - 1 : order[j] \notin left
  BY <1>4, <1>5
<1> QED
  BY <1>6 DEF First

LEMMA FirstWalked ==
    ASSUME NEW left \in SUBSET (File \cup Directory), left # {}
    PROVE  First(WalkOrder, left) \in left
BY FirstIsDue, MigrationAssumption

LEMMA FirstCopied ==
    ASSUME NEW left \in SUBSET File, left # {}
    PROVE  First(CopyOrder, left) \in left
BY FirstIsDue, MigrationAssumption

LEMMA AppendOnce ==
    ASSUME NEW S, NEW s \in Seq(S), NEW e \in S, IsInjective(s), e \notin ToSet(s)
    PROVE  /\ Append(s, e) \in Seq(S)
           /\ ToSet(Append(s, e)) = ToSet(s) \cup {e}
           /\ IsInjective(Append(s, e))
<1>1. /\ DOMAIN s = 1 .. Len(s) /\ Len(s) \in Nat
      /\ DOMAIN Append(s, e) = 1 .. Len(s) + 1
      /\ \A i \in 1 .. Len(s) : Append(s, e)[i] = s[i]
      /\ Append(s, e)[Len(s) + 1] = e
      /\ Append(s, e) \in Seq(S)
  OBVIOUS
<1>2. \A i \in 1 .. Len(s) + 1 : i \in 1 .. Len(s) \/ i = Len(s) + 1
  BY <1>1
<1>3. ToSet(Append(s, e)) = ToSet(s) \cup {e}
  BY <1>1, <1>2 DEF ToSet
<1>4. IsInjective(Append(s, e))
  BY <1>1, <1>2 DEF ToSet, IsInjective
<1> QED
  BY <1>1, <1>3, <1>4

LEMMA EmptyJournal == ToSet(<<>>) = {} /\ IsInjective(<<>>)
BY EmptySeq DEF ToSet, IsInjective

LEMMA AfterIs ==
    /\ After[1] = "match" /\ After[2] = "preflight" /\ After[3] = "validate"
    /\ After[4] = "stage_descriptor" /\ After[5] = "publish_descriptor" /\ Len(After) = 5
BY DEF After

-----------------------------------------------------------------------------
(* A step of one process *)

\* What a step does to all but the process that takes it: the source stays, and
\* the datastore is written in by its owner or whoever makes it.
Private(p) ==
    /\ UNCHANGED sourceVars
    /\ \A q \in Migrator \ {p} :
          /\ at'[q] = at[q] /\ passed'[q] = passed[q] /\ snap'[q] = snap[q]
          /\ todo'[q] = todo[q] /\ found'[q] = found[q]
          /\ seen'[q] = seen[q] /\ stood'[q] = stood[q]
    /\ \/ UNCHANGED <<root, record, target, journal>>
       \/ root = NoFile
       \/ Owns(p)
    /\ \/ final' = final
       \/ \E c \in Companion : final[c] = NoFile /\ final' = [final EXCEPT ![c] = p]

LEMMA OthersKeep ==
    ASSUME IInv, NEW p \in Migrator, Private(p), NEW q \in Migrator, q # p
    PROVE  Sound(q)'
<1>1. /\ at'[q] = at[q] /\ passed'[q] = passed[q] /\ snap'[q] = snap[q] /\ todo'[q] = todo[q]
      /\ found'[q] = found[q] /\ seen'[q] = seen[q] /\ stood'[q] = stood[q]
      /\ source' = source /\ edits' = edits
  BY DEF Private, sourceVars
<1>2. Sound(q) /\ Sound(p)
  BY DEF IInv
<1>3. Owns(q) => UNCHANGED <<root, record, target, journal>>
  BY <1>2, MigrationAssumption DEF Private, inputVars, sourceVars, Sound, Sole
<1>4. Rounds(q)' /\ Stamps(q)' /\ Ahead(q)'
  BY <1>1, <1>2 DEF Sound, Rounds, Planning, Stamps, Ahead
<1>5. /\ \A f : Same(q, f)' = Same(q, f) /\ Stood(q, f)' = Stood(q, f)
                 /\ Absent(q, f)' = Absent(q, f) /\ Agreed(q, f)' = Agreed(q, f)
      /\ Content(source)' = Content(source)
  BY <1>1 DEF Same, Stood, Absent, Agreed, Content
<1>6. LookHeld(q)'
  <2>1. SeenHeld(q)'
    BY <1>1, <1>2, <1>5 DEF Sound, LookHeld, SeenHeld
  <2>2. WalkHeld(q)'
    BY <1>1, <1>2, <1>5 DEF Sound, LookHeld, WalkHeld
  <2>3. PlanHeld(q)'
    BY <1>1, <1>2, <1>5 DEF Sound, LookHeld, PlanHeld
  <2> QED
    BY <2>1, <2>2, <2>3 DEF LookHeld
<1>7. Owns(q)' = Owns(q)
  BY <1>1 DEF Owns
<1>8. ASSUME Owns(q) PROVE CopyHeld(q)' /\ Sole(q)'
  <2>1. /\ root' = root /\ record' = record /\ target' = target /\ journal' = journal
        /\ CopyHeld(q) /\ Sole(q)
    BY <1>2, <1>3, <1>8 DEF Sound
  <2>2. CopyHeld(q)'
    BY <1>1, <1>5, <2>1 DEF CopyHeld, Confirmed
  <2>3. Committed(q)' = Committed(q)
    BY <1>1 DEF Committed
  <2> QED
    BY <1>1, <2>1, <2>2, <2>3 DEF Sole
<1>9. ReportAfterAll(q)'
  <2>1. DOMAIN final = Companion
    BY DEF IInv, TypeOK
  <2>2. /\ final["descriptor"] = q => final'["descriptor"] = q
        /\ final'["report"] = q => final["report"] = q
    BY <2>1, MigrationAssumption DEF Private, inputVars, sourceVars, Companion
  <2> QED
    BY <1>1, <1>2, <2>2 DEF Sound, ReportAfterAll
<1> QED
  BY <1>4, <1>6, <1>7, <1>8, <1>9 DEF Sound

LEMMA StepKeeps ==
    ASSUME IInv, NEW p \in Migrator, Private(p), TypeOK', Unmade', Sound(p)'
    PROVE  IInv'
<1>1. SourceHeld'
  BY DEF IInv, SourceHeld, Private, sourceVars, Present
<1> QED
  BY <1>1, OthersKeep DEF IInv

\* Between two looks all that was found out about the source stays so.
LEMMA RestsHeld ==
    ASSUME NEW p \in Migrator, LookHeld(p),
           at[p] \notin Planning \cup Watching, at'[p] \notin Planning \cup Watching,
           at[p] # "stopped" \/ at'[p] = "stopped",
           source' = source, seen' = seen, stood' = stood, snap' = snap
    PROVE  LookHeld(p)'
<1>1. \A f : Same(p, f)' = Same(p, f) /\ Stood(p, f)' = Stood(p, f)
  BY DEF Same, Stood
<1> QED
  BY <1>1 DEF LookHeld, SeenHeld, WalkHeld, PlanHeld, Planning, Watching

LEMMA StoppedHeld ==
    ASSUME NEW p, at'[p] = "stopped" PROVE LookHeld(p)'
BY DEF LookHeld, SeenHeld, WalkHeld, PlanHeld, Planning, Watching

\* A process that ends without a report leaves everything as it is.
LEMMA RefuseKeeps ==
    ASSUME IInv, NEW p \in Migrator, Refuse(p), at[p] # "done"
    PROVE  IInv'
<1>1. at' = [at EXCEPT ![p] = "stopped"] /\ DOMAIN at = Migrator
  BY DEF Refuse, Goto, IInv, TypeOK
<1>2. Private(p)
  BY <1>1 DEF Private, inputVars, sourceVars, Refuse, outVars
<1>3. TypeOK' /\ Unmade'
  BY <1>1 DEF IInv, TypeOK, Unmade, Refuse, inputVars, outVars, Step
<1>4. Sound(p)'
  <2>1. Sound(p) /\ passed' = passed /\ snap' = snap /\ edits' = edits /\ final' = final
    BY DEF IInv, Refuse, inputVars, outVars
  <2>2. at'[p] = "stopped"
    BY <1>1
  <2>3. LookHeld(p)'
    BY <2>2, StoppedHeld
  <2> QED
    BY <2>1, <2>2, <2>3 DEF Sound, Rounds, Planning, Stamps, Ahead, Owns, ReportAfterAll,
       Planning,
       Looking, Copying, Ending
<1> QED
  BY <1>2, <1>3, <1>4, StepKeeps

-----------------------------------------------------------------------------
(* The source *)

LEMMA BeginWalkKeeps ==
    ASSUME IInv, NEW p \in Migrator, NEW step, BeginWalk(p, step),
           \/ at[p] = "idle" /\ step = "inventory"
           \/ at[p] = "match" /\ step = "walk"
    PROVE  IInv'
<1>1. /\ DOMAIN at = Migrator /\ DOMAIN todo = Migrator /\ DOMAIN found = Migrator
      /\ DOMAIN seen = Migrator /\ Sound(p)
  BY DEF IInv, TypeOK
<1>2. /\ at' = [at EXCEPT ![p] = step] /\ at'[p] = step
      /\ todo' = [todo EXCEPT ![p] = {Top}] /\ todo'[p] = {Top}
      /\ found' = [found EXCEPT ![p] = {}] /\ found'[p] = {}
      /\ seen' = [seen EXCEPT ![p] = [f \in File |-> {Content(source)[f]}]]
      /\ seen'[p] = [f \in File |-> {Content(source)[f]}]
      /\ UNCHANGED <<sourceVars, stood, passed, snap, held, outVars, faults, foreign>>
  BY <1>1 DEF BeginWalk, Goto
<1>3. Private(p)
  BY <1>1, <1>2 DEF Private, outVars
<1>4. TypeOK'
  <2>1. Content(source) \in [File -> Bytes \cup {NoFile}]
    BY DEF IInv, TypeOK, Content, Stamped
  <2>2. seen' \in [Migrator -> [File -> SUBSET (Bytes \cup {NoFile})]]
    BY <1>2, <2>1 DEF IInv, TypeOK
  <2>3. /\ at' \in [Migrator -> Step] /\ found' \in [Migrator -> SUBSET File]
        /\ todo' \in [Migrator -> SUBSET (File \cup Directory)]
    BY <1>2, MigrationAssumption DEF IInv, TypeOK, Step
  <2> QED
    BY <1>2, <2>2, <2>3 DEF IInv, TypeOK, sourceVars, outVars
<1>5. Unmade'
  BY <1>2 DEF IInv, Unmade, outVars
<1>6. SeenHeld(p)'
  <2>1. \A f \in File : Content(source)'[f] = Content(source)[f]
    BY <1>2 DEF Content, sourceVars
  <2> QED
    BY <1>2, <2>1 DEF SeenHeld, Watching
<1>7. WalkHeld(p)'
  <2>1. \A f \in File : (Above[f] \cup {f}) \cap todo'[p] # {}
    BY <1>2, MigrationAssumption
  <2> QED
    BY <1>1, <1>2, <2>1 DEF Sound, LookHeld, WalkHeld
<1>8. PlanHeld(p)'
  <2>1. \A f : Same(p, f)' = Same(p, f) /\ Stood(p, f)' = Stood(p, f)
    BY <1>2 DEF Same, Stood, sourceVars
  <2> QED
    BY <1>1, <1>2, <2>1 DEF Sound, LookHeld, PlanHeld, Planning
<1>9. Owns(p)' = Owns(p)
  BY <1>2 DEF Owns, Looking, Copying, Ending
<1>10. ASSUME Owns(p) PROVE CopyHeld(p)' /\ Sole(p)'
  <2>1. at[p] = "match" /\ CopyHeld(p) /\ Sole(p)
    BY <1>1, <1>10 DEF Sound, Owns, Looking, Copying, Ending
  <2>2. CopyHeld(p)'
    BY <1>2, <2>1 DEF CopyHeld, Confirmed, Same, Copying, Ending, sourceVars, outVars
  <2>3. Sole(p)'
    BY <1>2, <2>1 DEF Sole, Committed, outVars
  <2> QED
    BY <2>2, <2>3
<1>11. Rounds(p)' /\ Stamps(p)' /\ Ahead(p)' /\ ReportAfterAll(p)'
  BY <1>1, <1>2 DEF Sound, Rounds, Planning, Stamps, Ahead, ReportAfterAll, Looking,
     Copying,
     sourceVars, outVars
<1> QED
  BY <1>3, <1>4, <1>5, <1>6, <1>7, <1>8, <1>9, <1>10, <1>11, StepKeeps DEF Sound, LookHeld

LEMMA PlanKeeps ==
    ASSUME IInv, NEW p \in Migrator, Plan(p) PROVE IInv'
BY BeginWalkKeeps, RefuseKeeps DEF Plan

LEMMA ReopenKeeps ==
    ASSUME IInv, NEW p \in Migrator, Reopen(p) PROVE IInv'
BY BeginWalkKeeps DEF Reopen

\* A file is in its turn, or in a directory that is, or has been absent.
LEMMA Descended ==
    ASSUME IInv, NEW f \in File, NEW d \in Above[f], d \in Directory
    PROVE  \/ f \notin Present
           \/ (Above[f] \cup {f}) \cap Children(d) \cap (Present \cup standing) # {}
<1> SUFFICES ASSUME f \in Present
             PROVE  (Above[f] \cup {f}) \cap Children(d) \cap (Present \cup standing) # {}
  OBVIOUS
<1>1. Above[f] \subseteq standing /\ standing \subseteq Directory
  BY DEF IInv, SourceHeld, TypeOK
<1>2. f # Top
  BY MigrationAssumption
<1>3. PICK y \in Above[f] \cup {f} : Above[y] = Above[d] \cup {d}
  BY <1>2, MigrationAssumption
<1>4. y \in Children(d)
  BY <1>1, <1>3 DEF Children
<1> QED
  BY <1>1, <1>3, <1>4

LEMMA WalkKeeps ==
    ASSUME IInv, NEW p \in Migrator, Walk(p) PROVE IInv'
<1> DEFINE x == First(WalkOrder, todo[p])
<1>1. /\ DOMAIN at = Migrator /\ DOMAIN todo = Migrator /\ DOMAIN found = Migrator
      /\ at[p] \in {"inventory", "walk"} /\ todo[p] # {} /\ Sound(p)
      /\ todo[p] \in SUBSET (File \cup Directory) /\ found[p] \in SUBSET File
  BY DEF IInv, TypeOK, Walk
<1>2. x \in todo[p]
  BY <1>1, FirstWalked
<1>3. CASE x \notin Present \cup standing
  BY <1>1, <1>3, RefuseKeeps DEF Walk
<1>4. CASE x \in Present \cup standing
  <2> DEFINE Under == IF x \in File THEN {} ELSE Children(x) \cap (Present \cup standing)
  <2>1. /\ found' = [found EXCEPT ![p] = @ \cup ({x} \cap File)]
        /\ todo' = [todo EXCEPT ![p] = (@ \ {x}) \cup Under]
        /\ UNCHANGED <<sourceVars, seen, stood, at, passed, snap, held, outVars, faults,
                       foreign>>
    BY <1>4 DEF Walk
  <2> HIDE DEF x
  <2>2. Under \subseteq File \cup Directory
    BY DEF Children
  <2>3. /\ found'[p] = found[p] \cup ({x} \cap File)
        /\ todo'[p] = (todo[p] \ {x}) \cup Under
    BY <1>1, <2>1
  <2>4. ASSUME NEW f \in File
        PROVE  f \in found'[p] \/ Absent(p, f) \/ (Above[f] \cup {f}) \cap todo'[p] # {}
    <3>1. f \in found[p] \/ Absent(p, f) \/ (Above[f] \cup {f}) \cap todo[p] # {}
      BY <1>1 DEF Sound, LookHeld, WalkHeld
    <3>2. CASE f \in found[p] \/ Absent(p, f)
      BY <2>3, <3>2
    <3>3. CASE \E y \in (Above[f] \cup {f}) \cap todo[p] : y # x
      BY <2>3, <3>3
    <3>4. CASE x = f
      BY <2>3, <3>4
    <3>5. CASE x \in Above[f]
      <4>1. x \in Directory /\ x \notin File
        BY <3>5, MigrationAssumption
      <4>2. f \notin Present => Absent(p, f)
        <5>1. Content(source)[f] \in seen[p][f]
          BY <1>1 DEF Sound, LookHeld, SeenHeld, Watching
        <5> QED
          BY <5>1 DEF Present, Content, Absent
      <4>3. Under = Children(x) \cap (Present \cup standing)
        BY <4>1
      <4> HIDE DEF Under
      <4> QED
        BY <2>3, <3>5, <4>1, <4>2, <4>3, Descended
    <3> QED
      BY <3>1, <3>2, <3>3, <3>4, <3>5
  <2> HIDE DEF Under
  <2>5. Private(p)
    BY <1>1, <2>1 DEF Private, outVars
  <2>6. TypeOK' /\ Unmade'
    <3>1. found' \in [Migrator -> SUBSET File]
      BY <1>1, <2>1 DEF IInv, TypeOK
    <3>2. todo' \in [Migrator -> SUBSET (File \cup Directory)]
      BY <1>1, <2>1, <2>2 DEF IInv, TypeOK
    <3> QED
      BY <2>1, <3>1, <3>2 DEF IInv, TypeOK, Unmade, sourceVars, outVars
  <2>7. SeenHeld(p)'
    BY <1>1, <2>1 DEF Sound, LookHeld, SeenHeld, Content, sourceVars
  <2>8. WalkHeld(p)'
    <3>1. \A f \in File : Absent(p, f)' = Absent(p, f)
      BY <2>1 DEF Absent
    <3> QED
      BY <1>1, <2>1, <2>4, <3>1 DEF Sound, LookHeld, WalkHeld
  <2>9. PlanHeld(p)'
    <3>1. \A f : Same(p, f)' = Same(p, f) /\ Stood(p, f)' = Stood(p, f)
      BY <2>1 DEF Same, Stood, sourceVars
    <3> QED
      BY <1>1, <2>1, <3>1 DEF Sound, LookHeld, PlanHeld
  <2>10. ASSUME Owns(p) PROVE CopyHeld(p)' /\ Sole(p)'
    <3>1. CopyHeld(p) /\ Sole(p)
      BY <1>1, <2>10 DEF Sound
    <3>2. CopyHeld(p)'
      BY <1>1, <2>1, <3>1 DEF CopyHeld, Confirmed, Same, Copying, Ending, sourceVars,
         outVars
    <3>3. Sole(p)'
      BY <1>1, <2>1, <3>1 DEF Sole, Committed, outVars
    <3> QED
      BY <3>2, <3>3
  <2>11. Owns(p)' = Owns(p)
    BY <2>1 DEF Owns
  <2>12. Rounds(p)' /\ Stamps(p)' /\ Ahead(p)' /\ ReportAfterAll(p)'
    BY <1>1, <2>1 DEF Sound, Rounds, Stamps, Ahead, Copying, ReportAfterAll, sourceVars,
       outVars
  <2> QED
    BY <2>5, <2>6, <2>7, <2>8, <2>9, <2>10, <2>11, <2>12, StepKeeps DEF Sound, LookHeld
<1> QED
  BY <1>3, <1>4

LEMMA InventoryKeeps ==
    ASSUME IInv, NEW p \in Migrator, Inventory(p) PROVE IInv'
<1>1. /\ DOMAIN at = Migrator /\ DOMAIN todo = Migrator /\ found[p] \in SUBSET File
      /\ at[p] = "inventory" /\ todo[p] = {} /\ Sound(p)
  BY DEF Inventory, IInv, TypeOK
<1>2. /\ at' = [at EXCEPT ![p] = "snapshot"] /\ at'[p] = "snapshot"
      /\ todo' = [todo EXCEPT ![p] = found[p]] /\ todo'[p] = found[p]
      /\ UNCHANGED <<inputVars, passed, snap, held, outVars, faults, foreign>>
  BY <1>1 DEF Inventory, Goto
<1>3. Private(p)
  BY <1>1, <1>2 DEF Private, inputVars, sourceVars, outVars
<1>4. TypeOK' /\ Unmade'
  BY <1>1, <1>2 DEF IInv, TypeOK, Unmade, inputVars, outVars, Step
<1>5. SeenHeld(p)'
  BY <1>1, <1>2 DEF Sound, LookHeld, SeenHeld, Content, Watching, inputVars
<1>6. WalkHeld(p)'
  <2>1. \A f \in File : f \in found[p] \/ Absent(p, f)
    BY <1>1 DEF Sound, LookHeld, WalkHeld
  <2>2. DOMAIN snap[p] = {} /\ \A f \in File : Absent(p, f)' = Absent(p, f)
    BY <1>1, <1>2 DEF Sound, LookHeld, WalkHeld, Absent, inputVars
  <2> QED
    BY <1>1, <1>2, <2>1, <2>2 DEF WalkHeld
<1>7. PlanHeld(p)'
  BY <1>1, <1>2 DEF Sound, LookHeld, PlanHeld, Planning, inputVars
<1>8. Rounds(p)' /\ Stamps(p)' /\ Ahead(p)' /\ ReportAfterAll(p)' /\ ~Owns(p)'
  BY <1>1, <1>2 DEF Sound, Rounds, Planning, Stamps, Ahead, ReportAfterAll, Owns, Looking,
     Copying, Ending, inputVars, outVars
<1> QED
  BY <1>3, <1>4, <1>5, <1>6, <1>7, <1>8, StepKeeps DEF Sound, LookHeld

LEMMA SnapshotKeeps ==
    ASSUME IInv, NEW p \in Migrator, Snapshot(p) PROVE IInv'
<1>1. /\ DOMAIN at = Migrator /\ DOMAIN snap = Migrator /\ DOMAIN todo = Migrator
      /\ DOMAIN seen = Migrator /\ DOMAIN stood = Migrator
      /\ at[p] = "snapshot" /\ passed[p] = 0 /\ Sound(p) /\ stood[p] = {}
      /\ todo[p] \in SUBSET File
  BY DEF IInv, TypeOK, Snapshot, Sound, Rounds, Planning, LookHeld, WalkHeld, PlanHeld
<1>2. CASE todo[p] = {}
  <2>1. /\ at' = [at EXCEPT ![p] = "match"] /\ at'[p] = "match"
        /\ stood' = [stood EXCEPT ![p] = {Content(source)}] /\ stood'[p] = {Content(source)}
        /\ seen' = [seen EXCEPT ![p] = Unseen] /\ seen'[p] = Unseen
        /\ UNCHANGED <<sourceVars, found, passed, snap, todo, held, outVars, faults, foreign>>
    BY <1>1, <1>2 DEF Snapshot, Goto
  <2>2. Private(p)
    BY <1>1, <2>1 DEF Private, outVars
  <2>3. TypeOK' /\ Unmade'
    <3>1. Content(source) \in [File -> Bytes \cup {NoFile}]
      BY DEF IInv, TypeOK, Content, Stamped
    <3>2. stood' \in [Migrator -> SUBSET [File -> Bytes \cup {NoFile}]]
      BY <2>1, <3>1 DEF IInv, TypeOK
    <3>3. seen' \in [Migrator -> [File -> SUBSET (Bytes \cup {NoFile})]]
      BY <2>1 DEF IInv, TypeOK, Unseen
    <3> QED
      BY <2>1, <3>2, <3>3 DEF IInv, TypeOK, Unmade, sourceVars, outVars, Step
  <2>4. SeenHeld(p)' /\ WalkHeld(p)'
    BY <2>1 DEF SeenHeld, WalkHeld, Watching, Unseen
  <2>5. PlanHeld(p)'
    <3>1. ASSUME NEW f \in DOMAIN snap[p], source[f] = snap[p][f]
          PROVE  Content(source)[f] = snap[p][f].bytes
      BY <3>1, MigrationAssumption DEF IInv, TypeOK, Content
    <3>2. \A f \in DOMAIN snap'[p] : Stood(p, f)' \/ ~Same(p, f)'
      BY <2>1, <3>1 DEF Stood, Same, sourceVars
    <3> QED
      BY <2>1, <3>2 DEF PlanHeld, Planning
  <2>6. Rounds(p)' /\ Stamps(p)' /\ Ahead(p)' /\ ReportAfterAll(p)' /\ ~Owns(p)'
    BY <1>1, <2>1 DEF Sound, Rounds, Planning, Stamps, Ahead, ReportAfterAll, Owns, Looking,
       Copying, Ending, sourceVars, outVars
  <2> QED
    BY <2>2, <2>3, <2>4, <2>5, <2>6, StepKeeps DEF Sound, LookHeld
<1>3. CASE todo[p] # {}
  <2> DEFINE f == First(WalkOrder, todo[p])
  <2>1. f \in File /\ f \in todo[p]
    BY <1>1, <1>3, FirstWalked
  <2>2. CASE source[f] = NoFile
    BY <1>1, <1>3, <2>2, RefuseKeeps DEF Snapshot
  <2>3. CASE source[f] # NoFile
    <3> HIDE DEF f
    <3>1. /\ snap' = [snap EXCEPT ![p] =
                [g \in DOMAIN @ \cup {f} |-> IF g = f THEN source[f] ELSE @[g]]]
          /\ todo' = [todo EXCEPT ![p] = @ \ {f}] /\ todo'[p] = todo[p] \ {f}
          /\ UNCHANGED <<inputVars, at, passed, held, outVars, faults, foreign>>
      BY <1>1, <1>3, <2>3 DEF Snapshot, f
    <3>2. Private(p)
      BY <1>1, <3>1 DEF Private, inputVars, sourceVars, outVars
    <3>3. /\ DOMAIN snap'[p] = DOMAIN snap[p] \cup {f}
          /\ \A g \in DOMAIN snap'[p] :
                snap'[p][g] = IF g = f THEN source[f] ELSE snap[p][g]
      BY <1>1, <3>1
    <3>4. source[f] \in Stamped /\ source[f].stamp <= edits
      BY <2>1, <2>3 DEF IInv, TypeOK, SourceHeld
    <3>5. TypeOK'
      <4>1. DOMAIN snap' = Migrator /\ \A q \in Migrator \ {p} : snap'[q] = snap[q]
        BY <1>1, <3>1
      <4>2. \A q \in Migrator : DOMAIN snap'[q] \subseteq File
                                /\ \A g \in DOMAIN snap'[q] : snap'[q][g] \in Stamped
        <5> TAKE q \in Migrator
        <5>1. DOMAIN snap[q] \subseteq File /\ \A g \in DOMAIN snap[q] : snap[q][g] \in Stamped
          BY DEF IInv, TypeOK
        <5>2. CASE q = p
          BY <2>1, <3>3, <3>4, <5>1, <5>2
        <5>3. CASE q # p
          BY <4>1, <5>1, <5>3
        <5> QED
          BY <5>2, <5>3
      <4>3. todo' \in [Migrator -> SUBSET (File \cup Directory)]
        BY <3>1 DEF IInv, TypeOK
      <4> QED
        BY <3>1, <4>1, <4>2, <4>3 DEF IInv, TypeOK, inputVars, outVars
    <3>6. Unmade'
      BY <3>1 DEF IInv, Unmade, outVars
    <3>7. Stamps(p)'
      BY <1>1, <3>1, <3>3, <3>4 DEF Sound, Stamps, inputVars
    <3>8. SeenHeld(p)'
      BY <1>1, <3>1 DEF Sound, LookHeld, SeenHeld, Content, Watching, inputVars
    <3>9. WalkHeld(p)'
      <4>1. /\ \A g \in File \ DOMAIN snap[p] : g \in todo[p] \/ Absent(p, g)
            /\ \A g \in DOMAIN snap[p] : Agreed(p, g)
        BY <1>1 DEF Sound, LookHeld, WalkHeld
      <4>2. source[f].bytes \in seen[p][f]
        <5>1. Content(source)[f] \in seen[p][f]
          BY <1>1, <2>1 DEF Sound, LookHeld, SeenHeld, Watching
        <5> QED
          BY <2>1, <2>3, <5>1 DEF Content
      <4>3. \A g \in File \ DOMAIN snap'[p] : g \in todo'[p] \/ Absent(p, g)'
        BY <3>1, <3>3, <4>1 DEF Absent, inputVars
      <4>4. \A g \in DOMAIN snap'[p] : Agreed(p, g)'
        BY <3>1, <3>3, <4>1, <4>2 DEF Agreed, inputVars
      <4> QED
        BY <1>1, <3>1, <4>3, <4>4 DEF WalkHeld
    <3>10. PlanHeld(p)'
      BY <1>1, <3>1 DEF PlanHeld, Planning, inputVars
    <3>11. Rounds(p)' /\ Ahead(p)' /\ ReportAfterAll(p)' /\ ~Owns(p)'
      BY <1>1, <3>1 DEF Sound, Rounds, Planning, Ahead, Owns, ReportAfterAll, Looking,
         Copying,
         Ending, outVars
    <3> QED
      BY <3>2, <3>5, <3>6, <3>7, <3>8, <3>9, <3>10, <3>11, StepKeeps DEF Sound, LookHeld
  <2> QED
    BY <2>2, <2>3
<1> QED
  BY <1>2, <1>3

LEMMA MatchInventoryKeeps ==
    ASSUME IInv, NEW p \in Migrator, MatchInventory(p) PROVE IInv'
<1>1. /\ DOMAIN at = Migrator /\ DOMAIN todo = Migrator /\ at[p] = "walk" /\ todo[p] = {}
      /\ Sound(p) /\ passed[p] \in Nat /\ found[p] \in SUBSET File
  BY DEF IInv, TypeOK, MatchInventory
<1>2. CASE found[p] # DOMAIN snap[p]
  BY <1>1, <1>2, RefuseKeeps DEF MatchInventory
<1>3. CASE found[p] = DOMAIN snap[p]
  <2>1. /\ at' = [at EXCEPT ![p] = "fingerprint"] /\ at'[p] = "fingerprint"
        /\ todo' = [todo EXCEPT ![p] = found[p]] /\ todo'[p] = DOMAIN snap[p]
        /\ UNCHANGED <<inputVars, passed, snap, held, outVars, faults, foreign>>
    BY <1>1, <1>3 DEF MatchInventory, Goto
  <2>2. Private(p)
    BY <1>1, <2>1 DEF Private, inputVars, sourceVars, outVars
  <2>3. TypeOK' /\ Unmade'
    BY <1>1, <2>1 DEF IInv, TypeOK, Unmade, inputVars, outVars, Step
  <2>4. SeenHeld(p)'
    BY <1>1, <2>1 DEF Sound, LookHeld, SeenHeld, Content, Watching, inputVars
  <2>5. WalkHeld(p)'
    <3>1. \A f \in File \ DOMAIN snap[p] : Absent(p, f)
      BY <1>1, <1>3 DEF Sound, LookHeld, WalkHeld
    <3> QED
      BY <2>1, <3>1 DEF WalkHeld, Absent, inputVars
  <2>6. PlanHeld(p)'
    <3>1. \A f : Same(p, f)' = Same(p, f) /\ Stood(p, f)' = Stood(p, f)
      BY <2>1 DEF Same, Stood, inputVars
    <3> QED
      BY <1>1, <2>1, <3>1 DEF Sound, LookHeld, PlanHeld, Planning, inputVars
  <2>7. Owns(p)' = Owns(p)
    BY <1>1, <2>1 DEF Owns, Looking, Copying, Ending
  <2>8. ASSUME Owns(p) PROVE CopyHeld(p)'
    <3>1. CopyHeld(p)
      BY <1>1, <2>8 DEF Sound
    <3> QED
      BY <1>1, <2>1, <3>1 DEF CopyHeld, Confirmed, Same, Copying, Ending, inputVars, outVars
  <2>9. ASSUME Owns(p) PROVE Sole(p)'
    BY <1>1, <2>1, <2>9 DEF Sound, Sole, Committed, outVars
  <2>10. Rounds(p)' /\ Stamps(p)' /\ Ahead(p)' /\ ReportAfterAll(p)'
    BY <1>1, <2>1 DEF Sound, Rounds, Planning, Stamps, Ahead, ReportAfterAll, Looking,
       Copying,
       inputVars, outVars
  <2> QED
    BY <2>2, <2>3, <2>4, <2>5, <2>6, <2>7, <2>8, <2>9, <2>10, StepKeeps DEF Sound, LookHeld
<1> QED
  BY <1>2, <1>3

LEMMA FingerprintKeeps ==
    ASSUME IInv, NEW p \in Migrator, Fingerprint(p) PROVE IInv'
<1>1. /\ DOMAIN at = Migrator /\ DOMAIN todo = Migrator /\ DOMAIN passed = Migrator
      /\ DOMAIN seen = Migrator
      /\ at[p] = "fingerprint" /\ Sound(p) /\ passed[p] \in 0 .. 4
      /\ todo[p] \subseteq DOMAIN snap[p] /\ DOMAIN snap[p] \subseteq File
  BY DEF IInv, TypeOK, Fingerprint, Sound, Rounds, Ahead, Looking
<1>2. CASE todo[p] = {}
  <2>1. /\ passed' = [passed EXCEPT ![p] = @ + 1] /\ passed'[p] = passed[p] + 1
        /\ at' = [at EXCEPT ![p] = After[passed[p] + 1]] /\ at'[p] = After[passed[p] + 1]
        /\ seen' = [seen EXCEPT ![p] = Unseen] /\ seen'[p] = Unseen
        /\ UNCHANGED <<sourceVars, stood, found, snap, todo, held, outVars, faults, foreign>>
    BY <1>1, <1>2 DEF Fingerprint, Goto
  <2>2. Private(p)
    BY <1>1, <2>1 DEF Private, outVars
  <2>3. /\ passed[p] = 0 => at'[p] = "match" /\ passed'[p] = 1
        /\ passed[p] = 1 => at'[p] = "preflight" /\ passed'[p] = 2
        /\ passed[p] = 2 => at'[p] = "validate" /\ passed'[p] = 3
        /\ passed[p] = 3 => at'[p] = "stage_descriptor" /\ passed'[p] = 4
        /\ passed[p] = 4 => at'[p] = "publish_descriptor" /\ passed'[p] = 5
        /\ passed[p] \in {0, 1, 2, 3, 4}
    BY <1>1, <2>1, AfterIs
  <2>4. TypeOK'
    <3>1. at'[p] \in Step /\ passed'[p] \in 0 .. 5
      BY <2>3 DEF Step
    <3>2. at' \in [Migrator -> Step] /\ passed' \in [Migrator -> 0 .. Len(After)]
      BY <2>1, <3>1, AfterIs DEF IInv, TypeOK
    <3>3. seen' \in [Migrator -> [File -> SUBSET (Bytes \cup {NoFile})]]
      BY <2>1 DEF IInv, TypeOK, Unseen
    <3> QED
      BY <2>1, <3>2, <3>3 DEF IInv, TypeOK, sourceVars, outVars
  <2>5. Unmade'
    BY <2>1 DEF IInv, Unmade, outVars
  <2>6. Stamps(p)' /\ SeenHeld(p)' /\ WalkHeld(p)'
    BY <1>1, <2>1, <2>3 DEF Sound, Stamps, SeenHeld, WalkHeld, Watching, sourceVars
  <2>7. PlanHeld(p)'
    <3>1. \A f : Same(p, f)' = Same(p, f) /\ Stood(p, f)' = Stood(p, f)
      BY <2>1 DEF Same, Stood, sourceVars
    <3> QED
      BY <1>1, <2>1, <2>3, <3>1 DEF Sound, LookHeld, PlanHeld, Planning
  <2>8. Rounds(p)'
    BY <2>3 DEF Rounds, Planning, Looking, Copying
  <2>9. Ahead(p)' /\ ReportAfterAll(p)'
    <3>1. final["report"] # p
      BY <1>1 DEF Sound, ReportAfterAll
    <3>2. at'[p] \notin {"fingerprint", "publish_report"} \cup Copying /\ final' = final
          /\ at'[p] # "done"
      BY <2>1, <2>3 DEF Copying, outVars
    <3> QED
      BY <3>1, <3>2 DEF Ahead, Copying, ReportAfterAll
  <2>10. ASSUME Owns(p)' PROVE CopyHeld(p)' /\ Sole(p)'
    <3>1. passed[p] \in {2, 3, 4}
      BY <2>3, <2>10 DEF Owns, Looking, Copying, Ending
    <3>2. CopyHeld(p) /\ Sole(p)
      BY <1>1, <3>1 DEF Sound, Owns, Looking
    <3>3. at'[p] \in {"validate", "stage_descriptor", "publish_descriptor"}
      BY <2>3, <3>1
    <3>4. \A f \in DOMAIN snap[p] : Confirmed(p, f)
      BY <1>1, <1>2, <3>2 DEF CopyHeld
    <3>5. CopyHeld(p)'
      BY <2>1, <3>3, <3>4 DEF CopyHeld, Confirmed, Copying, outVars
    <3>6. Sole(p)'
      BY <1>1, <2>1, <3>2, <3>3 DEF Sole, Committed, outVars
    <3> QED
      BY <3>5, <3>6
  <2> QED
    BY <2>2, <2>4, <2>5, <2>6, <2>7, <2>8, <2>9, <2>10, StepKeeps DEF Sound, LookHeld
<1>3. CASE todo[p] # {}
  <2> DEFINE f == First(WalkOrder, todo[p])
  <2>1. f \in todo[p]
    BY <1>1, <1>3, FirstWalked
  <2>2. CASE ~Same(p, f)
    BY <1>1, <1>3, <2>2, RefuseKeeps DEF Fingerprint
  <2>3. CASE Same(p, f)
    <3> HIDE DEF f
    <3>1. /\ todo' = [todo EXCEPT ![p] = @ \ {f}] /\ todo'[p] = todo[p] \ {f}
          /\ UNCHANGED <<inputVars, at, passed, snap, held, outVars, faults, foreign>>
      BY <1>1, <1>3, <2>3 DEF Fingerprint, f
    <3>2. Private(p)
      BY <1>1, <3>1 DEF Private, inputVars, sourceVars, outVars
    <3>3. TypeOK' /\ Unmade'
      BY <1>1, <3>1 DEF IInv, TypeOK, Unmade, inputVars, outVars
    <3>4. /\ \A g : Same(p, g)' = Same(p, g) /\ Stood(p, g)' = Stood(p, g)
                    /\ Absent(p, g)' = Absent(p, g) /\ Agreed(p, g)' = Agreed(p, g)
      BY <3>1 DEF Same, Stood, Absent, Agreed, inputVars
    <3>5. SeenHeld(p)'
      BY <1>1, <3>1 DEF Sound, LookHeld, SeenHeld, Content, Watching, inputVars
    <3>6. WalkHeld(p)'
      <4>1. Agreed(p, f)
        <5>1. Content(source)[f] \in seen[p][f] /\ f \in File /\ source[f] = snap[p][f]
          BY <1>1, <2>1, <2>3 DEF Sound, LookHeld, SeenHeld, Watching, Same
        <5>2. source[f] # NoFile
          BY <1>1, <2>1, <5>1, MigrationAssumption DEF IInv, TypeOK
        <5> QED
          BY <5>1, <5>2 DEF Content, Agreed
      <4> QED
        BY <1>1, <3>1, <3>4, <4>1 DEF Sound, LookHeld, WalkHeld
    <3>7. PlanHeld(p)'
      <4>1. Stood(p, f)
        BY <1>1, <2>1, <2>3 DEF Sound, LookHeld, PlanHeld, Planning
      <4> QED
        BY <1>1, <3>1, <3>4, <4>1 DEF Sound, LookHeld, PlanHeld, Planning, inputVars
    <3>8. ASSUME Owns(p) PROVE CopyHeld(p)' /\ Sole(p)'
      <4>1. CopyHeld(p) /\ Sole(p)
        BY <1>1, <3>8 DEF Sound
      <4>2. CopyHeld(p)'
        BY <1>1, <2>3, <3>1, <3>4, <4>1 DEF CopyHeld, Confirmed, Copying, Ending, outVars
      <4>3. Sole(p)'
        BY <1>1, <3>1, <4>1 DEF Sole, Committed, outVars
      <4> QED
        BY <4>2, <4>3
    <3>9. Owns(p)' = Owns(p)
      BY <3>1 DEF Owns
    <3>10. Rounds(p)' /\ Stamps(p)' /\ Ahead(p)' /\ ReportAfterAll(p)'
      BY <1>1, <3>1 DEF Sound, Rounds, Planning, Stamps, Ahead, ReportAfterAll, inputVars,
         outVars
    <3> QED
      BY <3>2, <3>3, <3>5, <3>6, <3>7, <3>8, <3>9, <3>10, StepKeeps DEF Sound, LookHeld
  <2> QED
    BY <2>2, <2>3
<1> QED
  BY <1>2, <1>3

-----------------------------------------------------------------------------
(* The output *)

LEMMA PreflightKeeps ==
    ASSUME IInv, NEW p \in Migrator, Preflight(p) PROVE IInv'
<1>1. DOMAIN at = Migrator /\ at[p] = "preflight" /\ Sound(p)
  BY DEF IInv, TypeOK, Preflight
<1>2. CASE ~Clear
  BY <1>1, <1>2, RefuseKeeps DEF Preflight
<1>3. CASE Clear
  <2>1. /\ at' = [at EXCEPT ![p] = "create"] /\ at'[p] = "create"
        /\ UNCHANGED <<inputVars, passed, snap, todo, held, outVars, faults, foreign>>
    BY <1>1, <1>3 DEF Preflight, Goto
  <2>2. Private(p)
    BY <1>1, <2>1 DEF Private, inputVars, sourceVars, outVars
  <2>3. TypeOK' /\ Unmade'
    BY <2>1 DEF IInv, TypeOK, Unmade, inputVars, outVars, Step
  <2>4. Sound(p)'
    BY <1>1, <2>1, RestsHeld DEF Sound, Rounds, Planning, Watching, Stamps, Ahead, Owns,
       ReportAfterAll, Looking, Copying, Ending, inputVars, outVars
  <2> QED
    BY <2>2, <2>3, <2>4, StepKeeps
<1> QED
  BY <1>2, <1>3

LEMMA CreateKeeps ==
    ASSUME IInv, NEW p \in Migrator, Create(p) PROVE IInv'
<1>1. DOMAIN at = Migrator /\ at[p] = "create" /\ Sound(p)
  BY DEF IInv, TypeOK, Create
<1>2. CASE root # NoFile
  BY <1>1, <1>2, RefuseKeeps DEF Create
<1>3. CASE root = NoFile
  <2>1. /\ at' = [at EXCEPT ![p] = "records"] /\ at'[p] = "records" /\ root' = p
        /\ UNCHANGED <<inputVars, passed, snap, todo, held, record, target, journal,
                       partial, final, faults, foreign>>
    BY <1>1, <1>3 DEF Create, Goto
  <2>2. Private(p)
    BY <1>1, <1>3, <2>1 DEF Private, inputVars, sourceVars
  <2>3. TypeOK'
    BY <2>1 DEF IInv, TypeOK, inputVars, Step, OwnedBy
  <2>4. Unmade'
    BY <2>1, MigrationAssumption DEF Unmade
  <2>5. CopyHeld(p)'
    BY <2>1 DEF CopyHeld, Copying, Ending
  <2>6. Sole(p)'
    BY <1>3, <2>1, EmptyJournal DEF IInv, Unmade, Sole, Committed
  <2>7. Rounds(p)' /\ Stamps(p)' /\ Ahead(p)' /\ LookHeld(p)' /\ ReportAfterAll(p)'
    BY <1>1, <2>1, RestsHeld DEF Sound, Rounds, Planning, Watching, Stamps, Ahead,
       ReportAfterAll, Looking, Copying, inputVars
  <2> QED
    BY <2>2, <2>3, <2>4, <2>5, <2>6, <2>7, StepKeeps DEF Sound
<1> QED
  BY <1>2, <1>3

LEMMA WriteRecordsKeeps ==
    ASSUME IInv, NEW p \in Migrator, WriteRecords(p) PROVE IInv'
<1>1. /\ DOMAIN at = Migrator /\ DOMAIN todo = Migrator /\ at[p] = "records" /\ Sound(p)
      /\ DOMAIN snap[p] \subseteq File
  BY DEF IInv, TypeOK, WriteRecords
<1>2. CASE record # NoFile
  BY <1>1, <1>2, RefuseKeeps DEF WriteRecords
<1>3. CASE record = NoFile
  <2>1. /\ at' = [at EXCEPT ![p] = "copy"] /\ at'[p] = "copy" /\ record' = p
        /\ todo' = [todo EXCEPT ![p] = DOMAIN snap[p]] /\ todo'[p] = DOMAIN snap[p]
        /\ UNCHANGED <<inputVars, passed, snap, held, root, target, journal, partial,
                       final, faults, foreign>>
    BY <1>1, <1>3 DEF WriteRecords, Goto
  <2>2. Sole(p)
    BY <1>1 DEF Sound, Owns
  <2>3. Private(p)
    BY <1>1, <2>1 DEF Private, inputVars, sourceVars, Owns
  <2>4. TypeOK'
    BY <1>1, <2>1 DEF IInv, TypeOK, inputVars, Step, OwnedBy
  <2>5. Unmade'
    BY <2>1 DEF IInv, Unmade
  <2>6. CopyHeld(p)'
    BY <2>1 DEF CopyHeld, Copying, Ending
  <2>7. Sole(p)'
    BY <1>1, <2>1, <2>2 DEF Sole, Committed
  <2>8. Rounds(p)' /\ Stamps(p)' /\ Ahead(p)' /\ LookHeld(p)' /\ ReportAfterAll(p)'
    BY <1>1, <2>1, RestsHeld DEF Sound, Rounds, Planning, Watching, Stamps, Ahead,
       ReportAfterAll, Looking, Copying, inputVars
  <2> QED
    BY <2>3, <2>4, <2>5, <2>6, <2>7, <2>8, StepKeeps DEF Sound
<1> QED
  BY <1>2, <1>3

LEMMA ReadKeeps ==
    ASSUME IInv, NEW p \in Migrator, Read(p) PROVE IInv'
<1>1. /\ DOMAIN at = Migrator /\ DOMAIN held = Migrator /\ at[p] = "copy"
      /\ Sound(p) /\ Owns(p) /\ CopyHeld(p) /\ Sole(p) /\ passed[p] = 2
      /\ todo[p] \in SUBSET File
  BY DEF IInv, TypeOK, Read, Sound, Owns, Copying, Rounds, Ahead
<1>2. CASE todo[p] = {}
  <2>1. /\ at' = [at EXCEPT ![p] = "match"] /\ at'[p] = "match"
        /\ UNCHANGED <<inputVars, passed, snap, todo, held, outVars, faults, foreign>>
    BY <1>1, <1>2 DEF Read, Goto
  <2>2. Private(p)
    BY <1>1, <2>1 DEF Private, inputVars, sourceVars, outVars
  <2>3. TypeOK' /\ Unmade'
    BY <2>1 DEF IInv, TypeOK, Unmade, inputVars, outVars, Step
  <2>4. CopyHeld(p)'
    BY <1>1, <1>2, <2>1 DEF CopyHeld, Confirmed, Same, Copying, Ending, inputVars, outVars
  <2>5. Sole(p)'
    BY <1>1, <1>2, <2>1 DEF Sole, Committed, outVars
  <2>6. Rounds(p)' /\ Stamps(p)' /\ Ahead(p)' /\ LookHeld(p)' /\ ReportAfterAll(p)'
    BY <1>1, <2>1, RestsHeld DEF Sound, Rounds, Planning, Watching, Stamps, Ahead,
       ReportAfterAll, Looking, Copying, inputVars, outVars
  <2> QED
    BY <2>2, <2>3, <2>4, <2>5, <2>6, StepKeeps DEF Sound
<1>3. CASE todo[p] # {}
  <2> DEFINE f == First(CopyOrder, todo[p])
  <2>1. f \in File
    BY <1>1, <1>3, FirstCopied
  <2>2. CASE source[f] = NoFile \/ target[f] # NoFile
    BY <1>1, <1>3, <2>2, RefuseKeeps DEF Read
  <2>3. CASE ~(source[f] = NoFile \/ target[f] # NoFile)
    <3> HIDE DEF f
    <3>1. /\ at' = [at EXCEPT ![p] = "apply"] /\ at'[p] = "apply"
          /\ held' = [held EXCEPT ![p] = source[f].bytes]
          /\ UNCHANGED <<inputVars, passed, snap, todo, outVars, faults, foreign>>
      BY <1>1, <1>3, <2>3 DEF Read, Goto, f
    <3>2. Private(p)
      BY <1>1, <3>1 DEF Private, inputVars, sourceVars, outVars
    <3>3. source[f].bytes \in Bytes
      BY <2>1, <2>3 DEF IInv, TypeOK, Stamped
    <3>4. TypeOK' /\ Unmade'
      BY <3>1, <3>3 DEF IInv, TypeOK, Unmade, inputVars, outVars, Step
    <3>5. CopyHeld(p)'
      BY <1>1, <3>1 DEF CopyHeld, Confirmed, Same, Copying, Ending, inputVars, outVars
    <3>6. Sole(p)'
      BY <1>1, <3>1 DEF Sole, Committed, outVars
    <3>7. Rounds(p)' /\ Stamps(p)' /\ Ahead(p)' /\ LookHeld(p)' /\ ReportAfterAll(p)'
      BY <1>1, <1>3, <3>1, RestsHeld DEF Sound, Rounds, Planning, Watching, Stamps, Ahead,
         ReportAfterAll, Looking, Copying, inputVars, outVars
    <3> QED
      BY <3>2, <3>4, <3>5, <3>6, <3>7, StepKeeps DEF Sound
  <2> QED
    BY <2>2, <2>3
<1> QED
  BY <1>2, <1>3

LEMMA ApplyKeeps ==
    ASSUME IInv, NEW p \in Migrator, Apply(p) PROVE IInv'
<1>1. /\ DOMAIN at = Migrator /\ DOMAIN target = File /\ journal \in Seq(File)
      /\ at[p] = "apply" /\ Sound(p) /\ Owns(p) /\ CopyHeld(p) /\ Sole(p)
      /\ todo[p] \in SUBSET File /\ todo[p] # {} /\ todo[p] \subseteq DOMAIN snap[p]
  BY DEF IInv, TypeOK, Apply, Sound, Owns, Copying, Ahead
<1> DEFINE f == First(CopyOrder, todo[p])
<1>2. f \in File /\ f \in todo[p] /\ f \in DOMAIN snap[p]
  BY <1>1, FirstCopied
<1>3. CASE target[f] # NoFile
  BY <1>1, <1>3, RefuseKeeps DEF Apply
<1>4. CASE target[f] = NoFile
  <2> HIDE DEF f
  <2>1. /\ at' = [at EXCEPT ![p] = "compare"] /\ at'[p] = "compare"
        /\ target' = [target EXCEPT ![f] = held[p]]
        /\ \A g \in File \ {f} : target'[g] = target[g]
        /\ journal' = Append(journal, f)
        /\ UNCHANGED <<inputVars, passed, snap, todo, held, root, record, partial, final,
                       faults, foreign>>
    BY <1>1, <1>4 DEF Apply, Goto, f
  <2>2. Private(p)
    BY <1>1, <2>1 DEF Private, inputVars, sourceVars
  <2>3. f \notin ToSet(journal)
    BY <1>1, <1>2 DEF Sole, Committed
  <2>4. /\ journal' \in Seq(File) /\ IsInjective(journal')
        /\ ToSet(journal') = ToSet(journal) \cup {f}
    BY <1>1, <1>2, <2>1, <2>3, AppendOnce DEF Sole
  <2>5. TypeOK'
    BY <1>2, <2>1, <2>4 DEF IInv, TypeOK, inputVars, Step
  <2>6. Unmade'
    BY <1>1, <2>1, MigrationAssumption DEF Unmade, Sole
  <2>7. CopyHeld(p)'
    <3>1. \A g \in DOMAIN snap[p] \ todo[p] : g \in File \ {f}
      BY <1>2 DEF IInv, TypeOK
    <3> QED
      BY <1>1, <2>1, <3>1 DEF CopyHeld, Confirmed, Same, Copying, Ending, inputVars
  <2>8. Sole(p)'
    <3>1. Committed(p)' = Committed(p) \cup {f}
      BY <1>1, <2>1 DEF Committed, f
    <3>2. \A g \in File \ DOMAIN snap[p] : target'[g] = NoFile
      BY <1>1, <1>2, <2>1 DEF Sole
    <3> QED
      BY <1>1, <2>1, <2>4, <3>1, <3>2 DEF Sole
  <2>9. Rounds(p)' /\ Stamps(p)' /\ Ahead(p)' /\ LookHeld(p)' /\ ReportAfterAll(p)'
    BY <1>1, <2>1, RestsHeld DEF Sound, Rounds, Planning, Watching, Stamps, Ahead,
       ReportAfterAll, Looking, Copying, inputVars
  <2> QED
    BY <2>2, <2>5, <2>6, <2>7, <2>8, <2>9, StepKeeps DEF Sound
<1> QED
  BY <1>3, <1>4

LEMMA CompareKeeps ==
    ASSUME IInv, NEW p \in Migrator, Compare(p) PROVE IInv'
<1>1. /\ DOMAIN at = Migrator /\ DOMAIN todo = Migrator
      /\ at[p] = "compare" /\ Sound(p) /\ Owns(p) /\ CopyHeld(p) /\ Sole(p)
      /\ todo[p] \in SUBSET File /\ todo[p] # {} /\ todo[p] \subseteq DOMAIN snap[p]
  BY DEF IInv, TypeOK, Compare, Sound, Owns, Copying, Ahead
<1> DEFINE f == First(CopyOrder, todo[p])
<1>2. f \in todo[p] /\ f \in DOMAIN snap[p]
  BY <1>1, FirstCopied
<1>3. CASE ~(source[f] # NoFile /\ source[f].bytes = target[f])
  BY <1>1, <1>3, RefuseKeeps DEF Compare
<1>4. CASE source[f] # NoFile /\ source[f].bytes = target[f]
  <2> HIDE DEF f
  <2>1. /\ at' = [at EXCEPT ![p] = "copy"] /\ at'[p] = "copy"
        /\ todo' = [todo EXCEPT ![p] = @ \ {f}] /\ todo'[p] = todo[p] \ {f}
        /\ UNCHANGED <<inputVars, passed, snap, held, outVars, faults, foreign>>
    BY <1>1, <1>4 DEF Compare, Goto, f
  <2>2. Private(p)
    BY <1>1, <2>1 DEF Private, inputVars, sourceVars, outVars
  <2>3. TypeOK' /\ Unmade'
    BY <1>1, <2>1 DEF IInv, TypeOK, Unmade, inputVars, outVars, Step
  <2>4. Confirmed(p, f) \/ ~Same(p, f)
    BY <1>4 DEF Confirmed, Same
  <2>5. CopyHeld(p)'
    BY <1>1, <2>1, <2>4 DEF CopyHeld, Confirmed, Same, Copying, Ending, inputVars, outVars
  <2>6. Sole(p)'
    <3>1. Committed(p)' = Committed(p)
      BY <1>1, <1>2, <2>1 DEF Committed, f
    <3> QED
      BY <1>1, <2>1, <3>1 DEF Sole, outVars
  <2>7. Rounds(p)' /\ Stamps(p)' /\ Ahead(p)' /\ LookHeld(p)' /\ ReportAfterAll(p)'
    BY <1>1, <2>1, RestsHeld DEF Sound, Rounds, Planning, Watching, Stamps, Ahead,
       ReportAfterAll, Looking, Copying, inputVars, outVars
  <2> QED
    BY <2>2, <2>3, <2>5, <2>6, <2>7, StepKeeps DEF Sound
<1> QED
  BY <1>3, <1>4

LEMMA ValidateKeeps ==
    ASSUME IInv, NEW p \in Migrator, Validate(p) PROVE IInv'
<1>1. DOMAIN at = Migrator /\ at[p] = "validate" /\ Sound(p) /\ Owns(p) /\ CopyHeld(p)
      /\ Sole(p)
  BY DEF IInv, TypeOK, Validate, Sound, Owns, Ending
<1>2. CASE record = NoFile
  BY <1>1, <1>2, RefuseKeeps DEF Validate
<1>3. CASE record # NoFile
  <2>1. /\ at' = [at EXCEPT ![p] = "match"] /\ at'[p] = "match"
        /\ UNCHANGED <<inputVars, passed, snap, todo, held, outVars, faults, foreign>>
    BY <1>1, <1>3 DEF Validate, Goto
  <2>2. Private(p)
    BY <1>1, <2>1 DEF Private, inputVars, sourceVars, outVars
  <2>3. TypeOK' /\ Unmade'
    BY <2>1 DEF IInv, TypeOK, Unmade, inputVars, outVars, Step
  <2>4. CopyHeld(p)' /\ Sole(p)'
    BY <1>1, <2>1 DEF CopyHeld, Confirmed, Sole, Committed, Copying, Ending, outVars
  <2>5. Rounds(p)' /\ Stamps(p)' /\ Ahead(p)' /\ LookHeld(p)' /\ ReportAfterAll(p)'
    BY <1>1, <2>1, RestsHeld DEF Sound, Rounds, Planning, Watching, Stamps, Ahead,
       ReportAfterAll, Looking, Copying, inputVars, outVars
  <2> QED
    BY <2>2, <2>3, <2>4, <2>5, StepKeeps DEF Sound
<1> QED
  BY <1>2, <1>3

LEMMA StageDescriptorKeeps ==
    ASSUME IInv, NEW p \in Migrator, StageDescriptor(p) PROVE IInv'
<1>1. DOMAIN at = Migrator /\ at[p] = "stage_descriptor" /\ Sound(p) /\ Owns(p) /\ CopyHeld(p)
      /\ Sole(p) /\ partial \in [Companion -> OwnedBy]
  BY DEF IInv, TypeOK, StageDescriptor, Sound, Owns, Ending
<1>2. CASE partial["descriptor"] # NoFile
  BY <1>1, <1>2, RefuseKeeps DEF StageDescriptor, Stage
<1>3. CASE partial["descriptor"] = NoFile
  <2>1. /\ at' = [at EXCEPT ![p] = "stage_report"] /\ at'[p] = "stage_report"
        /\ partial' = [partial EXCEPT !["descriptor"] = p]
        /\ UNCHANGED <<inputVars, passed, snap, todo, held, root, record, target, journal,
                       final, faults, foreign>>
    BY <1>1, <1>3 DEF StageDescriptor, Stage, Goto
  <2>2. Private(p)
    BY <1>1, <2>1 DEF Private, inputVars, sourceVars
  <2>3. partial' \in [Companion -> OwnedBy]
    BY <1>1, <2>1 DEF OwnedBy
  <2>4. TypeOK' /\ Unmade'
    BY <2>1, <2>3 DEF IInv, TypeOK, Unmade, inputVars, Step
  <2>5. CopyHeld(p)' /\ Sole(p)'
    BY <1>1, <2>1 DEF CopyHeld, Confirmed, Sole, Committed, Copying, Ending
  <2>6. Rounds(p)' /\ Stamps(p)' /\ Ahead(p)' /\ LookHeld(p)' /\ ReportAfterAll(p)'
    BY <1>1, <2>1, RestsHeld DEF Sound, Rounds, Planning, Watching, Stamps, Ahead,
       ReportAfterAll, Looking, Copying, inputVars
  <2> QED
    BY <2>2, <2>4, <2>5, <2>6, StepKeeps DEF Sound
<1> QED
  BY <1>2, <1>3

LEMMA StageReportKeeps ==
    ASSUME IInv, NEW p \in Migrator, StageReport(p) PROVE IInv'
<1>1. DOMAIN at = Migrator /\ at[p] = "stage_report" /\ Sound(p) /\ Owns(p) /\ CopyHeld(p)
      /\ Sole(p) /\ partial \in [Companion -> OwnedBy]
  BY DEF IInv, TypeOK, StageReport, Sound, Owns, Ending
<1>2. CASE partial["report"] # NoFile
  BY <1>1, <1>2, RefuseKeeps DEF StageReport, Stage
<1>3. CASE partial["report"] = NoFile
  <2>1. /\ at' = [at EXCEPT ![p] = "match"] /\ at'[p] = "match"
        /\ partial' = [partial EXCEPT !["report"] = p]
        /\ UNCHANGED <<inputVars, passed, snap, todo, held, root, record, target, journal,
                       final, faults, foreign>>
    BY <1>1, <1>3 DEF StageReport, Stage, Goto
  <2>2. Private(p)
    BY <1>1, <2>1 DEF Private, inputVars, sourceVars
  <2>3. partial' \in [Companion -> OwnedBy]
    BY <1>1, <2>1 DEF OwnedBy
  <2>4. TypeOK' /\ Unmade'
    BY <2>1, <2>3 DEF IInv, TypeOK, Unmade, inputVars, Step
  <2>5. CopyHeld(p)' /\ Sole(p)'
    BY <1>1, <2>1 DEF CopyHeld, Confirmed, Sole, Committed, Copying, Ending
  <2>6. Rounds(p)' /\ Stamps(p)' /\ Ahead(p)' /\ LookHeld(p)' /\ ReportAfterAll(p)'
    BY <1>1, <2>1, RestsHeld DEF Sound, Rounds, Planning, Watching, Stamps, Ahead,
       ReportAfterAll, Looking, Copying, inputVars
  <2> QED
    BY <2>2, <2>4, <2>5, <2>6, StepKeeps DEF Sound
<1> QED
  BY <1>2, <1>3

LEMMA PublishDescriptorKeeps ==
    ASSUME IInv, NEW p \in Migrator, PublishDescriptor(p) PROVE IInv'
<1>1. /\ DOMAIN at = Migrator /\ at[p] = "publish_descriptor" /\ Sound(p) /\ Owns(p)
      /\ CopyHeld(p) /\ Sole(p) /\ partial \in [Companion -> OwnedBy]
      /\ final \in [Companion -> OwnedBy \cup {Outsider}]
  BY DEF IInv, TypeOK, PublishDescriptor, Sound, Owns, Ending
<1>2. CASE final["descriptor"] # NoFile
  BY <1>1, <1>2, RefuseKeeps DEF PublishDescriptor, Publish
<1>3. CASE final["descriptor"] = NoFile
  <2>1. /\ at' = [at EXCEPT ![p] = "publish_report"] /\ at'[p] = "publish_report"
        /\ final' = [final EXCEPT !["descriptor"] = p]
        /\ partial' \in {partial, [partial EXCEPT !["descriptor"] = NoFile]}
        /\ UNCHANGED <<inputVars, passed, snap, todo, held, root, record, target, journal,
                       faults, foreign>>
    BY <1>1, <1>3 DEF PublishDescriptor, Publish, Goto
  <2>2. Private(p)
    BY <1>1, <1>3, <2>1 DEF Private, inputVars, sourceVars, Companion
  <2>3. partial' \in [Companion -> OwnedBy] /\ final' \in [Companion -> OwnedBy \cup {Outsider}]
    BY <1>1, <2>1 DEF OwnedBy
  <2>4. TypeOK' /\ Unmade'
    BY <2>1, <2>3 DEF IInv, TypeOK, Unmade, inputVars, Step
  <2>5. CopyHeld(p)' /\ Sole(p)'
    BY <1>1, <2>1 DEF CopyHeld, Confirmed, Sole, Committed, Copying, Ending
  <2>6. ReportAfterAll(p)'
    BY <1>1, <2>1 DEF Sound, ReportAfterAll, Companion
  <2>7. Rounds(p)' /\ Stamps(p)' /\ Ahead(p)' /\ LookHeld(p)'
    BY <1>1, <2>1, RestsHeld DEF Sound, Rounds, Planning, Watching, Stamps, Ahead, Looking,
       Copying,
       inputVars
  <2> QED
    BY <2>2, <2>4, <2>5, <2>6, <2>7, StepKeeps DEF Sound
<1> QED
  BY <1>2, <1>3

LEMMA PublishReportKeeps ==
    ASSUME IInv, NEW p \in Migrator, PublishReport(p) PROVE IInv'
<1>1. /\ DOMAIN at = Migrator /\ at[p] = "publish_report" /\ Sound(p) /\ Owns(p)
      /\ CopyHeld(p) /\ Sole(p) /\ partial \in [Companion -> OwnedBy]
      /\ final \in [Companion -> OwnedBy \cup {Outsider}]
  BY DEF IInv, TypeOK, PublishReport, Sound, Owns, Ending
<1>2. CASE final["report"] # NoFile
  BY <1>1, <1>2, RefuseKeeps DEF PublishReport, Publish
<1>3. CASE final["report"] = NoFile
  <2>1. /\ at' = [at EXCEPT ![p] = "done"] /\ at'[p] = "done"
        /\ final' = [final EXCEPT !["report"] = p]
        /\ partial' \in {partial, [partial EXCEPT !["report"] = NoFile]}
        /\ UNCHANGED <<inputVars, passed, snap, todo, held, root, record, target, journal,
                       faults, foreign>>
    BY <1>1, <1>3 DEF PublishReport, Publish, Goto
  <2>2. Private(p)
    BY <1>1, <1>3, <2>1 DEF Private, inputVars, sourceVars, Companion
  <2>3. partial' \in [Companion -> OwnedBy] /\ final' \in [Companion -> OwnedBy \cup {Outsider}]
    BY <1>1, <2>1 DEF OwnedBy
  <2>4. TypeOK' /\ Unmade'
    BY <2>1, <2>3 DEF IInv, TypeOK, Unmade, inputVars, Step
  <2>5. CopyHeld(p)' /\ Sole(p)'
    BY <1>1, <2>1 DEF CopyHeld, Confirmed, Sole, Committed, Copying, Ending
  <2>6. ReportAfterAll(p)'
    BY <1>1, <2>1 DEF Sound, ReportAfterAll, Companion
  <2>7. Rounds(p)' /\ Stamps(p)' /\ Ahead(p)' /\ LookHeld(p)'
    BY <1>1, <2>1, RestsHeld DEF Sound, Rounds, Planning, Watching, Stamps, Ahead, Looking,
       Copying,
       inputVars
  <2> QED
    BY <2>2, <2>4, <2>5, <2>6, <2>7, StepKeeps DEF Sound
<1> QED
  BY <1>2, <1>3

-----------------------------------------------------------------------------
(* The surroundings *)

LEMMA FailKeeps ==
    ASSUME IInv, NEW p \in Migrator, Fail(p) PROVE IInv'
<1> DEFINE f == First(CopyOrder, todo[p])
           c == IF at[p] = "stage_report" THEN "report" ELSE "descriptor"
<1>1. /\ DOMAIN at = Migrator /\ Sound(p) /\ at[p] # "done"
      /\ at' = [at EXCEPT ![p] = "stopped"] /\ at'[p] = "stopped"
      /\ UNCHANGED <<inputVars, passed, snap, todo, held, root, record, journal, final,
                     foreign>>
      /\ faults' = faults + 1 /\ faults < bound.faults
  BY DEF IInv, TypeOK, Fail, Goto
<1>2. target' = target \/ (/\ at[p] = "apply"
                           /\ target' \in {[target EXCEPT ![f] = Torn],
                                           [target EXCEPT ![f] = held[p]]})
  BY DEF Fail
<1>3. partial' = partial \/ partial' = [partial EXCEPT ![c] = IF @ = NoFile THEN p ELSE @]
  BY DEF Fail
<1>4. at[p] = "apply" => Owns(p) /\ Sole(p)
  BY <1>1 DEF Sound, Owns, Copying
<1>5. Private(p)
  BY <1>1, <1>2, <1>4 DEF Private, inputVars, sourceVars
<1>6. TypeOK'
  <2>1. target' \in [File -> Bytes \cup {NoFile, Torn}]
    BY <1>2 DEF IInv, TypeOK
  <2>2. partial' \in [Companion -> OwnedBy]
    BY <1>3 DEF IInv, TypeOK, OwnedBy
  <2>3. faults' \in 0 .. bound'.faults
    BY <1>1, MigrationAssumption DEF IInv, TypeOK, inputVars
  <2> QED
    BY <1>1, <2>1, <2>2, <2>3 DEF IInv, TypeOK, Step, inputVars
<1>7. Unmade'
  BY <1>1, <1>2, <1>4, MigrationAssumption DEF IInv, Unmade, Sole
<1>8. Sound(p)'
  BY <1>1, StoppedHeld DEF Sound, Rounds, Planning, Stamps, Ahead, Owns, ReportAfterAll,
     Looking, Copying, Ending, inputVars
<1> QED
  BY <1>5, <1>6, <1>7, <1>8, StepKeeps

\* What a change of the source leaves of what the processes know of it.
LEMMA ChangeKeeps ==
    ASSUME IInv, NEW tree \in [File -> {NoFile} \cup Stamped], Change(tree),
           \A f \in File : tree[f] = source[f] \/ tree[f] = NoFile \/ tree[f].stamp = edits + 1,
           standing' \subseteq Directory,
           \A f \in File : tree[f] # NoFile => Above[f] \subseteq standing'
    PROVE  IInv'
<1>1. /\ edits' = edits + 1 /\ edits < bound.edits /\ source' = tree
      /\ Present' = {f \in File : tree[f] # NoFile}
      /\ seen' = [p \in Migrator |-> [f \in File |->
            IF seen[p][f] = {} THEN {} ELSE seen[p][f] \cup {Content(source')[f]}]]
      /\ UNCHANGED <<stood, found, bound, procVars, outVars, faults, foreign>>
      /\ edits \in Nat /\ DOMAIN source = File /\ bound \in Circumstances
      /\ source \in [File -> {NoFile} \cup Stamped]
  BY MigrationAssumption DEF Change, IInv, TypeOK, Present
<1>2. Content(source') \in [File -> Bytes \cup {NoFile}]
  BY <1>1 DEF Content, Stamped
<1>3. TypeOK'
  <2>1. seen' \in [Migrator -> [File -> SUBSET (Bytes \cup {NoFile})]]
    <3>1. seen \in [Migrator -> [File -> SUBSET (Bytes \cup {NoFile})]]
      BY DEF IInv, TypeOK
    <3> QED
      BY <1>1, <1>2, <3>1
  <2>2. edits' \in 0 .. bound'.edits
    BY <1>1, MigrationAssumption
  <2> QED
    BY <1>1, <2>1, <2>2 DEF IInv, TypeOK, procVars, outVars
<1>4. SourceHeld'
  <2>1. \A g \in File : source'[g] # NoFile => source'[g].stamp <= edits'
    <3> TAKE g \in File
    <3>1. source[g] # NoFile => source[g].stamp \in Nat /\ source[g].stamp <= edits
      BY <1>1 DEF IInv, SourceHeld, Stamped
    <3> QED
      BY <1>1, <3>1
  <2> QED
    BY <1>1, <2>1 DEF SourceHeld
<1>5. Unmade'
  BY <1>1 DEF IInv, Unmade, outVars
<1>6. ASSUME NEW p \in Migrator PROVE Sound(p)'
  <2>1. /\ Sound(p) /\ at' = at /\ passed' = passed /\ snap' = snap /\ todo' = todo
        /\ found' = found /\ stood' = stood
        /\ final' = final /\ root' = root /\ record' = record /\ target' = target
        /\ journal' = journal
        /\ DOMAIN snap[p] \subseteq File /\ \A g \in DOMAIN snap[p] : snap[p][g] \in Stamped
    BY <1>1 DEF IInv, TypeOK, procVars, outVars
  <2>2. Stamps(p)'
    BY <1>1, <2>1 DEF Sound, Stamps, Stamped
  <2>3. \A g \in DOMAIN snap[p] : ~Same(p, g) => ~Same(p, g)'
    <3> SUFFICES ASSUME NEW g \in DOMAIN snap[p], source[g] # snap[p][g]
                 PROVE  source'[g] # snap[p][g]
      BY <2>1 DEF Same
    <3>1. snap[p][g].stamp \in Nat /\ snap[p][g].stamp <= edits /\ snap[p][g] # NoFile
      BY <2>1, MigrationAssumption DEF Sound, Stamps, Stamped
    <3> QED
      BY <1>1, <2>1, <3>1
  <2>4. SeenHeld(p)'
    <3>1. CASE at[p] \in Watching
      <4>1. \A f \in File : Content(source)[f] \in seen[p][f]
        BY <2>1, <3>1 DEF Sound, LookHeld, SeenHeld
      <4>2. \A f \in File : Content(source')[f] \in seen'[p][f]
        BY <1>1, <4>1
      <4>3. Content(source)' = Content(source')
        BY DEF Content
      <4> QED
        BY <2>1, <3>1, <4>2, <4>3 DEF SeenHeld
    <3>2. CASE at[p] \notin Watching
      <4>1. seen[p] = Unseen => seen'[p] = Unseen
        BY <1>1 DEF Unseen
      <4> QED
        BY <2>1, <3>2, <4>1 DEF Sound, LookHeld, SeenHeld
    <3> QED
      BY <3>1, <3>2
  <2>5. WalkHeld(p)'
    <3>1. \A f \in File : seen[p][f] \subseteq seen'[p][f]
      BY <1>1
    <3>2. /\ \A f \in File : Absent(p, f) => Absent(p, f)'
          /\ \A f \in DOMAIN snap[p] : Agreed(p, f) => Agreed(p, f)'
      BY <2>1, <3>1 DEF Absent, Agreed
    <3> QED
      BY <2>1, <3>2 DEF Sound, LookHeld, WalkHeld
  <2>6. PlanHeld(p)'
    <3>1. \A f : Stood(p, f)' = Stood(p, f)
      BY <2>1 DEF Stood
    <3> QED
      BY <2>1, <2>3, <3>1 DEF Sound, LookHeld, PlanHeld
  <2>7. ASSUME Owns(p) PROVE CopyHeld(p)'
    <3>1. CopyHeld(p)
      BY <2>1, <2>7 DEF Sound
    <3> QED
      BY <2>1, <2>3, <3>1 DEF CopyHeld, Confirmed
  <2>8. Rounds(p)' /\ Ahead(p)' /\ Owns(p)' = Owns(p) /\ Sole(p)' = Sole(p)
        /\ ReportAfterAll(p)'
    BY <2>1 DEF Sound, Rounds, Ahead, Owns, Sole, Committed, ReportAfterAll
  <2> QED
    BY <2>1, <2>2, <2>4, <2>5, <2>6, <2>7, <2>8 DEF Sound, LookHeld
<1> QED
  BY <1>3, <1>4, <1>5, <1>6 DEF IInv

LEMMA StampedIs ==
    ASSUME IInv
    PROVE  /\ source \in [File -> {NoFile} \cup Stamped] /\ standing \subseteq Directory
           /\ \A f \in File : source[f] # NoFile => Above[f] \subseteq standing
           /\ edits + 1 \in Nat
           /\ \A f \in File : Above[f] \subseteq Directory
           /\ bound.bytes \subseteq Bytes
BY MigrationAssumption DEF IInv, TypeOK, SourceHeld, Present

LEMMA EditKeeps ==
    ASSUME IInv, NEW f \in File, Edit(f) PROVE IInv'
<1>1. PICK now \in {NoFile} \cup [bytes : bound.bytes, stamp : {edits + 1}] :
          /\ Change([source EXCEPT ![f] = now])
          /\ standing' = IF now = NoFile THEN standing ELSE standing \cup Above[f]
  BY DEF Edit
<1>2. now \in {NoFile} \cup Stamped /\ (now # NoFile => now.stamp = edits + 1)
  BY StampedIs DEF Stamped
<1> DEFINE tree == [source EXCEPT ![f] = now]
<1>3. /\ tree \in [File -> {NoFile} \cup Stamped] /\ tree[f] = now
      /\ \A g \in File \ {f} : tree[g] = source[g]
  BY <1>2, StampedIs
<1>4. /\ standing' \subseteq Directory
      /\ \A g \in File : tree[g] # NoFile => Above[g] \subseteq standing'
  BY <1>1, <1>3, StampedIs
<1> HIDE DEF tree
<1> QED
  BY <1>1, <1>2, <1>3, <1>4, ChangeKeeps DEF tree

LEMMA MoveKeeps ==
    ASSUME IInv, NEW f \in File, NEW g \in File, Move(f, g) PROVE IInv'
<1>1. source[f] \in Stamped
  BY StampedIs DEF Move
<1>2. /\ Moved(f, g) \in [File -> {NoFile} \cup Stamped]
      /\ \A h \in File : \/ Moved(f, g)[h] = source[h] \/ Moved(f, g)[h] = NoFile
                         \/ h = g /\ Moved(f, g)[h].stamp = edits + 1
  BY <1>1, StampedIs DEF Moved, Stamped
<1>3. /\ standing' \subseteq Directory
      /\ \A h \in File : Moved(f, g)[h] # NoFile => Above[h] \subseteq standing'
  BY <1>2, StampedIs DEF Move
<1> QED
  BY <1>2, <1>3, ChangeKeeps DEF Move

LEMMA RemoveDirectoryKeeps ==
    ASSUME IInv, NEW d \in Directory, RemoveDirectory(d) PROVE IInv'
<1>1. ASSUME NEW f \in File, source[f] # NoFile PROVE d \notin Above[f]
  <2>1. f \in Present
    BY <1>1 DEF Present
  <2>2. d \in Above[f] => (Above[f] \cup {f}) \cap Children(d) \cap (Present \cup standing) # {}
    BY <2>1, Descended
  <2> QED
    BY <2>2 DEF RemoveDirectory
<1>2. /\ standing' = standing \ {d}
      /\ \A f \in File : source[f] # NoFile => Above[f] \subseteq standing'
  BY <1>1, StampedIs DEF RemoveDirectory
<1> QED
  BY <1>2, StampedIs, ChangeKeeps DEF RemoveDirectory

LEMMA IntrudeKeeps ==
    ASSUME IInv, NEW c \in Companion, Intrude(c) PROVE IInv'
<1>1. /\ final \in [Companion -> OwnedBy \cup {Outsider}] /\ final[c] = NoFile
      /\ final' = [final EXCEPT ![c] = Outsider]
      /\ foreign' = foreign + 1 /\ foreign < bound.foreign
      /\ UNCHANGED <<inputVars, procVars, root, record, target, journal, partial, faults>>
  BY DEF Intrude, IInv, TypeOK
<1>2. TypeOK'
  <2>1. foreign' \in 0 .. bound'.foreign
    BY <1>1, MigrationAssumption DEF IInv, TypeOK, inputVars
  <2> QED
    BY <1>1, <2>1 DEF IInv, TypeOK, inputVars, procVars
<1>3. SourceHeld' /\ Unmade'
  BY <1>1 DEF IInv, SourceHeld, Unmade, Present, inputVars
<1>4. ASSUME NEW p \in Migrator PROVE Sound(p)'
  <2>1. Sound(p)
    BY DEF IInv
  <2>2. ReportAfterAll(p)'
    BY <1>1, <2>1, MigrationAssumption DEF Sound, ReportAfterAll, Companion, procVars
  <2>3. LookHeld(p)'
    BY <1>1, <2>1 DEF Sound, LookHeld, SeenHeld, WalkHeld, PlanHeld, Content, Absent,
       Agreed,
       Stood, Same, inputVars, procVars
  <2>4. /\ Rounds(p)' /\ Stamps(p)' /\ Ahead(p)'
        /\ Owns(p)' = Owns(p) /\ CopyHeld(p)' = CopyHeld(p) /\ Sole(p)' = Sole(p)
    BY <1>1, <2>1 DEF Sound, Rounds, Stamps, Ahead, Same, Owns, CopyHeld, Confirmed, Sole,
       Committed, inputVars, procVars
  <2> QED
    BY <2>1, <2>2, <2>3, <2>4 DEF Sound
<1> QED
  BY <1>2, <1>3, <1>4 DEF IInv

-----------------------------------------------------------------------------
(* The theorems *)

LEMMA InitHolds == Init => IInv
<1> SUFFICES ASSUME Init PROVE IInv
  OBVIOUS
<1>1. source \in [File -> {NoFile} \cup Stamped] /\ bound \in Circumstances
      /\ \A f \in File : source[f] # NoFile => source[f].stamp = 0
  BY MigrationAssumption DEF Init, Stamped
<1>2. DOMAIN <<>> = {} /\ <<>> \in Seq(File)
  BY EmptySeq
<1>3. TypeOK
  <2>1. seen \in [Migrator -> [File -> SUBSET (Bytes \cup {NoFile})]]
    BY DEF Init, Unseen
  <2>2. \A p \in Migrator : DOMAIN snap[p] = {}
    BY <1>2 DEF Init
  <2> QED
    BY <1>1, <1>2, <2>1, <2>2, AfterIs, MigrationAssumption DEF Init, TypeOK, Step, OwnedBy
<1>4. SourceHeld /\ Unmade
  BY <1>1 DEF Init, SourceHeld, Unmade
<1>5. ASSUME NEW p \in Migrator PROVE Sound(p)
  <2>1. /\ at[p] = "idle" /\ passed[p] = 0 /\ DOMAIN snap[p] = {} /\ final["report"] # p
        /\ seen[p] = Unseen /\ stood[p] = {}
    BY <1>2, MigrationAssumption DEF Init, Companion
  <2>2. LookHeld(p)
    BY <2>1 DEF LookHeld, SeenHeld, WalkHeld, PlanHeld, Planning, Watching
  <2> QED
    BY <2>1, <2>2 DEF Sound, Rounds, Planning, Stamps, Ahead, Owns, ReportAfterAll, Looking,
       Copying, Ending
<1> QED
  BY <1>3, <1>4, <1>5 DEF IInv

LEMMA NextKeeps == IInv /\ [Next]_vars => IInv'
<1> SUFFICES ASSUME IInv, [Next]_vars PROVE IInv'
  OBVIOUS
<1>1. ASSUME NEW p \in Migrator, Proceed(p) PROVE IInv'
  BY <1>1, PlanKeeps, ReopenKeeps, WalkKeeps, InventoryKeeps, SnapshotKeeps,
     MatchInventoryKeeps, FingerprintKeeps,
     PreflightKeeps, CreateKeeps, WriteRecordsKeeps, ReadKeeps, ApplyKeeps, CompareKeeps,
     ValidateKeeps, StageDescriptorKeeps, StageReportKeeps, PublishDescriptorKeeps,
     PublishReportKeeps DEF Proceed
<1>2. ASSUME NEW p \in Migrator, Fail(p) PROVE IInv'
  BY <1>2, FailKeeps
<1>3. ASSUME NEW f \in File, NEW g \in File, Edit(f) \/ Move(f, g) PROVE IInv'
  BY <1>3, EditKeeps, MoveKeeps
<1>6. ASSUME NEW d \in Directory, RemoveDirectory(d) PROVE IInv'
  BY <1>6, RemoveDirectoryKeeps
<1>4. ASSUME NEW c \in Companion, Intrude(c) PROVE IInv'
  BY <1>4, IntrudeKeeps
<1>5. CASE UNCHANGED vars
  <2>1. TypeOK'
    BY <1>5 DEF IInv, TypeOK, vars, inputVars, procVars, outVars
  <2>2. SourceHeld' /\ Unmade'
    BY <1>5 DEF IInv, SourceHeld, Unmade, Present, vars, inputVars, outVars
  <2>3. \A p \in Migrator : LookHeld(p)'
    BY <1>5 DEF IInv, Sound, LookHeld, SeenHeld, WalkHeld, PlanHeld, Content, Absent,
       Agreed,
       Stood, Same, vars, inputVars, procVars
  <2>4. \A p \in Migrator : Sound(p)'
    BY <1>5, <2>3 DEF IInv, Sound, Rounds, Planning, Stamps, Ahead, Same, Owns, CopyHeld,
       Confirmed, Sole, Committed, ReportAfterAll, vars, inputVars, procVars, outVars
  <2> QED
    BY <2>1, <2>2, <2>4 DEF IInv
<1> QED
  BY <1>1, <1>2, <1>3, <1>4, <1>5, <1>6 DEF Next

\* The inductive invariant of the migrations.
THEOREM Invariance == Spec => []IInv
BY InitHolds, NextKeeps, PTL DEF Spec

\* Every variable keeps its type: `migrate` is never in a step, and never holds
\* a state of the output, that the source does not provide for.
THEOREM TypeCorrect == Spec => []TypeOK
<1>1. IInv => TypeOK
  BY DEF IInv
<1> QED
  BY <1>1, Invariance, PTL

\* A report comes last, beside the descriptor and the records of the same run,
\* with one committed collection for every file of the plan, however many
\* migrations race and wherever they fail (`migrate`, migrate.rs).
THEOREM ReportComesLast == Spec => []ReportIsLast
<1>1. IInv => ReportIsLast
  BY DEF IInv, Sound, ReportIsLast, ReportAfterAll, Owns, Ending, Sole, Committed
<1> QED
  BY <1>1, Invariance, PTL

-----------------------------------------------------------------------------
(* What no step does *)

Keeps == \A c \in Companion : final[c] # NoFile => final'[c] = final[c]
Aloof ==
    \A p \in Migrator : root # NoFile /\ root # p /\ Proceed(p) => UNCHANGED outVars

LEMMA StepNeverReplaces == IInv /\ [Next]_vars => [Keeps]_vars
<1> SUFFICES ASSUME IInv, Next PROVE Keeps
  BY DEF vars, outVars, Keeps
<1>1. DOMAIN final = Companion
  BY DEF IInv, TypeOK
<1>2. \/ final' = final
      \/ \E c \in Companion, who \in Migrator \cup {Outsider} :
            final[c] = NoFile /\ final' = [final EXCEPT ![c] = who]
  <2>1. ASSUME NEW p \in Migrator, Proceed(p)
        PROVE  \/ final' = final
               \/ \E c \in Companion : final[c] = NoFile /\ final' = [final EXCEPT ![c] = p]
    <3>1. CASE \/ Plan(p) \/ Reopen(p) \/ Walk(p) \/ Inventory(p)
               \/ Snapshot(p) \/ MatchInventory(p) \/ Fingerprint(p)
      BY <3>1 DEF Plan, Reopen, BeginWalk, Walk, Inventory, Snapshot, MatchInventory,
         Fingerprint, Refuse, outVars
    <3>2. CASE Preflight(p) \/ Create(p) \/ WriteRecords(p) \/ Read(p)
      BY <3>2 DEF Preflight, Create, WriteRecords, Read, Refuse, outVars
    <3>3. CASE Apply(p) \/ Compare(p) \/ Validate(p) \/ StageDescriptor(p) \/ StageReport(p)
      BY <3>3 DEF Apply, Compare, Validate, StageDescriptor, StageReport, Stage, Refuse,
         outVars
    <3>4. CASE PublishDescriptor(p)
      BY <3>4 DEF PublishDescriptor, Publish, Refuse, outVars, Companion
    <3>5. CASE PublishReport(p)
      BY <3>5 DEF PublishReport, Publish, Refuse, outVars, Companion
    <3> QED
      BY <2>1, <3>1, <3>2, <3>3, <3>4, <3>5 DEF Proceed
  <2>2. ASSUME NEW p \in Migrator, Fail(p) PROVE final' = final
    BY <2>2 DEF Fail
  <2>3. ASSUME \/ \E f \in File : Edit(f) \/ \E g \in File : Move(f, g)
               \/ \E d \in Directory : RemoveDirectory(d)
        PROVE  final' = final
    BY <2>3 DEF Edit, Move, RemoveDirectory, Change, outVars
  <2>4. ASSUME NEW c \in Companion, Intrude(c)
        PROVE  final[c] = NoFile /\ final' = [final EXCEPT ![c] = Outsider]
    BY <2>4 DEF Intrude
  <2> QED
    BY <2>1, <2>2, <2>3, <2>4 DEF Next
<1> QED
  BY <1>1, <1>2 DEF Keeps

\* "never overwrite an existing result": no step of a migration, whatever fails
\* and whoever else puts files there, changes a companion file in its place.
THEOREM NothingPublishedIsReplaced == Spec => NeverReplaced
BY Invariance, StepNeverReplaces, PTL DEF Spec, NeverReplaced, Keeps

LEMMA StaysAloof ==
    ASSUME IInv, NEW p \in Migrator, root # NoFile, root # p, Proceed(p)
    PROVE  UNCHANGED outVars
<1>1. ~Owns(p)
  BY DEF IInv, Sound, Sole
<1>2. CASE \/ Plan(p) \/ Reopen(p) \/ Walk(p) \/ Inventory(p)
           \/ Snapshot(p) \/ MatchInventory(p) \/ Fingerprint(p) \/ Preflight(p)
  BY <1>2 DEF Plan, Reopen, BeginWalk, Walk, Inventory, Snapshot, MatchInventory,
     Fingerprint,
     Preflight, Refuse
<1>3. CASE Create(p)
  BY <1>3 DEF Create, Refuse
<1>4. CASE at[p] \in {"records"} \cup Copying \cup Ending
  BY <1>1, <1>4 DEF Owns
<1> QED
  BY <1>2, <1>3, <1>4 DEF Proceed, WriteRecords, Read, Apply, Compare, Validate,
     StageDescriptor, StageReport, PublishDescriptor, PublishReport, Copying, Ending

LEMMA StepStaysAloof == IInv /\ [Next]_vars => [Aloof]_vars
BY StaysAloof DEF Aloof

\* Two migrations into one place never mix: `create_dir` lets one of them in,
\* and no step of another one touches the output from then on.
THEOREM OutputsNeverMix == Spec => OneWriter
BY Invariance, StepStaysAloof, PTL DEF Spec, OneWriter, Aloof

-----------------------------------------------------------------------------
(* The refinement *)

LEMMA InitRefines == Init => Promise!Init
<1> SUFFICES ASSUME Init PROVE Promise!Init
  OBVIOUS
<1>1. Content(source) \in [File -> Bytes \cup {NoFile}]
  <2>1. IInv
    BY InitHolds
  <2> QED
    BY <2>1 DEF IInv, TypeOK, Content, Stamped
<1>2. Published = NoFile
  BY MigrationAssumption DEF Init, Published, Companion
<1>3. Plans = [p \in Migrator |-> {}]
  BY DEF Init, Plans
<1> QED
  BY <1>1, <1>2, <1>3 DEF Init, Unseen, Promise!Init, Promise!Holds, Promise!Closed

\* Who has published a report has published its plan.
ReportStands ==
    \A p \in Migrator : at[p] = "done" => target \in Plans[p] /\ passed[p] = 5

LEMMA ReportHasStood == IInv => ReportStands
<1> SUFFICES ASSUME IInv, NEW p \in Migrator, at[p] = "done"
             PROVE  target \in Plans[p] /\ passed[p] = 5
  BY DEF ReportStands
<1>1. CopyHeld(p) /\ Sole(p) /\ stood[p] # {} /\ passed[p] = 5
      /\ target \in [File -> Bytes \cup {NoFile, Torn}]
  BY DEF IInv, TypeOK, Sound, Rounds, Owns, Ending, LookHeld, PlanHeld, Planning
<1>2. target = Planned(p)
  BY <1>1 DEF CopyHeld, Confirmed, Ending, Sole, Planned
<1> QED
  BY <1>1, <1>2 DEF Plans

\* What a report stands for is not written in any more.
LEMMA PublishedStays ==
    ASSUME IInv, NEW p \in Migrator, Proceed(p) \/ Fail(p), final["report"] \in Migrator
    PROVE  Published' = Published
<1> DEFINE q == final["report"]
<1>1. at[q] = "done" /\ root = q /\ root # NoFile
  BY MigrationAssumption DEF IInv, Sound, ReportAfterAll, Owns, Ending, Sole
<1>2. CASE Proceed(p) /\ p # q
  <2>1. UNCHANGED outVars
    BY <1>1, <1>2, StaysAloof
  <2> QED
    BY <2>1 DEF outVars, Published
<1>3. CASE Proceed(p) /\ p = q
  BY <1>1, <1>3 DEF Proceed, Plan, Reopen, Walk, Inventory, Snapshot, MatchInventory,
     Fingerprint, Preflight, Create, WriteRecords, Read, Apply, Compare, Validate,
     StageDescriptor, StageReport, PublishDescriptor, PublishReport
<1>4. CASE Fail(p)
  <2>1. at[p] # "done" /\ p # q
    BY <1>1, <1>4 DEF Fail
  <2>2. at[p] # "apply"
    BY <1>1, <2>1 DEF IInv, Sound, Owns, Copying, Sole
  <2> QED
    BY <1>4, <2>2 DEF Fail, Published
<1> QED
  BY <1>2, <1>3, <1>4

\* A step that leaves the source, the looks at it and the plans alone publishes
\* a plan, or nothing.
LEMMA OutputRefines ==
    ASSUME IInv, ReportStands', IInv', NEW p \in Migrator, Proceed(p) \/ Fail(p),
           UNCHANGED <<Content(source), seen, stood, Plans, passed>>
    PROVE  [Promise!Next]_Promise!promiseVars
<1>1. CASE final["report"] \in Migrator
  BY <1>1, PublishedStays DEF Promise!promiseVars
<1>2. CASE final["report"] \notin Migrator /\ final'["report"] \notin Migrator
  BY <1>2 DEF Published, Promise!promiseVars
<1>3. CASE final["report"] \notin Migrator /\ final'["report"] \in Migrator
  <2> DEFINE q == final'["report"]
  <2>1. at'[q] = "done"
    BY <1>3 DEF IInv, Sound, ReportAfterAll
  <2>2. target' \in Plans'[q] /\ passed'[q] = 5
    BY <1>3, <2>1 DEF ReportStands
  <2>3. Published = NoFile /\ Published' = target'
    BY <1>3 DEF Published
  <2>4. Promise!Publish(q)
    BY <2>2, <2>3 DEF Promise!Publish, Promise!Verifications
  <2> QED
    BY <1>3, <2>4 DEF Promise!Next
<1> QED
  BY <1>1, <1>2, <1>3

\* The plans change where a plan is made, and nowhere else.
LEMMA PlansStay ==
    ASSUME IInv, stood' = stood, snap' = snap PROVE Plans' = Plans
BY DEF Plans, Planned

LEMMA LookRefines ==
    ASSUME IInv, NEW p \in Migrator, NEW step, BeginWalk(p, step), at[p] \in {"idle", "match"}
    PROVE  Promise!Look(p)
<1>1. seen[p] = Unseen
  BY DEF IInv, Sound, LookHeld, SeenHeld, Watching
<1>2. UNCHANGED <<source, stood, snap, passed, final, target>>
      /\ seen' = [seen EXCEPT ![p] = [f \in File |-> {Content(source)[f]}]]
  BY DEF BeginWalk, sourceVars, outVars
<1>3. Content(source)' = Content(source) /\ Published' = Published /\ Plans' = Plans
  BY <1>2, PlansStay DEF Content, Published
<1> QED
  BY <1>1, <1>2, <1>3 DEF Promise!Look, Promise!Closed, Unseen

LEMMA PlanRefines ==
    ASSUME IInv, NEW p \in Migrator, Snapshot(p), todo[p] = {}
    PROVE  Promise!Plan(p)
<1>1. /\ stood' = [stood EXCEPT ![p] = {Content(source)}]
      /\ seen' = [seen EXCEPT ![p] = Unseen]
      /\ UNCHANGED <<source, snap, passed, final, target>>
      /\ DOMAIN stood = Migrator /\ at[p] = "snapshot" /\ stood[p] = {}
  BY DEF Snapshot, IInv, TypeOK, sourceVars, outVars, Sound, LookHeld, PlanHeld, Planning
<1>2. Content(source)' = Content(source) /\ Published' = Published
  BY <1>1 DEF Content, Published
<1>3. Plans[p] = {}
  BY <1>1 DEF Plans
<1>4. Plans' = [Plans EXCEPT ![p] = {Planned(p)}]
  <2>1. \A q : Planned(q)' = Planned(q)
    BY <1>1 DEF Planned
  <2> QED
    BY <1>1, <2>1 DEF Plans
<1>5. Planned(p) \in [File -> Bytes \cup {NoFile}]
  BY DEF IInv, TypeOK, Planned, Stamped
<1>6. \A f \in File : Planned(p)[f] \in seen[p][f]
  <2>1. /\ \A f \in File \ DOMAIN snap[p] : Absent(p, f)
        /\ \A f \in DOMAIN snap[p] : Agreed(p, f)
    BY <1>1 DEF IInv, Sound, LookHeld, WalkHeld
  <2> QED
    BY <2>1 DEF Planned, Absent, Agreed
<1> QED
  BY <1>1, <1>2, <1>3, <1>4, <1>5, <1>6
     DEF Promise!Plan, Promise!Holds, Promise!Agrees, Promise!Closed, Unseen

LEMMA VerifyRefines ==
    ASSUME IInv, NEW p \in Migrator, Fingerprint(p), todo[p] = {}
    PROVE  Promise!Verify(p)
<1>1. /\ passed' = [passed EXCEPT ![p] = @ + 1]
      /\ seen' = [seen EXCEPT ![p] = Unseen]
      /\ UNCHANGED <<source, stood, snap, final, target>>
      /\ at[p] = "fingerprint" /\ Sound(p) /\ stood[p] # {} /\ DOMAIN snap[p] \subseteq File
  BY DEF Fingerprint, IInv, TypeOK, sourceVars, outVars, Sound, LookHeld, PlanHeld, Planning
<1>2. Content(source)' = Content(source) /\ Published' = Published /\ Plans' = Plans
  BY <1>1, PlansStay DEF Content, Published
<1>3. Planned(p) \in Plans[p]
  BY <1>1 DEF Plans
<1>4. \A f \in File : Planned(p)[f] \in seen[p][f]
  <2>1. /\ \A f \in File \ DOMAIN snap[p] : Absent(p, f)
        /\ \A f \in DOMAIN snap[p] : Agreed(p, f)
    BY <1>1 DEF Sound, LookHeld, WalkHeld
  <2> QED
    BY <2>1 DEF Planned, Absent, Agreed
<1>5. \A f \in DOMAIN snap[p], then \in stood[p] : snap[p][f].bytes = then[f]
  BY <1>1 DEF Sound, LookHeld, PlanHeld, Stood
<1>6. PICK then \in stood[p] : \A f \in File : Planned(p)[f] # NoFile => Planned(p)[f] = then[f]
  BY <1>1, <1>5 DEF Planned
<1> QED
  BY <1>1, <1>2, <1>3, <1>4, <1>6 DEF Promise!Verify, Promise!Agrees, Promise!Closed, Unseen

LEMMA NextRefines ==
    IInv /\ IInv' /\ ReportStands' /\ [Next]_vars => [Promise!Next]_Promise!promiseVars
<1> SUFFICES ASSUME IInv, IInv', ReportStands', [Next]_vars
             PROVE  [Promise!Next]_Promise!promiseVars
  OBVIOUS
<1>1. ASSUME NEW p \in Migrator, Proceed(p) \/ Fail(p)
      PROVE  [Promise!Next]_Promise!promiseVars
  <2>1. CASE \E step : BeginWalk(p, step) /\ at[p] \in {"idle", "match"}
    BY <2>1, LookRefines DEF Promise!Next
  <2>2. CASE Snapshot(p) /\ todo[p] = {}
    BY <2>2, PlanRefines DEF Promise!Next
  <2>3. CASE Fingerprint(p) /\ todo[p] = {}
    BY <2>3, VerifyRefines DEF Promise!Next
  <2>4. CASE Snapshot(p) /\ todo[p] # {}
    <3>1. UNCHANGED <<source, seen, stood, passed>>
      BY <2>4 DEF Snapshot, Refuse, inputVars
    <3>2. stood[p] = {} /\ \A q \in Migrator \ {p} : snap'[q] = snap[q]
      BY <2>4 DEF Snapshot, Refuse, IInv, TypeOK, Sound, LookHeld, PlanHeld, Planning
    <3>3. Plans' = Plans
      <4>1. ASSUME NEW q \in Migrator
            PROVE  (IF stood[q] = {} THEN {} ELSE {Planned(q)'})
                       = IF stood[q] = {} THEN {} ELSE {Planned(q)}
        BY <3>2 DEF Planned
      <4> QED
        BY <3>1, <4>1 DEF Plans
    <3> QED
      BY <1>1, <3>1, <3>3, OutputRefines DEF Content
  <2>6. CASE Fail(p) \/ Refuse(p)
    <3>1. UNCHANGED <<source, seen, stood, snap, passed>>
      BY <2>6 DEF Fail, Refuse, inputVars
    <3> QED
      BY <1>1, <3>1, OutputRefines, PlansStay DEF Content
  <2>7. CASE Walk(p) \/ Inventory(p) \/ MatchInventory(p) \/ (Fingerprint(p) /\ todo[p] # {})
    <3>1. UNCHANGED <<source, seen, stood, snap, passed>>
      BY <2>7 DEF Walk, Inventory, MatchInventory, Fingerprint, Refuse, inputVars,
         sourceVars
    <3> QED
      BY <1>1, <3>1, OutputRefines, PlansStay DEF Content
  <2>8. CASE \/ Preflight(p) \/ Create(p) \/ WriteRecords(p) \/ Read(p) \/ Apply(p)
             \/ Compare(p) \/ Validate(p) \/ StageDescriptor(p) \/ StageReport(p)
             \/ PublishDescriptor(p) \/ PublishReport(p)
    <3>1. UNCHANGED <<source, seen, stood, snap, passed>>
      BY <2>8 DEF Preflight, Create, WriteRecords, Read, Apply, Compare, Validate,
         StageDescriptor, StageReport, Stage, PublishDescriptor, PublishReport, Publish,
         Refuse, inputVars
    <3> QED
      BY <1>1, <3>1, OutputRefines, PlansStay DEF Content
  <2> QED
    BY <1>1, <2>1, <2>2, <2>3, <2>4, <2>6, <2>7, <2>8 DEF Proceed, Plan, Reopen
<1>2. ASSUME NEW tree, Change(tree) PROVE [Promise!Next]_Promise!promiseVars
  <2>1. /\ seen' = [p \in Migrator |-> [f \in File |->
              IF seen[p][f] = {} THEN {} ELSE seen[p][f] \cup {Content(source')[f]}]]
        /\ UNCHANGED <<stood, snap, passed, final, target>>
    BY <1>2 DEF Change, procVars, outVars
  <2>2. Content(source)' = Content(source')
    BY DEF Content
  <2>3. Content(source') \in [File -> Bytes \cup {NoFile}]
    BY DEF IInv, TypeOK, Content, Stamped
  <2>4. Published' = Published /\ Plans' = Plans
    BY <2>1, PlansStay DEF Published
  <2>5. Promise!SourceChanges
    BY <2>1, <2>2, <2>3, <2>4 DEF Promise!SourceChanges, Promise!Holds
  <2> QED
    BY <2>5 DEF Promise!Next
<1>3. ASSUME NEW c \in Companion, Intrude(c) PROVE UNCHANGED Promise!promiseVars
  <2>1. final["report"] \in Migrator => c # "report"
    BY <1>3, MigrationAssumption DEF Intrude
  <2>2. final'["report"] = IF c = "report" THEN Outsider ELSE final["report"]
    BY <1>3 DEF Intrude, IInv, TypeOK, Companion
  <2>3. UNCHANGED <<target, source, seen, stood, snap, passed>>
    BY <1>3 DEF Intrude, inputVars, procVars
  <2>4. Published' = Published
    BY <2>1, <2>2, <2>3, MigrationAssumption DEF Published
  <2>5. Plans' = Plans /\ Content(source)' = Content(source)
    BY <2>3, PlansStay DEF Content
  <2> QED
    BY <2>3, <2>4, <2>5 DEF Promise!promiseVars
<1>4. CASE UNCHANGED vars
  <2>1. UNCHANGED <<target, final, source, seen, stood, snap, passed>>
    BY <1>4 DEF vars, inputVars, procVars, outVars
  <2>2. Published' = Published /\ Plans' = Plans /\ Content(source)' = Content(source)
    BY <2>1, PlansStay DEF Content, Published
  <2> QED
    BY <2>1, <2>2 DEF Promise!promiseVars
<1> QED
  BY <1>1, <1>2, <1>3, <1>4 DEF Next, Edit, Move, RemoveDirectory

\* "Observable changes are rejected; this is not an atomic snapshot": although
\* no lock is held and every look at the source takes many steps, the files of a
\* published report stood in the source together when the plan was made, every
\* other file was absent at a moment of each look, and neither the report nor
\* what it stands for is ever replaced.
THEOREM Refinement == Spec => KeepsPromise
BY Invariance, InitRefines, NextRefines, ReportHasStood, PTL DEF Spec, KeepsPromise,
   Promise!Spec
=============================================================================
