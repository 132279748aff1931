----------------------------- MODULE Migration ------------------------------
(***************************************************************************)
(* cdb_migrator: planning (cdb_migrator/src/plan.rs) and materialization   *)
(* (`migrate` of cdb_migrator/src/migrate.rs), by processes that share one *)
(* source and one output directory, while files of the source change.      *)
(*                                                                         *)
(* No lock is held on the source.  It is walked one directory after the    *)
(* other, and what a walk finds is read one file after the other; the plan *)
(* keeps a stamp and a fingerprint of every file, and `verify_source`      *)
(* walks and reads anew, five times.  A file's stamp is read before and    *)
(* after its bytes, and the two must agree; whoever writes, touches or     *)
(* moves a file gives it a new stamp (its inode change time), so stamp and *)
(* bytes are read in one step here, and a read that a change disturbs is a *)
(* failure.  A directory is not moved with what it holds: its files would  *)
(* keep their stamps, and the source excludes it ("not adversarial         *)
(* ancestor replacement races", plan.rs).  A journalled write of the       *)
(* datastore is one step (VersionStore has its inside).                    *)
(***************************************************************************)
EXTENDS Naturals, Sequences, FiniteSets, SequencesExt

CONSTANTS
    Migrator,             \* the processes
    File, Bytes,          \* source files that may exist, and what they hold
    Directory, Top,       \* their directories, and the root of the source
    Above,                \* the directories that a file or directory lies in
    WalkOrder, CopyOrder, \* what there may be in the order of the reader (what is in a
                          \* directory comes after it), files in that of the plan's moves
    NoFile, Torn, Outsider,
    Circumstances         \* the bounds of a behaviour: the processes that run, what
                          \* files hold, and how many changes of the source, failures
                          \* and companions of others there may be

Stamped == [bytes : Bytes, stamp : Nat]

ASSUME MigrationAssumption ==
    /\ NoFile \notin Bytes \cup Stamped /\ Torn \notin Bytes /\ Torn # NoFile
    /\ Outsider \notin Migrator /\ NoFile \notin Migrator \cup {Outsider}
    /\ Above \in [File \cup Directory -> SUBSET Directory]
    /\ File \cap Directory = {} /\ Top \in Directory /\ Above[Top] = {}
    /\ \A x \in (File \cup Directory) \ {Top} :
          /\ Top \in Above[x]
          /\ \A d \in Above[x] : Above[d] \subseteq Above[x]
                               /\ \E y \in Above[x] \cup {x} : Above[y] = Above[d] \cup {d}
    /\ WalkOrder \in Seq(File \cup Directory) /\ ToSet(WalkOrder) = File \cup Directory
    /\ CopyOrder \in Seq(File) /\ ToSet(CopyOrder) = File
    /\ \A c \in Circumstances :
          /\ c.migrators \subseteq Migrator /\ c.bytes \subseteq Bytes
          /\ c.kinds \subseteq {"edit", "move"}
          /\ c.edits \in Nat /\ c.faults \in Nat /\ c.foreign \in Nat

VARIABLES
    source,   \* by file: its bytes and stamp, or NoFile
    standing, \* the directories there are
    seen,     \* history, by process and file: what the file has held since the process
              \* began to look at the source; nothing, while it does not look
    stood,    \* history, by process: the source when the plan was made, once it is
    at,       \* by process: the step it is about to take
    passed,   \* by process: how often it has verified the source
    found,    \* by process: the files of its inventory
    snap,     \* by process: the plan's snapshot
    todo,     \* by process: the files, and directories, left in the loop it is in
    held,     \* by process: the bytes of the file being copied
    root, record,      \* who made the datastore, and its metadata records
    target, journal,   \* the datastore's assets, and its collections
    partial, final,    \* the companion files, staged and published
    bound,             \* the circumstances of this behaviour
    edits, faults, foreign

sourceVars == <<source, standing, bound, edits>>
inputVars == <<source, standing, bound, edits, seen, stood, found>>
procVars == <<at, passed, snap, todo, held>>
outVars == <<root, record, target, journal, partial, final>>
vars == <<inputVars, procVars, outVars, faults, foreign>>

Companion == {"descriptor", "report"}
Step ==
    {"idle", "inventory", "snapshot", "match", "walk", "fingerprint", "preflight", "create",
     "records", "copy", "apply", "compare", "validate", "stage_descriptor", "stage_report",
     "publish_descriptor", "publish_report", "done", "stopped"}

\* Where the verifications of the source lead: at the end of `plan`, in
\* `verify_tree`, and three times after the copy.
After == <<"match", "preflight", "validate", "stage_descriptor", "publish_descriptor">>

Present == {f \in File : source[f] # NoFile}
Children(d) == {x \in File \cup Directory : Above[x] = Above[d] \cup {d}}
\* What comes first of what is left.
First(order, left) ==
    order[CHOOSE i \in DOMAIN order :
              order[i] \in left /\ \A j \in 1 .. i - 1 : order[j] \notin left]
Content(tree) == [f \in File |-> IF tree[f] = NoFile THEN NoFile ELSE tree[f].bytes]

Unseen == [f \in File |-> {}]

Init ==
    /\ bound \in Circumstances
    /\ source \in [File -> {NoFile} \cup [bytes : bound.bytes, stamp : {0}]]
    /\ standing \in SUBSET Directory /\ Top \in standing
    /\ \A x \in Present \cup standing : Above[x] \subseteq standing
    /\ seen = [p \in Migrator |-> Unseen] /\ stood = [p \in Migrator |-> {}]
    /\ found = [p \in Migrator |-> {}]
    /\ at = [p \in Migrator |-> "idle"]
    /\ passed = [p \in Migrator |-> 0]
    /\ snap = [p \in Migrator |-> <<>>]
    /\ todo = [p \in Migrator |-> {}]
    /\ held = [p \in Migrator |-> NoFile]
    /\ root = NoFile /\ record = NoFile
    /\ target = [f \in File |-> NoFile] /\ journal = <<>>
    /\ partial = [c \in Companion |-> NoFile]
    /\ final = [c \in Companion |-> NoFile]
    /\ edits = 0 /\ faults = 0 /\ foreign = 0

Goto(p, step) == at' = [at EXCEPT ![p] = step]
Refuse(p) ==
    /\ Goto(p, "stopped")
    /\ UNCHANGED <<inputVars, passed, snap, todo, held, outVars, faults, foreign>>

-----------------------------------------------------------------------------
(* The source *)

\* `inventory`: it begins with the root.
BeginWalk(p, step) ==
    /\ Goto(p, step)
    /\ todo' = [todo EXCEPT ![p] = {Top}]
    /\ found' = [found EXCEPT ![p] = {}]
    /\ seen' = [seen EXCEPT ![p] = [f \in File |-> {Content(source)[f]}]]
    /\ UNCHANGED <<sourceVars, stood, passed, snap, held, outVars, faults, foreign>>

\* `plan`.  Its caller has walked the source too, at any time before; `plan`
\* compares that inventory with one of its own, and begins anew.
Plan(p) ==
    /\ at[p] = "idle" /\ p \in bound.migrators
    /\ \/ BeginWalk(p, "inventory")
       \/ edits > 0 /\ Refuse(p)

\* `verify_source`.
Reopen(p) == at[p] = "match" /\ BeginWalk(p, "walk")

\* The names in a directory are read at once; what each of them is, when its
\* turn comes.
Walk(p) ==
    /\ at[p] \in {"inventory", "walk"} /\ todo[p] # {}
    /\ LET x == First(WalkOrder, todo[p])
       IN  IF x \notin Present \cup standing THEN Refuse(p)
           ELSE /\ found' = [found EXCEPT ![p] = @ \cup ({x} \cap File)]
                /\ todo' = [todo EXCEPT ![p] = (@ \ {x}) \cup
                      (IF x \in File THEN {} ELSE Children(x) \cap (Present \cup standing))]
                /\ UNCHANGED <<sourceVars, seen, stood, at, passed, snap, held, outVars,
                               faults, foreign>>

\* The files that were found are read, to plan with them.
Inventory(p) ==
    /\ at[p] = "inventory" /\ todo[p] = {}
    /\ Goto(p, "snapshot")
    /\ todo' = [todo EXCEPT ![p] = found[p]]
    /\ UNCHANGED <<inputVars, passed, snap, held, outVars, faults, foreign>>

Snapshot(p) ==
    /\ at[p] = "snapshot"
    /\ IF todo[p] = {}
       THEN /\ Goto(p, "match")
            /\ stood' = [stood EXCEPT ![p] = {Content(source)}]
            /\ seen' = [seen EXCEPT ![p] = Unseen]
            /\ UNCHANGED <<sourceVars, found, passed, snap, todo, held, outVars, faults,
                           foreign>>
       ELSE LET f == First(WalkOrder, todo[p])
            IN  IF source[f] = NoFile THEN Refuse(p)
                ELSE /\ snap' = [snap EXCEPT ![p] =
                            [g \in DOMAIN @ \cup {f} |-> IF g = f THEN source[f] ELSE @[g]]]
                     /\ todo' = [todo EXCEPT ![p] = @ \ {f}]
                     /\ UNCHANGED <<inputVars, at, passed, held, outVars, faults,
                                    foreign>>

\* match_inventory; the snapshot is then taken anew.
MatchInventory(p) ==
    /\ at[p] = "walk" /\ todo[p] = {}
    /\ IF found[p] # DOMAIN snap[p] THEN Refuse(p)
       ELSE /\ Goto(p, "fingerprint")
            /\ todo' = [todo EXCEPT ![p] = found[p]]
            /\ UNCHANGED <<inputVars, passed, snap, held, outVars, faults, foreign>>

\* Mutant: the bytes are compared, but not the stamp.
SameBytes(p, f) == source[f] # NoFile /\ source[f].bytes = snap[p][f].bytes
Same(p, f) == source[f] = snap[p][f]

Fingerprint(p) ==
    /\ at[p] = "fingerprint"
    /\ IF todo[p] = {}
       THEN /\ passed' = [passed EXCEPT ![p] = @ + 1]
            /\ Goto(p, After[passed'[p]])
            /\ seen' = [seen EXCEPT ![p] = Unseen]
            /\ UNCHANGED <<sourceVars, stood, found, snap, todo, held, outVars, faults,
                           foreign>>
       ELSE LET f == First(WalkOrder, todo[p])
            IN  IF ~Same(p, f) THEN Refuse(p)
                ELSE /\ todo' = [todo EXCEPT ![p] = @ \ {f}]
                     /\ UNCHANGED <<inputVars, at, passed, snap, held, outVars,
                                    faults, foreign>>

-----------------------------------------------------------------------------
(* The output *)

\* `preflight`: everything that will be written is absent.
Clear ==
    /\ root = NoFile
    /\ \A c \in Companion : partial[c] = NoFile /\ final[c] = NoFile

Preflight(p) ==
    /\ at[p] = "preflight"
    /\ IF Clear
       THEN /\ Goto(p, "create")
            /\ UNCHANGED <<inputVars, passed, snap, todo, held, outVars, faults, foreign>>
       ELSE Refuse(p)

\* CdbDatastore::create: `create_dir` fails where the directory exists.
\* Mutant: `create_dir_all`.
CreateAny(p) ==
    /\ at[p] = "create"
    /\ Goto(p, "records")
    /\ root' = p
    /\ UNCHANGED <<inputVars, passed, snap, todo, held, record, target, journal,
                   partial, final, faults, foreign>>
\* Mutant: a failed creation removes the directory, whoever made it.
CreateCleaningUp(p) ==
    /\ at[p] = "create"
    /\ IF root # NoFile
       THEN /\ Goto(p, "stopped")
            /\ root' = NoFile /\ record' = NoFile
            /\ target' = [f \in File |-> NoFile]
            /\ UNCHANGED <<inputVars, passed, snap, todo, held, journal, partial,
                           final, faults, foreign>>
       ELSE /\ Goto(p, "records")
            /\ root' = p
            /\ UNCHANGED <<inputVars, passed, snap, todo, held, record, target,
                           journal, partial, final, faults, foreign>>
Create(p) ==
    /\ at[p] = "create"
    /\ IF root # NoFile THEN Refuse(p)
       ELSE /\ Goto(p, "records")
            /\ root' = p
            /\ UNCHANGED <<inputVars, passed, snap, todo, held, record, target, journal,
                           partial, final, faults, foreign>>

WriteRecords(p) ==
    /\ at[p] = "records"
    /\ IF record # NoFile THEN Refuse(p)
       ELSE /\ Goto(p, "copy")
            /\ record' = p
            /\ todo' = [todo EXCEPT ![p] = DOMAIN snap[p]]
            /\ UNCHANGED <<inputVars, passed, snap, held, root, target, journal, partial,
                           final, faults, foreign>>

\* A move: the source is a regular file, the target is absent; read.
Read(p) ==
    /\ at[p] = "copy"
    /\ IF todo[p] = {}
       THEN /\ Goto(p, "match")
            /\ UNCHANGED <<inputVars, passed, snap, todo, held, outVars, faults, foreign>>
       ELSE LET f == First(CopyOrder, todo[p])
            IN  IF source[f] = NoFile \/ target[f] # NoFile THEN Refuse(p)
                ELSE /\ Goto(p, "apply")
                     /\ held' = [held EXCEPT ![p] = source[f].bytes]
                     /\ UNCHANGED <<inputVars, passed, snap, todo, outVars, faults, foreign>>

\* apply_collection, which refuses an asset that exists.
Apply(p) ==
    /\ at[p] = "apply"
    /\ LET f == First(CopyOrder, todo[p])
       IN  IF target[f] # NoFile THEN Refuse(p)
           ELSE /\ target' = [target EXCEPT ![f] = held[p]]
                /\ journal' = Append(journal, f)
                /\ Goto(p, "compare")
                /\ UNCHANGED <<inputVars, passed, snap, todo, held, root, record, partial,
                               final, faults, foreign>>

\* `verify_bytes`, and the address of a tile.
Compare(p) ==
    /\ at[p] = "compare"
    /\ LET f == First(CopyOrder, todo[p])
       IN  IF source[f] # NoFile /\ source[f].bytes = target[f]
           THEN /\ Goto(p, "copy")
                /\ todo' = [todo EXCEPT ![p] = @ \ {f}]
                /\ UNCHANGED <<inputVars, passed, snap, held, outVars, faults, foreign>>
           ELSE Refuse(p)

\* The records are read back and the datastore validated.
Validate(p) ==
    /\ at[p] = "validate"
    /\ IF record = NoFile THEN Refuse(p)
       ELSE /\ Goto(p, "match")
            /\ UNCHANGED <<inputVars, passed, snap, todo, held, outVars, faults, foreign>>

\* `stage_json`: create_new.
Stage(p, c, next) ==
    IF partial[c] # NoFile THEN Refuse(p)
    ELSE /\ partial' = [partial EXCEPT ![c] = p]
         /\ Goto(p, next)
         /\ UNCHANGED <<inputVars, passed, snap, todo, held, root, record, target, journal,
                        final, faults, foreign>>
StageDescriptor(p) ==
    at[p] = "stage_descriptor" /\ Stage(p, "descriptor", "stage_report")
StageReport(p) ==
    at[p] = "stage_report" /\ Stage(p, "report", "match")

\* `publish`: hard_link, which fails where the name exists; the staged name is
\* removed if it can be.
\* Mutant: renamed into place, over whatever is there.
PublishReplacing(p, c, next) ==
    /\ final' = [final EXCEPT ![c] = p]
    /\ partial' = [partial EXCEPT ![c] = NoFile]
    /\ Goto(p, next)
    /\ UNCHANGED <<inputVars, passed, snap, todo, held, root, record, target, journal,
                   faults, foreign>>
\* Mutant: a name that is taken is no failure.
PublishUnlessThere(p, c, next) ==
    /\ final' = [final EXCEPT ![c] = IF @ = NoFile THEN p ELSE @]
    /\ partial' = [partial EXCEPT ![c] = NoFile]
    /\ Goto(p, next)
    /\ UNCHANGED <<inputVars, passed, snap, todo, held, root, record, target, journal,
                   faults, foreign>>
Publish(p, c, next) ==
    IF final[c] # NoFile THEN Refuse(p)
    ELSE /\ final' = [final EXCEPT ![c] = p]
         /\ partial' \in {partial, [partial EXCEPT ![c] = NoFile]}
         /\ Goto(p, next)
         /\ UNCHANGED <<inputVars, passed, snap, todo, held, root, record, target, journal,
                        faults, foreign>>
PublishDescriptor(p) ==
    at[p] = "publish_descriptor" /\ Publish(p, "descriptor", "publish_report")
PublishReport(p) == at[p] = "publish_report" /\ Publish(p, "report", "done")

-----------------------------------------------------------------------------
(* The surroundings *)

\* A failure or an interruption, in the middle of a write too.
Fail(p) ==
    /\ at[p] \notin {"idle", "done", "stopped"} /\ faults < bound.faults
    /\ faults' = faults + 1
    /\ Goto(p, "stopped")
    /\ target' \in {target} \cup
           (LET f == First(CopyOrder, todo[p])
            IN  IF at[p] = "apply" /\ target[f] = NoFile
                THEN {[target EXCEPT ![f] = Torn], [target EXCEPT ![f] = held[p]]}
                ELSE {})
    /\ partial' \in {partial} \cup
           (IF at[p] \in {"stage_descriptor", "stage_report"}
            THEN LET c == IF at[p] = "stage_report" THEN "report" ELSE "descriptor"
                 IN  {[partial EXCEPT ![c] = IF @ = NoFile THEN p ELSE @]}
            ELSE {})
    /\ UNCHANGED <<inputVars, passed, snap, todo, held, root, record, journal, final, foreign>>

\* Somebody changes the source; whoever looks at it may see that.
Change(tree) ==
    /\ edits < bound.edits /\ edits' = edits + 1
    /\ source' = tree
    /\ seen' = [p \in Migrator |-> [f \in File |->
          IF seen[p][f] = {} THEN {} ELSE seen[p][f] \cup {Content(source')[f]}]]
    /\ UNCHANGED <<stood, found, bound, procVars, outVars, faults, foreign>>

\* A file is written, touched or removed,
Edit(f) ==
    /\ "edit" \in bound.kinds
    /\ \E now \in {NoFile} \cup [bytes : bound.bytes, stamp : {edits + 1}] :
          /\ Change([source EXCEPT ![f] = now])
          /\ standing' = IF now = NoFile THEN standing ELSE standing \cup Above[f]
\* a file is moved, over another if there is one,
Moved(f, g) ==
    [h \in File |-> IF h = f THEN NoFile
                    ELSE IF h = g THEN [bytes |-> source[f].bytes, stamp |-> edits + 1]
                    ELSE source[h]]
Move(f, g) ==
    /\ "move" \in bound.kinds
    /\ f # g /\ source[f] # NoFile
    /\ Change(Moved(f, g))
    /\ standing' = standing \cup Above[g]
\* or an empty directory is removed.
RemoveDirectory(d) ==
    /\ "edit" \in bound.kinds
    /\ d \in standing \ {Top} /\ Children(d) \cap (Present \cup standing) = {}
    /\ Change(source)
    /\ standing' = standing \ {d}

\* Somebody puts a file where a companion will go.
Intrude(c) ==
    /\ foreign < bound.foreign /\ foreign' = foreign + 1
    /\ final[c] = NoFile
    /\ final' = [final EXCEPT ![c] = Outsider]
    /\ UNCHANGED <<inputVars, procVars, root, record, target, journal, partial, faults>>

Proceed(p) ==
    \/ Plan(p) \/ Reopen(p) \/ Walk(p) \/ Inventory(p)
    \/ Snapshot(p) \/ MatchInventory(p) \/ Fingerprint(p)
    \/ Preflight(p) \/ Create(p) \/ WriteRecords(p)
    \/ Read(p) \/ Apply(p) \/ Compare(p)
    \/ Validate(p) \/ StageDescriptor(p) \/ StageReport(p)
    \/ PublishDescriptor(p) \/ PublishReport(p)

Next ==
    \/ \E p \in Migrator : Proceed(p) \/ Fail(p)
    \/ \E f \in File : Edit(f) \/ \E g \in File : Move(f, g)
    \/ \E d \in Directory : RemoveDirectory(d)
    \/ \E c \in Companion : Intrude(c)

Spec == Init /\ [][Next]_vars
\* A process is straight-line code: it goes on until it ends.
FairSpec == Spec /\ \A p \in Migrator : WF_vars(Proceed(p))

-----------------------------------------------------------------------------
(* Properties *)

OwnedBy == {NoFile} \cup Migrator
TypeOK ==
    /\ source \in [File -> {NoFile} \cup Stamped]
    /\ standing \subseteq Directory
    /\ seen \in [Migrator -> [File -> SUBSET (Bytes \cup {NoFile})]]
    /\ stood \in [Migrator -> SUBSET [File -> Bytes \cup {NoFile}]]
    /\ found \in [Migrator -> SUBSET File]
    /\ at \in [Migrator -> Step] /\ passed \in [Migrator -> 0 .. Len(After)]
    /\ DOMAIN snap = Migrator
    /\ \A p \in Migrator : DOMAIN snap[p] \subseteq File
                           /\ \A f \in DOMAIN snap[p] : snap[p][f] \in Stamped
    /\ todo \in [Migrator -> SUBSET (File \cup Directory)]
    /\ held \in [Migrator -> Bytes \cup {NoFile}]
    /\ root \in OwnedBy /\ record \in OwnedBy
    /\ target \in [File -> Bytes \cup {NoFile, Torn}] /\ journal \in Seq(File)
    /\ partial \in [Companion -> OwnedBy]
    /\ final \in [Companion -> OwnedBy \cup {Outsider}]
    /\ bound \in Circumstances /\ edits \in 0 .. bound.edits
    /\ faults \in 0 .. bound.faults /\ foreign \in 0 .. bound.foreign

\* What a plan takes the source to hold, once it is made.
Planned(p) ==
    [f \in File |-> IF f \in DOMAIN snap[p] THEN snap[p][f].bytes ELSE NoFile]
Plans == [p \in Migrator |-> IF stood[p] = {} THEN {} ELSE {Planned(p)}]
\* What the report of a migration stands for.
Published == IF final["report"] \in Migrator THEN target ELSE NoFile

\* "Observable changes are rejected; this is not an atomic snapshot": although
\* files change at any time and no lock is held, the files of a published
\* report were all in the source when the plan was made, with the bytes it
\* has them with; a file it does not have was seen to be absent, at some moment
\* of each of the six looks at the source; and neither a report, once
\* published, nor what it stands for is ever withdrawn or replaced.
Promise ==
    INSTANCE MigrationPromise WITH
        NoReport <- NoFile, now <- Content(source), plan <- Plans, verified <- passed,
        published <- Published
KeepsPromise == Promise!Spec

\* "Failed writes can leave partial output, but no completed migration report":
\* a report comes last, beside the descriptor and the records of the same run,
\* with one committed collection for every file of the plan.
ReportIsLast ==
    \A p \in Migrator :
        final["report"] = p =>
            /\ final["descriptor"] = p /\ root = p /\ record = p
            /\ ToSet(journal) = DOMAIN snap[p] /\ IsInjective(journal)

\* "never overwrite an existing result": a companion in its place stays what
\* it is, whoever put it there.
NeverReplaced ==
    [][\A c \in Companion : final[c] # NoFile => final'[c] = final[c]]_vars

\* Two migrations into one place never mix: once one has made the datastore,
\* every other leaves the output alone.
OneWriter ==
    [][\A p \in Migrator :
           root # NoFile /\ root # p /\ Proceed(p) => UNCHANGED outVars]_vars

\* With a source at rest, no failures and no foreign files, one of the
\* migrations is published, however they race.
Undisturbed == edits = 0 /\ faults = 0 /\ foreign = 0
SomeReport == <>(Undisturbed => final["report"] \in Migrator)
=============================================================================
