---------------------------- MODULE VersionStore ----------------------------
(***************************************************************************)
(* The versioning facade of a CDB datastore: src/datastore.rs with         *)
(* src/versioning.rs and src/datastore/gpkg_versioning.rs.                 *)
(*                                                                         *)
(* One writer applies collections of changes to the live tree and rolls    *)
(* collections back.  A call is a sequence of file-system steps, and any   *)
(* step may be the last one the process takes: the process dies, or the    *)
(* step returns an I/O error.  What survives is the disk: the live tree,   *)
(* the version directories and the global metadata record.                 *)
(***************************************************************************)
EXTENDS Integers, Sequences, FiniteSets

CONSTANTS
    Asset,        \* the valid logical paths, as spelled by a caller
    Place,        \* the physical locations under the datastore root
    At,           \* what `resolve` makes of a spelling
    Above,        \* the directories between the root and a location
    Reserved,     \* the spellings inside versions/ or global_metadata/
    RecordName,   \* the spellings whose extension is the declared encoding
    Bytes,        \* the opaque asset contents
    State,        \* the plain state values
    Instant,      \* the `applied` instants a caller may pass
    SequenceMax,  \* the last id of the v###### space
    Gpkg,         \* TRUE: GeoPackage metadata; FALSE: JSON or XML
    Seeds,        \* the live tree before the first collection
    Offered,      \* the collections the client may ask to apply
    MaxFaults,    \* bound on the interrupted calls of a behaviour
    Absent, Dir, Torn, NoInstant, NoState, NoValue, NoRecord, NoManifest

VARIABLES
    tree,    \* the live tree: location -> what is there
    slot,    \* versions/: sequence -> directory, archive and manifest
    global,  \* the `update` element of the global record, or Torn
    call,    \* the program counter and locals of the running call
    result,  \* what the last call returned
    faults,  \* interruptions so far
    base,    \* history: the attempt last begun and the tree it began on
    asOf,    \* history: the live tree right after each commit
    clean    \* history: no attempt has stopped after its first mutation

vars == <<tree, slot, global, call, result, faults, base, asOf, clean>>
disk == <<tree, slot, global>>
history == <<faults, base, asOf, clean>>

-----------------------------------------------------------------------------
(* Data *)

Sequence == 1 .. SequenceMax
Doc == [updated : Instant \cup {NoInstant}]       \* a resource metadata record
Content == Bytes \cup Doc \cup {Torn}
Node == Content \cup {Absent, Dir}
Tree == [Place -> Node]

Op == {"create", "replace", "delete", "setstate", "clearstate"}
Action == {"created", "replaced", "deleted", "state-set", "state-cleared"}
\* Mutant: a delete archives nothing.
ArchivingReplacesOnly == {"replace"}
Archiving == {"replace", "delete"}
Writing == {"create", "replace"}

Change ==
    {c \in [asset : Asset, op : Op, value : Content \cup State \cup {NoValue},
            record : Asset \cup {NoRecord}] :
        /\ c.op \in Writing => c.value \in Content
        /\ c.op = "setstate" => c.value \in State}
ChangeRecord ==
    [asset : Asset, action : Action, state : State \cup {NoState},
     record : Asset \cup {NoRecord}, archived : BOOLEAN,
     prior : State \cup {NoState}]
Manifest == [applied : Instant, changes : Seq(ChangeRecord)]
Slot ==
    [made : BOOLEAN, archive : Tree, manifest : Manifest \cup {NoManifest, Torn}]

Phase == {"idle", "archive", "mutate", "records", "global", "manifest", "next"}
Outcome == {"none", "running", "committed", "rolledback", "refused", "failed",
            "interrupted"}
Call ==
    [phase : Phase, at : Nat, seq : Nat, pending : Seq(Change),
     changes : Seq(ChangeRecord), applied : Instant \cup {NoInstant},
     rolling : BOOLEAN, undo : Nat, aim : Nat]

\* The bounds are numbers, a location is not above itself, and the marks for
\* "nothing here" are distinct from what they stand in for.
ASSUME StoreAssumption ==
    /\ SequenceMax \in Nat /\ MaxFaults \in Nat
    /\ Gpkg \in BOOLEAN
    /\ At \in [Asset -> Place]
    /\ Above \in [Place -> SUBSET Place]
    /\ \A p \in Place : p \notin Above[p]
    /\ RecordName \subseteq Asset /\ Reserved \subseteq Asset
    /\ Seeds \in Tree
    /\ \A pending \in Offered : pending \in Seq(Change)
    /\ Absent # Dir /\ Absent \notin Content /\ Dir \notin Content
    /\ NoState \notin State /\ NoRecord \notin Asset
    /\ NoManifest \notin Manifest /\ Torn \notin Manifest
    /\ Torn # NoManifest /\ Torn \notin Instant \cup {NoInstant}

IsFile(t, p) == t[p] \notin {Absent, Dir}

\* create_dir_all of the parent, then a write of the whole file.
CanWrite(t, p) == t[p] # Dir /\ \A d \in Above[p] : ~IsFile(t, d)
WithParents(t, p) == [q \in Place |-> IF q \in Above[p] THEN Dir ELSE t[q]]
Written(t, p, c) == [WithParents(t, p) EXCEPT ![p] = c]
Removed(t, p) == [t EXCEPT ![p] = Absent]

-----------------------------------------------------------------------------
(* The journal as `versions` reads it *)

Committed(n) == slot[n].manifest \notin {NoManifest, Torn}
Entries == {n \in Sequence : Committed(n)}
Length == Cardinality(Entries)

\* A torn manifest or global record is a parse error; a gap in the sequence
\* is ManifestSequenceGap.
Contiguous == Entries = 1 .. Length
Readable ==
    /\ \A n \in Sequence : slot[n].manifest # Torn
    /\ global # Torn
    /\ Contiguous
Journal == [n \in 1 .. Length |-> slot[n].manifest]

\* The state of an asset after a journal: the last state action wins.
Largest(S) == CHOOSE m \in S : \A k \in S : k <= m
StateChanges(changes, a) ==
    {i \in DOMAIN changes : /\ changes[i].asset = a
                            /\ changes[i].action \in {"state-set", "state-cleared"}}
StateFrom(journal, a) ==
    LET naming == {n \in DOMAIN journal : StateChanges(journal[n].changes, a) # {}}
        changes == journal[Largest(naming)].changes
        last == changes[Largest(StateChanges(changes, a))]
    IN  IF naming = {} THEN NoState
        ELSE IF last.action = "state-set" THEN last.state ELSE NoState

-----------------------------------------------------------------------------
(* The checks of apply_collection_at *)

\* PendingCollection::validate: one change per asset, compared as spelled.
\* It also refuses invalid paths and blank states: `Asset` and `State` have none.
Valid(pending) ==
    /\ pending # <<>>
    /\ \A i, j \in DOMAIN pending :
          pending[i].asset = pending[j].asset => i = j

\* Mutant: a delete asks for nothing.
PreconditionBarDelete(c) ==
    CASE c.op = "create" -> tree[At[c.asset]] = Absent
      [] c.op = "delete" -> TRUE
      [] OTHER -> IsFile(tree, At[c.asset])
Precondition(c) ==
    CASE c.op = "create" -> tree[At[c.asset]] = Absent
      [] c.op \in {"replace", "delete", "setstate"} -> IsFile(tree, At[c.asset])
      [] c.op = "clearstate" -> /\ IsFile(tree, At[c.asset])
                                /\ StateFrom(Journal, c.asset) # NoState

Sweep(pending) ==
    \A i \in DOMAIN pending :
        LET c == pending[i]
        IN  /\ {c.asset, c.record} \cap Reserved = {}
            /\ Precondition(c)
            /\ c.record # NoRecord => IsFile(tree, At[c.record])

\* prepare_gpkg_collection_metadata: every document is prepared, and every
\* linked record proved writable, before the first mutation.
Prepared(pending) ==
    \A i, j \in DOMAIN pending :
        LET r == pending[i].record
        IN  r # NoRecord => /\ At[r] # At[pending[j].asset]
                            /\ r \in RecordName
                            /\ tree[At[r]] \in Doc

\* Mutants: every directory counts; the latest directory is used again.
NextSequenceByDirectory == Cardinality({n \in Sequence : slot[n].made}) + 1
NextSequenceAgain == IF Length = 0 THEN 1 ELSE Length
NextSequence == Length + 1

Accepts(pending) ==
    /\ Valid(pending)
    /\ Readable
    /\ NextSequence <= SequenceMax
    /\ Sweep(pending)
    /\ Gpkg => Prepared(pending)

ActionOf(op) ==
    CASE op = "create" -> "created"
      [] op = "replace" -> "replaced"
      [] op = "delete" -> "deleted"
      [] op = "setstate" -> "state-set"
      [] op = "clearstate" -> "state-cleared"

ChangeRecordOf(c) ==
    [asset |-> c.asset,
     action |-> ActionOf(c.op),
     state |-> IF c.op = "setstate" THEN c.value ELSE NoState,
     record |-> c.record,
     archived |-> c.op \in Archiving,
     prior |-> IF c.op \in {"setstate", "clearstate"}
               THEN StateFrom(Journal, c.asset) ELSE NoState]

\* Mutant: a deleted asset is restored by a replace.
UndoOpReplacing(c) ==
    CASE c.action = "created" -> "delete"
      [] c.action \in {"replaced", "deleted"} -> "replace"
      [] OTHER -> IF c.prior # NoState THEN "setstate" ELSE "clearstate"
UndoOp(c) ==
    CASE c.action = "created" -> "delete"
      [] c.action = "replaced" -> "replace"
      [] c.action = "deleted" -> "create"
      [] OTHER -> IF c.prior # NoState THEN "setstate" ELSE "clearstate"

\* inverse_ops, in change order, with the archived bytes apply_inverse_of
\* fills in.
InverseOf(n) ==
    [i \in DOMAIN slot[n].manifest.changes |->
        LET c == slot[n].manifest.changes[i]
            op == UndoOp(c)
        IN  [asset |-> c.asset, op |-> op, record |-> c.record,
             value |-> CASE op \in Writing -> slot[n].archive[At[c.asset]]
                         [] op = "setstate" -> c.prior
                         [] OTHER -> NoValue]]
\* Reading those bytes is an I/O error when the archive lacks one.
ArchiveComplete(n) ==
    \A i \in DOMAIN slot[n].manifest.changes :
        LET c == slot[n].manifest.changes[i]
        IN  c.action \in {"replaced", "deleted"}
                => IsFile(slot[n].archive, At[c.asset])

-----------------------------------------------------------------------------
(* Calls *)

Idle ==
    [phase |-> "idle", at |-> 1, seq |-> 1, pending |-> <<>>, changes |-> <<>>,
     applied |-> NoInstant, rolling |-> FALSE, undo |-> 0, aim |-> 0]

Return(outcome) ==
    /\ call' = Idle
    /\ result' = [outcome |-> outcome, to |-> 0]

\* The head of apply_collection_at: every check, then the manifest in memory.
\* A rolling call inverts collections down to, but excluding, `aim`; `undo` is
\* the next one after this.
Begin(pending, applied, rolling, undo, aim) ==
    /\ Accepts(pending)
    /\ call' = [phase |-> "archive", at |-> 1, seq |-> NextSequence,
                pending |-> pending,
                changes |-> [i \in DOMAIN pending |-> ChangeRecordOf(pending[i])],
                applied |-> applied, rolling |-> rolling, undo |-> undo,
                aim |-> aim]
    /\ result' = [outcome |-> "running", to |-> 0]
    /\ base' = [seq |-> NextSequence, tree |-> tree]
    /\ UNCHANGED <<disk, faults, asOf, clean>>

\* Mutant: a refused inverse is tried again.
RefuseAndRetry ==
    result' = [outcome |-> "refused", to |-> 0] /\ UNCHANGED <<disk, call, history>>
Refuse == Return("refused") /\ UNCHANGED <<disk, history>>

\* apply_collection_at.
ApplyCollection(pending, applied) ==
    /\ call.phase = "idle"
    /\ \/ Begin(pending, applied, FALSE, 0, 0)
       \/ ~Accepts(pending) /\ Refuse

\* apply_inverse_of: the inverse of collection n as a new collection.
ApplyInverse(n, applied, undo, aim) ==
    \/ ArchiveComplete(n) /\ Begin(InverseOf(n), applied, TRUE, undo, aim)
    \/ ~(ArchiveComplete(n) /\ Accepts(InverseOf(n))) /\ Refuse

\* rollback_collection_at: only the latest collection.
RollbackCollection(id, applied) ==
    /\ call.phase = "idle"
    /\ \/ Readable /\ id = Length /\ ApplyInverse(id, applied, id - 1, id - 1)
       \/ ~(Readable /\ id = Length) /\ Refuse

\* rollback_to_at: the collections after id, latest first; none is a no-op.
RollbackTo(id, applied) ==
    /\ call.phase = "idle"
    /\ \/ /\ Readable /\ id < Length
          /\ ApplyInverse(Length, applied, Length - 1, id)
       \/ /\ Readable /\ id = Length
          /\ result' = [outcome |-> "rolledback", to |-> id]
          /\ UNCHANGED <<disk, call, history>>
       \/ ~(Readable /\ id <= Length) /\ Refuse

-----------------------------------------------------------------------------
(* The steps of the pipeline *)

Current == call.pending[call.at]
Target == At[Current.asset]

Advance(phase, following) ==
    /\ call.phase = phase
    /\ call' = IF call.at < Len(call.pending)
               THEN [call EXCEPT !.at = @ + 1]
               ELSE [call EXCEPT !.phase = following, !.at = 1]
    /\ UNCHANGED <<result, history>>

\* A step the file system refuses: the call returns the error and leaves
\* what it did.
Blocked(phase) ==
    /\ call.phase = phase
    /\ Return("failed")
    /\ clean' = (clean /\ phase = "archive")
    /\ UNCHANGED <<disk, faults, base, asOf>>

\* Mutants: bytes an interrupted attempt archived are kept; the manifest is
\* written before the tree is changed.
ArchiveFirstCopyWins ==
    /\ Advance("archive", "mutate")
    /\ slot' = [slot EXCEPT
                  ![call.seq].made = TRUE,
                  ![call.seq].archive =
                      IF Current.op \in Archiving /\ @[Target] = Absent
                      THEN Written(@, Target, tree[Target]) ELSE @]
    /\ UNCHANGED <<tree, global>>
ArchivePublishing ==
    /\ Advance("archive", "mutate")
    /\ slot' = [slot EXCEPT
                  ![call.seq].made = TRUE,
                  ![call.seq].archive = IF Current.op \in Archiving
                                        THEN Written(@, Target, tree[Target])
                                        ELSE @,
                  ![call.seq].manifest = [applied |-> call.applied,
                                          changes |-> call.changes]]
    /\ UNCHANGED <<tree, global>>
\* create_dir_all of versions/<id>/, then a copy of the prior bytes.
Archive ==
    /\ Advance("archive", "mutate")
    /\ Current.op \in Archiving => CanWrite(slot[call.seq].archive, Target)
    /\ slot' = [slot EXCEPT
                  ![call.seq].made = TRUE,
                  ![call.seq].archive = IF Current.op \in Archiving
                                        THEN Written(@, Target, tree[Target])
                                        ELSE @]
    /\ UNCHANGED <<tree, global>>
ArchiveBlocked ==
    /\ Blocked("archive")
    /\ Current.op \in Archiving
    /\ ~CanWrite(slot[call.seq].archive, Target)

WriteAsset ==
    /\ Current.op \in Writing
    /\ CanWrite(tree, Target)
    /\ tree' = Written(tree, Target, Current.value)
RemoveAsset ==
    /\ Current.op = "delete"
    /\ IsFile(tree, Target)
    /\ tree' = Removed(tree, Target)
ChangeState ==
    /\ Current.op \in {"setstate", "clearstate"}
    /\ UNCHANGED tree
Mutate ==
    /\ Advance("mutate", "records")
    /\ WriteAsset \/ RemoveAsset \/ ChangeState
    /\ UNCHANGED <<slot, global>>
MutateBlocked ==
    /\ Blocked("mutate")
    /\ \/ Current.op \in Writing /\ ~CanWrite(tree, Target)
       \/ Current.op = "delete" /\ ~IsFile(tree, Target)

\* V3-C.  JSON and XML read the record back and rewrite it in place; the
\* GeoPackage record was prepared by Begin.
Linked == Current.record
RecordUsable == Linked \in RecordName /\ tree[At[Linked]] \in Doc
\* Mutant: a record that bears an instant is left as it is.
RefreshRecordOnce ==
    /\ Advance("records", "global")
    /\ IF Linked = NoRecord \/ (RecordUsable /\ tree[At[Linked]].updated # NoInstant)
       THEN UNCHANGED tree
       ELSE /\ Gpkg \/ RecordUsable
            /\ tree' = [tree EXCEPT ![At[Linked]] = [updated |-> call.applied]]
    /\ UNCHANGED <<slot, global>>
RefreshRecord ==
    /\ Advance("records", "global")
    /\ IF Linked = NoRecord
       THEN UNCHANGED tree
       ELSE /\ Gpkg \/ RecordUsable
            /\ tree' = [tree EXCEPT ![At[Linked]] = [updated |-> call.applied]]
    /\ UNCHANGED <<slot, global>>
RefreshBlocked ==
    /\ Blocked("records")
    /\ Linked # NoRecord /\ ~Gpkg /\ ~RecordUsable

\* V3-B.
RefreshGlobal ==
    /\ call.phase = "global"
    /\ global' = call.applied
    /\ call' = [call EXCEPT !.phase = "manifest"]
    /\ UNCHANGED <<tree, slot, result, history>>

\* The manifest, last: the commit point.  The call returns, or a rollback_to
\* goes on with the next inverse.
Publish ==
    /\ call.phase = "manifest"
    /\ slot' = [slot EXCEPT ![call.seq].manifest =
                  [applied |-> call.applied, changes |-> call.changes]]
    /\ asOf' = [asOf EXCEPT ![call.seq] = tree]
    /\ IF call.undo > call.aim
       THEN call' = [call EXCEPT !.phase = "next"] /\ UNCHANGED result
       ELSE /\ call' = Idle
            /\ result' = IF call.rolling
                         THEN [outcome |-> "rolledback", to |-> call.aim]
                         ELSE [outcome |-> "committed", to |-> 0]
    /\ UNCHANGED <<tree, global, faults, base, clean>>

\* Mutant: the journal is read again, where the code took it at entry.
NextInverseOfLatest ==
    /\ call.phase = "next"
    /\ ApplyInverse(Length, call.applied, call.undo - 1, call.aim)
NextInverse ==
    /\ call.phase = "next"
    /\ ApplyInverse(call.undo, call.applied, call.undo - 1, call.aim)

-----------------------------------------------------------------------------
(* Interruptions: the process dies, or a step returns an I/O error *)

Interrupt ==
    /\ call.phase # "idle"
    /\ faults < MaxFaults
    /\ faults' = faults + 1
    /\ Return("interrupted")
    /\ clean' = (clean /\ call.phase \in {"archive", "next"})
    /\ UNCHANGED <<base, asOf>>

Stop == Interrupt /\ UNCHANGED disk

\* A write in place stops half way: the file is there, its content is not.
TearArchive ==
    /\ Interrupt
    /\ call.phase = "archive" /\ Current.op \in Archiving
    /\ CanWrite(slot[call.seq].archive, Target)
    /\ slot' = [slot EXCEPT ![call.seq].made = TRUE,
                            ![call.seq].archive = Written(@, Target, Torn)]
    /\ UNCHANGED <<tree, global>>
TearAsset ==
    /\ Interrupt
    /\ call.phase = "mutate" /\ Current.op \in Writing
    /\ CanWrite(tree, Target)
    /\ tree' \in {WithParents(tree, Target), Written(tree, Target, Torn)}
    /\ UNCHANGED <<slot, global>>

\* JSON and XML documents are rewritten in place; a GeoPackage document is
\* renamed into place and cannot tear.
TearRecord ==
    /\ Interrupt
    /\ call.phase = "records" /\ Linked # NoRecord /\ ~Gpkg /\ RecordUsable
    /\ tree' = [tree EXCEPT ![At[Linked]] = Torn]
    /\ UNCHANGED <<slot, global>>
TearGlobal ==
    /\ Interrupt
    /\ call.phase = "global" /\ ~Gpkg
    /\ global' = Torn
    /\ UNCHANGED <<tree, slot>>
TearManifest ==
    /\ Interrupt
    /\ call.phase = "manifest" /\ ~Gpkg
    /\ slot' = [slot EXCEPT ![call.seq].manifest = Torn]
    /\ UNCHANGED <<tree, global>>

-----------------------------------------------------------------------------
(* Specification *)

NoFiles == [p \in Place |-> Absent]

Init ==
    /\ tree = Seeds
    /\ slot = [n \in Sequence |->
                  [made |-> FALSE, archive |-> NoFiles, manifest |-> NoManifest]]
    /\ global = NoInstant
    /\ call = Idle
    /\ result = [outcome |-> "none", to |-> 0]
    /\ faults = 0
    /\ base = [seq |-> 0, tree |-> Seeds]
    /\ asOf = [n \in 0 .. SequenceMax |-> Seeds]
    /\ clean = TRUE

Client ==
    \/ \E pending \in Offered, applied \in Instant :
          ApplyCollection(pending, applied)
    \/ \E id \in Sequence, applied \in Instant :
          RollbackCollection(id, applied) \/ RollbackTo(id, applied)

Pipeline ==
    \/ Archive \/ ArchiveBlocked
    \/ Mutate \/ MutateBlocked
    \/ RefreshRecord \/ RefreshBlocked
    \/ RefreshGlobal
    \/ Publish
    \/ NextInverse

Fault ==
    \/ Stop
    \/ TearArchive \/ TearAsset \/ TearRecord \/ TearGlobal \/ TearManifest

Next == Client \/ Pipeline \/ Fault

Spec == Init /\ [][Next]_vars

\* The pipeline is straight-line code: a call that is running takes its next
\* step.
FairSpec == Spec /\ WF_vars(Pipeline)

-----------------------------------------------------------------------------
(* What the facade is held to *)

\* Every variable stays within its type.
TypeOK ==
    /\ tree \in Tree
    /\ slot \in [Sequence -> Slot]
    /\ global \in Instant \cup {NoInstant, Torn}
    /\ call \in Call
    /\ result \in [outcome : Outcome, to : Nat]
    /\ faults \in Nat
    /\ base \in [seq : 0 .. SequenceMax, tree : Tree]
    /\ asOf \in [0 .. SequenceMax -> Tree]
    /\ clean \in BOOLEAN

-----------------------------------------------------------------------------
(* The datastores whose assets have places of their own *)

\* One spelling for each file, no asset below another, and a tree to begin
\* with that has directories above the assets and none where they are.
Housed(t) ==
    \A a \in Asset : t[At[a]] # Dir /\ \A d \in Above[At[a]] : ~IsFile(t, d)
OwnPlaces ==
    /\ \A a, b \in Asset : At[a] = At[b] => a = b
    /\ \A a, b \in Asset : At[a] \notin Above[At[b]]
    /\ Housed(Seeds)

-----------------------------------------------------------------------------
(* The journal *)

\* The committed collections are numbered 1, 2, ... without a gap, whatever
\* attempts were interrupted: versions() never reports ManifestSequenceGap.
JournalContiguous == Contiguous

\* An interrupted call never leaves a journal that versions() cannot read, so
\* the store can always be used again after a crash.
JournalReadable == Readable

\* The manifest is there whole or not at all: an interrupted apply leaves an
\* uncommitted directory that the journal skips.
ManifestWhole == \A n \in Sequence : slot[n].manifest # Torn

\* Once its manifest is published, a collection's directory never changes: no
\* later apply, rollback or crash touches its archive or its manifest.
CommittedIsFinal ==
    [][\A n \in Sequence : Committed(n) => slot'[n] = slot[n]]_vars

\* The bytes that an attempt found where it replaced or deleted a file are, once
\* it has committed, what its archive holds there: whatever an interrupted
\* attempt left in the same directory or in the tree before, and also where two
\* spellings of one path are archived in one place.
ArchivedAsFound ==
    base.seq \in Entries =>
        \A i \in DOMAIN slot[base.seq].manifest.changes :
            LET c == slot[base.seq].manifest.changes[i]
            IN  c.action \in {"replaced", "deleted"} =>
                    slot[base.seq].archive[At[c.asset]] = base.tree[At[c.asset]]

-----------------------------------------------------------------------------
(* Rollback *)

\* What is at a place, up to the `updated` element V3-C keeps moving.
Blurred(node) ==
    IF node \in {Absent, Dir} THEN Absent
    ELSE IF node \in Doc THEN [updated |-> NoInstant] ELSE node
Files(t) == [p \in Place |-> Blurred(t[p])]
States(n) == [a \in Asset |-> StateFrom(SubSeq(Journal, 1, n), a)]

\* A completed rollback leaves every file and every asset state as they were
\* when the target collection had just been applied; also when earlier
\* rollbacks were interrupted between two inverses.
RollbackRestores ==
    result.outcome = "rolledback" /\ clean
        => /\ Files(tree) = Files(asOf[result.to])
           /\ States(Length) = States(result.to)

\* In the descending order of rollback_to, each inverse's preconditions hold
\* when its turn comes.
TailUndoable ==
    call.phase = "next" /\ clean /\ Length < SequenceMax
        => ArchiveComplete(call.undo) /\ Accepts(InverseOf(call.undo))

-----------------------------------------------------------------------------
(* A call as a whole *)

\* Every check precedes every mutation: a call whose checks passed is never
\* refused by the file system half way.
NoLateFailure == result.outcome # "failed"

\* V3-A: after a commit one instant stands in the manifest, in the global
\* record and in every record the collection links, and no instant of an
\* earlier collection or of an attempt that was interrupted, until the next
\* attempt begins.
TimestampsAgree ==
    base.seq \in Entries =>
        LET m == slot[base.seq].manifest
        IN  /\ global = m.applied
            /\ \A i \in DOMAIN m.changes :
                  LET r == m.changes[i].record
                  IN  r # NoRecord => tree[At[r]] = [updated |-> m.applied]

\* While the journal is undamaged each archive holds exactly what the file was
\* before its collection, not what an interrupted attempt made of it.
ArchivesPriorContent ==
    clean => \A n \in Entries : \A i \in DOMAIN slot[n].manifest.changes :
                LET c == slot[n].manifest.changes[i]
                IN  c.archived => slot[n].archive[At[c.asset]]
                                      = asOf[n - 1][At[c.asset]]

Kept(p) ==
    IsFile(base.tree, p)
        => \/ Blurred(tree[p]) = Blurred(base.tree[p])
           \/ slot[base.seq].archive[p] = base.tree[p]

\* Wherever an attempt stops, every file it found is still in place or in the
\* attempt's archive, until the next attempt begins.
NothingLost == base.seq # 0 => \A p \in Place : Kept(p)

-----------------------------------------------------------------------------
(* Liveness and refinement *)

\* A running call returns, however many inverses a rollback has to apply.
CallReturns == call.phase # "idle" ~> call.phase = "idle"

Settled == IF call.phase \in {"idle", "next"} THEN tree ELSE base.tree

History ==
    INSTANCE VersionHistory WITH
        None <- Absent,
        log <- Journal,
        content <- Files(Settled)

\* The pipeline implements the history of revisions: a collection commits in
\* one step, and its manifest documents exactly the files that changed.
ImplementsHistory == History!Spec

-----------------------------------------------------------------------------
(* The inductive invariant: what links the running call to the disk *)

Stepping == call.phase \in {"archive", "mutate", "records"}
Attempting == Stepping \/ call.phase \in {"global", "manifest"}

\* The running attempt works in the first uncommitted directory, and its
\* manifest in memory documents its pending changes.
CallConsistent ==
    /\ call.undo <= Length
    /\ call.phase # "idle" => call.applied \in Instant
    /\ call.phase = "next" => call.aim < call.undo
    /\ Stepping => call.at \in DOMAIN call.pending
    /\ Attempting =>
          /\ call.seq = Length + 1 /\ call.seq \in Sequence
          /\ base.seq = call.seq
          /\ slot[call.seq].manifest = NoManifest
          /\ Len(call.changes) = Len(call.pending)
          /\ \A i \in DOMAIN call.pending :
                /\ call.changes[i].asset = call.pending[i].asset
                /\ call.changes[i].action = ActionOf(call.pending[i].op)

\* The changes whose prior bytes are in the archive by now.
ArchivedSoFar ==
    IF call.phase = "archive" THEN 1 .. call.at - 1 ELSE DOMAIN call.pending

\* Nothing is mutated before everything is archived.
ArchiveProgress ==
    Attempting =>
        /\ call.phase = "archive" => tree = base.tree
        /\ \A i \in DOMAIN call.pending :
              LET p == At[call.pending[i].asset]
              IN  /\ call.pending[i].op \in Archiving => IsFile(base.tree, p)
                  /\ call.pending[i].op = "create" => base.tree[p] = Absent
                  /\ i \in ArchivedSoFar /\ call.pending[i].op \in Archiving
                        => slot[call.seq].archive[p] = base.tree[p]

\* A rollback finds a file wherever it reads an archive.
ArchivesComplete == \A n \in Entries : ArchiveComplete(n)

\* A GeoPackage store has no torn document.
NeverTorn == Gpkg => global # Torn /\ ManifestWhole

IInv ==
    /\ TypeOK
    /\ Contiguous
    /\ CallConsistent
    /\ ArchiveProgress
    /\ ArchivesComplete
    /\ NeverTorn

=============================================================================
