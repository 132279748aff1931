------------------------- MODULE VersionStoreProofs -------------------------
(***************************************************************************)
(* Theorems about the versioning facade, for every set of spellings and    *)
(* locations, every client and every number of interruptions: the journal  *)
(* is well formed and final, nothing an attempt found is lost, timestamps  *)
(* agree, archives hold the prior content, checked calls do not fail half  *)
(* way, a rollback restores what it says, and the pipeline implements the  *)
(* history of revisions.                                                   *)
(*                                                                         *)
(* The invariants come in layers, each proved with the ones before it: the *)
(* journal (IInv), what an attempt knows of what it began on (KInv), what  *)
(* it has done to the tree (HInv), and what a rollback finds (RInv).  The  *)
(* last two need that the locations of the assets are their own            *)
(* (OwnPlaces): two spellings of one file, or an asset below another, can  *)
(* make a collection whose inverse is refused.                             *)
(***************************************************************************)
EXTENDS VersionStore, FiniteSetTheorems, SequenceTheorems,
        WellFoundedInduction, TLAPS

-----------------------------------------------------------------------------
(* The operators the model is built from *)

\* A non-empty bounded set of naturals has a largest element: `Largest` is
\* well defined wherever StateFrom uses it.
LEMMA LargestExists ==
    ASSUME NEW S \in SUBSET Nat, S # {}, NEW N \in Nat, \A k \in S : k <= N
    PROVE  Largest(S) \in S /\ \A k \in S : k <= Largest(S)
<1> DEFINE T == {x \in Nat : N - x \in S}
           R == OpToRel(<, Nat)
<1>1. PICK k \in S : TRUE
  OBVIOUS
<1>2. N - k \in T
  BY <1>1
<1>3. IsWellFoundedOn(R, Nat)
  BY NatLessThanWellFounded
<1>4. PICK x \in T : \A y \in T : ~(<<y, x>> \in R)
  <2> HIDE DEF R
  <2> QED
    BY <1>2, <1>3, WFMin
<1>5. \A y \in T : ~(y < x)
  BY <1>4 DEF OpToRel
<1>6. N - x \in S /\ \A j \in S : j <= N - x
  <2>1. N - x \in S
    BY <1>4
  <2>2. SUFFICES ASSUME NEW j \in S PROVE j <= N - x
    BY <2>1
  <2>3. N - j \in T
    OBVIOUS
  <2>4. ~(N - j < x)
    BY <1>5, <2>3
  <2>5. x \in Nat /\ j \in Nat
    BY <1>4
  <2> QED
    BY <2>4, <2>5
<1> QED
  BY <1>6 DEF Largest

\* Replaying a well-typed journal yields a state or none.
LEMMA StateFromType ==
    ASSUME NEW journal, NEW k \in Nat, DOMAIN journal = 1 .. k,
           \A n \in 1 .. k : journal[n].changes \in Seq(ChangeRecord),
           NEW a
    PROVE  StateFrom(journal, a) \in State \cup {NoState}
<1> DEFINE naming == {n \in DOMAIN journal : StateChanges(journal[n].changes, a) # {}}
           m == Largest(naming)
           changes == journal[m].changes
           events == StateChanges(changes, a)
           last == changes[Largest(events)]
<1>1. CASE naming = {}
  BY <1>1 DEF StateFrom
<1>2. CASE naming # {}
  <2>0. naming \in SUBSET Nat /\ \A n \in naming : n <= k
    OBVIOUS
  <2>1. m \in naming
    <3> HIDE DEF naming
    <3> QED
      BY <1>2, <2>0, LargestExists
  <2>2. changes \in Seq(ChangeRecord) /\ events # {}
    BY <2>1
  <2>3. DOMAIN changes = 1 .. Len(changes) /\ Len(changes) \in Nat
    BY <2>2, LenProperties
  <2>4. events \in SUBSET Nat /\ \A i \in events : i <= Len(changes)
    <3>1. events \subseteq DOMAIN changes
      BY DEF StateChanges
    <3> HIDE DEF events, changes
    <3> QED
      BY <2>3, <3>1
  <2>5. Largest(events) \in events
    <3> HIDE DEF events
    <3>1. Len(changes) \in Nat
      BY <2>3
    <3> HIDE DEF changes
    <3> QED
      BY <3>1, <2>2, <2>4, LargestExists
  <2>6. last \in ChangeRecord
    <3>1. Largest(events) \in 1 .. Len(changes)
      BY <2>3, <2>5 DEF StateChanges
    <3> HIDE DEF events, changes
    <3> QED
      BY <2>2, <3>1, ElementOfSeq
  <2>7. last.state \in State \cup {NoState}
    <3> HIDE DEF last
    <3> QED
      BY <2>6 DEF ChangeRecord
  <2>8. StateFrom(journal, a) = IF last.action = "state-set" THEN last.state ELSE NoState
    BY <1>2 DEF StateFrom
  <2> QED
    BY <2>7, <2>8
<1> QED
  BY <1>1, <1>2

\* A contiguous journal has as many entries as its last number.
LEMMA LengthIs ==
    ASSUME NEW k \in Nat, Entries = 1 .. k
    PROVE  Length = k
BY FS_Interval DEF Length

LEMMA LengthType ==
    Length \in 0 .. SequenceMax
<1>1. SequenceMax \in Nat
  BY StoreAssumption
<1>2. IsFiniteSet(Sequence) /\ Cardinality(Sequence) = SequenceMax
  BY <1>1, FS_Interval DEF Sequence
<1>3. Entries \in SUBSET Sequence
  BY DEF Entries
<1>4. Cardinality(Entries) \in Nat /\ Cardinality(Entries) <= Cardinality(Sequence)
  BY <1>2, <1>3, FS_Subset, FS_CardinalityType
<1> QED
  BY <1>1, <1>2, <1>4 DEF Length

\* Writing a file keeps the tree a tree and every other file as it was.
LEMMA WrittenTree ==
    ASSUME NEW t \in Tree, NEW p \in Place, NEW c \in Content
    PROVE  /\ Written(t, p, c) \in Tree
           /\ WithParents(t, p) \in Tree
           /\ Written(t, p, c)[p] = c
           /\ CanWrite(t, p) =>
                \A q \in Place : q # p /\ IsFile(t, q) => Written(t, p, c)[q] = t[q]
           /\ CanWrite(t, p) =>
                \A q \in Place : IsFile(t, q) => WithParents(t, p)[q] = t[q]
BY StoreAssumption DEF Written, WithParents, Tree, Node, CanWrite, IsFile

LEMMA ContentIsFile ==
    ASSUME NEW t, NEW p, t[p] \in Node
    PROVE  IsFile(t, p) <=> t[p] \in Content
BY StoreAssumption DEF IsFile, Node

LEMMA SeqFromFunction ==
    ASSUME NEW S, NEW n \in Nat, NEW f \in [1 .. n -> S]
    PROVE  f \in Seq(S) /\ Len(f) = n /\ DOMAIN f = 1 .. n
<1>1. f \in Seq(S)
  BY SeqDef
<1>2. Len(f) \in Nat /\ DOMAIN f = 1 .. Len(f)
  BY <1>1, LenProperties
<1>3. 1 .. n = 1 .. Len(f)
  BY <1>2
<1>4. ASSUME NEW k \in Nat PROVE Cardinality(1 .. k) = k
  BY FS_Interval
<1> QED
  BY <1>1, <1>2, <1>3, <1>4, Zenon

\* The manifest built from well-typed pending changes is well typed.
LEMMA ChangesType ==
    ASSUME TypeOK, Contiguous, NEW pending \in Seq(Change)
    PROVE  LET changes == [i \in DOMAIN pending |-> ChangeRecordOf(pending[i])]
           IN  /\ changes \in Seq(ChangeRecord)
               /\ Len(changes) = Len(pending)
               /\ \A i \in DOMAIN pending :
                     /\ changes[i].asset = pending[i].asset
                     /\ changes[i].action = ActionOf(pending[i].op)
<1>1. Len(pending) \in Nat /\ DOMAIN pending = 1 .. Len(pending)
  BY LenProperties
<1>2. ASSUME NEW a PROVE StateFrom(Journal, a) \in State \cup {NoState}
  <2>1. Length \in Nat /\ Length <= SequenceMax
    BY LengthType, StoreAssumption
  <2>2. DOMAIN Journal = 1 .. Length
    BY DEF Journal
  <2>3. ASSUME NEW n \in 1 .. Length PROVE Journal[n].changes \in Seq(ChangeRecord)
    <3>1. n \in Sequence /\ slot[n].manifest \notin {NoManifest, Torn}
      BY DEF Contiguous, Entries, Committed
    <3>2. slot[n].manifest \in Manifest
      BY <3>1 DEF TypeOK, Slot
    <3> QED
      BY <3>2 DEF Journal, Manifest
  <2> QED
    BY <2>1, <2>2, <2>3, StateFromType
<1>3. ASSUME NEW i \in 1 .. Len(pending)
      PROVE  ChangeRecordOf(pending[i]) \in ChangeRecord
  <2>1. pending[i] \in Change
    BY ElementOfSeq
  <2>2. StateFrom(Journal, pending[i].asset) \in State \cup {NoState}
    BY <1>2
  <2> QED
    BY <2>1, <2>2
    DEF ChangeRecordOf, ChangeRecord, Change, ActionOf, Action, Op, Archiving
<1>4. [i \in DOMAIN pending |-> ChangeRecordOf(pending[i])]
        \in [1 .. Len(pending) -> ChangeRecord]
  BY <1>1, <1>3
<1>5. \A i \in DOMAIN pending :
        /\ ChangeRecordOf(pending[i]).asset = pending[i].asset
        /\ ChangeRecordOf(pending[i]).action = ActionOf(pending[i].op)
  BY DEF ChangeRecordOf
<1> QED
  BY <1>1, <1>4, <1>5, SeqFromFunction

\* The inverse of a committed collection is a well-typed collection.
LEMMA InverseType ==
    ASSUME TypeOK, NEW n \in Sequence, Committed(n), ArchiveComplete(n)
    PROVE  InverseOf(n) \in Seq(Change)
<1> DEFINE changes == slot[n].manifest.changes
<1>1. changes \in Seq(ChangeRecord) /\ slot[n].archive \in Tree
  BY DEF TypeOK, Slot, Committed, Manifest
<1>2. Len(changes) \in Nat /\ DOMAIN changes = 1 .. Len(changes)
  BY <1>1, LenProperties
<1>3. ASSUME NEW i \in 1 .. Len(changes)
      PROVE  InverseOf(n)[i] \in Change
  <2> DEFINE c == changes[i]
  <2>1. c \in ChangeRecord
    BY <1>1, ElementOfSeq
  <2>2. UndoOp(c) \in Op /\ (UndoOp(c) = "setstate" => c.prior \in State)
    BY <2>1 DEF UndoOp, Op, ChangeRecord, Action
  <2>3. UndoOp(c) \in Writing => c.action \in {"replaced", "deleted"}
    BY <2>1 DEF UndoOp, Writing
  <2>4. At[c.asset] \in Place
    BY <2>1, StoreAssumption DEF ChangeRecord
  <2>5. UndoOp(c) \in Writing => slot[n].archive[At[c.asset]] \in Content
    <3>1. slot[n].archive[At[c.asset]] \in Node
      BY <1>1, <2>4 DEF Tree
    <3>2. SUFFICES ASSUME c.action \in {"replaced", "deleted"}
                   PROVE  slot[n].archive[At[c.asset]] \in Content
      BY <2>3
    <3>3. IsFile(slot[n].archive, At[c.asset])
      BY <1>2, <3>2 DEF ArchiveComplete
    <3> QED
      BY <3>1, <3>3, ContentIsFile
  <2>6. InverseOf(n)[i] =
          [asset |-> c.asset, op |-> UndoOp(c), record |-> c.record,
           value |-> CASE UndoOp(c) \in Writing -> slot[n].archive[At[c.asset]]
                       [] UndoOp(c) = "setstate" -> c.prior
                       [] OTHER -> NoValue]
    BY <1>2 DEF InverseOf
  <2> DEFINE op == UndoOp(c)
             value == CASE op \in Writing -> slot[n].archive[At[c.asset]]
                        [] op = "setstate" -> c.prior
                        [] OTHER -> NoValue
  <2>7. /\ value \in Content \cup State \cup {NoValue}
        /\ op \in Writing => value \in Content
        /\ op = "setstate" => value \in State
    <3> HIDE DEF op, c
    <3> QED
      BY <2>2, <2>5 DEF Writing, op
  <2>8. c.asset \in Asset /\ c.record \in Asset \cup {NoRecord} /\ op \in Op
    BY <2>1, <2>2 DEF ChangeRecord
  <2>9. InverseOf(n)[i]
          = [asset |-> c.asset, op |-> op, record |-> c.record, value |-> value]
    BY <2>6
  <2> HIDE DEF c, op, value
  <2> QED
    BY <2>7, <2>8, <2>9 DEF Change
<1>4. InverseOf(n) \in [1 .. Len(changes) -> Change]
  BY <1>2, <1>3 DEF InverseOf
<1> QED
  BY <1>2, <1>4, SeqFromFunction

-----------------------------------------------------------------------------
(* What the steps have in common *)

\* A step that leaves every committed directory alone and commits nothing
\* leaves the journal as it was.
LEMMA JournalKept ==
    ASSUME \A n \in Sequence : Committed(n) => slot'[n] = slot[n],
           \A n \in Sequence : Committed(n)' => Committed(n)
    PROVE  /\ Entries' = Entries
           /\ Length' = Length
           /\ Contiguous => Contiguous'
           /\ ArchivesComplete => ArchivesComplete'
<1>1. Entries' = Entries
  BY DEF Entries, Committed
<1>2. Length' = Length
  BY <1>1 DEF Length
<1>3. Contiguous => Contiguous'
  BY <1>1, <1>2 DEF Contiguous
<1>4. ASSUME ArchivesComplete, NEW n \in Entries PROVE ArchiveComplete(n)'
  <2>1. slot'[n] = slot[n]
    BY DEF Entries
  <2>2. ArchiveComplete(n)
    BY <1>4 DEF ArchivesComplete
  <2> QED
    BY <2>1, <2>2 DEF ArchiveComplete, IsFile
<1> QED
  BY <1>1, <1>2, <1>3, <1>4 DEF ArchivesComplete

LEMMA IdleType == Idle \in Call
BY EmptySeq, StoreAssumption DEF Idle, Call, Phase

\* A call that returns leaves nothing running to be consistent with.
LEMMA ReturnStep ==
    ASSUME IInv, TypeOK', NeverTorn', call' = Idle,
           \A n \in Sequence : Committed(n) => slot'[n] = slot[n],
           \A n \in Sequence : Committed(n)' => Committed(n)
    PROVE  IInv'
<1>1. Contiguous' /\ ArchivesComplete'
  BY JournalKept DEF IInv
<1>2. Length' \in Nat
  BY LengthType, JournalKept, StoreAssumption
<1>3. CallConsistent'
  BY <1>2 DEF CallConsistent, Stepping, Attempting, Idle
<1>4. ArchiveProgress'
  BY DEF ArchiveProgress, Stepping, Attempting, Idle
<1> QED
  BY <1>1, <1>3, <1>4 DEF IInv

LEMMA DiskKept ==
    ASSUME UNCHANGED disk
    PROVE  /\ \A n \in Sequence : Committed(n) => slot'[n] = slot[n]
           /\ \A n \in Sequence : Committed(n)' => Committed(n)
           /\ NeverTorn => NeverTorn'
BY DEF disk, Committed, NeverTorn, ManifestWhole

LEMMA OutcomeType ==
    ASSUME NEW o \in Outcome
    PROVE  [outcome |-> o, to |-> 0] \in [outcome : Outcome, to : Nat]
OBVIOUS

\* A refused call changes nothing but its result.
LEMMA RefuseStep ==
    ASSUME IInv, Refuse
    PROVE  IInv'
<1>1. call' = Idle /\ UNCHANGED disk
  BY DEF Refuse, Return
<1>2. TypeOK'
  BY IdleType, OutcomeType
  DEF Refuse, Return, IInv, TypeOK, disk, history, Outcome
<1> QED
  BY <1>1, <1>2, DiskKept, ReturnStep DEF IInv

\* Beginning an attempt.
LEMMA BeginStep ==
    ASSUME IInv, NEW pending \in Seq(Change), NEW applied \in Instant,
           NEW rolling \in BOOLEAN, NEW undo \in Nat, NEW aim \in Nat,
           undo <= Length, Begin(pending, applied, rolling, undo, aim)
    PROVE  IInv'
<1> DEFINE changes == [i \in DOMAIN pending |-> ChangeRecordOf(pending[i])]
<1>1. UNCHANGED disk
  BY DEF Begin
<1>2. /\ Contiguous' /\ ArchivesComplete' /\ NeverTorn'
      /\ Length' = Length
  BY <1>1, DiskKept, JournalKept DEF IInv
<1>3. /\ changes \in Seq(ChangeRecord)
      /\ Len(changes) = Len(pending)
      /\ \A i \in DOMAIN pending : /\ changes[i].asset = pending[i].asset
                                   /\ changes[i].action = ActionOf(pending[i].op)
  BY ChangesType DEF IInv
<1>4. Length \in Nat /\ SequenceMax \in Nat /\ NextSequence = Length + 1
      /\ NextSequence <= SequenceMax
  BY LengthType, StoreAssumption DEF Begin, Accepts, NextSequence
<1>5. pending # <<>> /\ DOMAIN pending = 1 .. Len(pending) /\ Len(pending) \in Nat \ {0}
  BY LenProperties, EmptySeq DEF Begin, Accepts, Valid
<1>6. /\ call' = [phase |-> "archive", at |-> 1, seq |-> NextSequence,
                  pending |-> pending, changes |-> changes, applied |-> applied,
                  rolling |-> rolling, undo |-> undo, aim |-> aim]
      /\ base' = [seq |-> NextSequence, tree |-> tree]
      /\ tree' = tree /\ slot' = slot
  BY DEF Begin, disk
<1>7. TypeOK'
  <2>1. call' \in Call
    <3> HIDE DEF changes
    <3> QED
      BY <1>3, <1>4, <1>6 DEF Call, Phase
  <2>2. base' \in [seq : 0 .. SequenceMax, tree : Tree]
    BY <1>4, <1>6 DEF IInv, TypeOK
  <2> QED
    BY <2>1, <2>2, OutcomeType DEF Begin, IInv, TypeOK, disk, Outcome
<1>8. CallConsistent'
  <2>1. slot[NextSequence].manifest = NoManifest
    <3>1. NextSequence \in Sequence
      BY <1>4 DEF Sequence
    <3>2. NextSequence \notin Entries
      BY <1>4 DEF IInv, Contiguous
    <3>3. ~Committed(NextSequence)
      BY <3>1, <3>2 DEF Entries
    <3>4. slot[NextSequence].manifest # Torn
      BY <3>1 DEF Begin, Accepts, Readable
    <3> QED
      BY <3>3, <3>4 DEF Committed
  <2> HIDE DEF changes
  <2> QED
    BY <1>2, <1>3, <1>4, <1>5, <1>6, <2>1
    DEF CallConsistent, Stepping, Attempting, Sequence
<1>9. ArchiveProgress'
  <2>1. ASSUME NEW i \in DOMAIN pending
        PROVE  /\ pending[i].op \in Archiving => IsFile(tree, At[pending[i].asset])
               /\ pending[i].op = "create" => tree[At[pending[i].asset]] = Absent
    BY DEF Begin, Accepts, Sweep, Precondition, Archiving
  <2> HIDE DEF changes
  <2> QED
    BY <1>6, <2>1 DEF ArchiveProgress, ArchivedSoFar, Attempting, Stepping, IsFile
<1> QED
  BY <1>2, <1>7, <1>8, <1>9 DEF IInv

-----------------------------------------------------------------------------
(* Each action preserves the inductive invariant *)

LEMMA InverseStep ==
    ASSUME IInv, NEW n \in 1 .. Length, NEW applied \in Instant,
           NEW undo \in Nat, NEW aim \in Nat, undo <= Length,
           ApplyInverse(n, applied, undo, aim)
    PROVE  IInv'
<1>1. n \in Sequence /\ Committed(n)
  BY DEF IInv, Contiguous, Entries
<1>2. CASE ArchiveComplete(n) /\ Begin(InverseOf(n), applied, TRUE, undo, aim)
  <2>1. InverseOf(n) \in Seq(Change)
    BY <1>1, <1>2, InverseType DEF IInv
  <2> QED
    BY <1>2, <2>1, BeginStep
<1>3. CASE Refuse
  BY <1>3, RefuseStep
<1> QED
  BY <1>2, <1>3 DEF ApplyInverse

LEMMA ClientStep ==
    ASSUME IInv, Client
    PROVE  IInv'
<1>1. Length \in Nat /\ Length <= SequenceMax
  BY LengthType, StoreAssumption
<1>2. ASSUME NEW pending \in Offered, NEW applied \in Instant,
             ApplyCollection(pending, applied)
      PROVE  IInv'
  <2>1. CASE Begin(pending, applied, FALSE, 0, 0)
    <3>1. pending \in Seq(Change)
      BY StoreAssumption
    <3>2. 0 \in Nat /\ 0 <= Length /\ FALSE \in BOOLEAN
      BY <1>1
    <3> QED
      BY <2>1, <3>1, <3>2, BeginStep
  <2>2. CASE Refuse
    BY <2>2, RefuseStep
  <2> QED
    BY <1>2, <2>1, <2>2 DEF ApplyCollection
<1>3. ASSUME NEW id \in Sequence, NEW applied \in Instant,
             RollbackCollection(id, applied)
      PROVE  IInv'
  <2>1. CASE id = Length /\ ApplyInverse(id, applied, id - 1, id - 1)
    <3>1. id \in 1 .. Length /\ id - 1 \in Nat /\ id - 1 <= Length
      BY <1>1, <2>1 DEF Sequence
    <3> QED
      BY <2>1, <3>1, InverseStep
  <2>2. CASE Refuse
    BY <2>2, RefuseStep
  <2> QED
    BY <1>3, <2>1, <2>2 DEF RollbackCollection
<1>4. ASSUME NEW id \in Sequence, NEW applied \in Instant, RollbackTo(id, applied)
      PROVE  IInv'
  <2>1. CASE id < Length /\ ApplyInverse(Length, applied, Length - 1, id)
    <3>1. Length \in 1 .. Length /\ Length - 1 \in Nat /\ Length - 1 <= Length
          /\ id \in Nat
      BY <1>1, <2>1 DEF Sequence
    <3> QED
      BY <2>1, <3>1, InverseStep
  <2>2. CASE /\ result' = [outcome |-> "rolledback", to |-> id]
             /\ UNCHANGED <<disk, call, history>>
    <3>1. UNCHANGED <<tree, slot, global, call, faults, base, asOf, clean>>
      BY <2>2 DEF disk, history
    <3>2. result' \in [outcome : Outcome, to : Nat]
      BY <2>2 DEF Outcome, Sequence
    <3>3. TypeOK'
      BY <3>1, <3>2 DEF IInv, TypeOK
    <3>4. Contiguous' /\ ArchivesComplete' /\ NeverTorn' /\ Length' = Length
      BY <2>2, DiskKept, JournalKept DEF IInv
    <3>5. CallConsistent' /\ ArchiveProgress'
      BY <3>1, <3>4
      DEF IInv, CallConsistent, ArchiveProgress, ArchivedSoFar, Attempting,
          Stepping, IsFile
    <3> QED
      BY <3>3, <3>4, <3>5 DEF IInv
  <2>3. CASE Refuse
    BY <2>3, RefuseStep
  <2> QED
    BY <1>4, <2>1, <2>2, <2>3 DEF RollbackTo
<1> QED
  BY <1>2, <1>3, <1>4 DEF Client

\* A step that advances within an attempt and keeps the manifests.
LEMMA AdvanceStep ==
    ASSUME IInv, NEW phase \in {"archive", "mutate", "records"},
           NEW following \in {"mutate", "records", "global"},
           Advance(phase, following)
    PROVE  /\ call' \in Call
           /\ call'.phase \in {phase, following}
           /\ UNCHANGED <<result, faults, base, asOf, clean>>
           /\ call'.pending = call.pending /\ call'.changes = call.changes
           /\ call'.seq = call.seq /\ call'.undo = call.undo
           /\ call'.applied = call.applied
           /\ call'.phase \in {"archive", "mutate", "records"}
                => call'.at \in DOMAIN call.pending
           /\ call'.phase = "archive" => call'.at = call.at + 1
           /\ call.at \in DOMAIN call.pending /\ call.pending[call.at] \in Change
           /\ call'.phase # phase => call.at = Len(call.pending)
<1>1. call \in Call /\ call.pending \in Seq(Change)
  BY DEF IInv, TypeOK, Call
<1>2. DOMAIN call.pending = 1 .. Len(call.pending) /\ Len(call.pending) \in Nat
  BY <1>1, LenProperties
<1>3. call.phase = phase /\ call.at \in 1 .. Len(call.pending)
  BY <1>2 DEF Advance, IInv, CallConsistent, Stepping
<1>4. call' = IF call.at < Len(call.pending)
              THEN [call EXCEPT !.at = call.at + 1]
              ELSE [call EXCEPT !.phase = following, !.at = 1]
  BY DEF Advance
<1>5. call.pending[call.at] \in Change
  BY <1>1, <1>3, ElementOfSeq
<1>6. UNCHANGED <<result, faults, base, asOf, clean>>
  BY DEF Advance, history
<1>7. CASE call.at < Len(call.pending)
  <2>1. call' = [call EXCEPT !.at = call.at + 1]
    BY <1>4, <1>7
  <2>2. call' \in Call
    BY <1>1, <1>3, <2>1 DEF Call
  <2>3. /\ call'.phase = phase /\ call'.pending = call.pending
        /\ call'.changes = call.changes /\ call'.seq = call.seq
        /\ call'.undo = call.undo /\ call'.applied = call.applied
        /\ call'.at = call.at + 1
    BY <1>1, <1>3, <2>1 DEF Call
  <2> QED
    BY <1>2, <1>3, <1>5, <1>6, <1>7, <2>2, <2>3
<1>8. CASE ~(call.at < Len(call.pending))
  <2>1. call' = [call EXCEPT !.phase = following, !.at = 1]
    BY <1>4, <1>8
  <2>2. call' \in Call
    BY <1>1, <1>3, <2>1 DEF Call, Phase
  <2>3. /\ call'.phase = following /\ call'.pending = call.pending
        /\ call'.changes = call.changes /\ call'.seq = call.seq
        /\ call'.undo = call.undo /\ call'.applied = call.applied
        /\ call'.at = 1
    BY <1>1, <1>3, <2>1 DEF Call
  <2> QED
    BY <1>2, <1>3, <1>5, <1>6, <1>8, <2>2, <2>3
<1> QED
  BY <1>7, <1>8

LEMMA TargetFacts ==
    ASSUME IInv, Stepping
    PROVE  /\ call.seq \in Sequence /\ call.seq = Length + 1
           /\ ~Committed(call.seq)
           /\ tree \in Tree /\ slot[call.seq] \in Slot
           /\ Current \in Change /\ Target \in Place
           /\ call.at \in DOMAIN call.pending
<1>1. call.pending \in Seq(Change) /\ call.at \in DOMAIN call.pending
  BY DEF IInv, TypeOK, Call, CallConsistent
<1>2. Current \in Change
  BY <1>1, LenProperties, ElementOfSeq DEF Current
<1>3. Target \in Place
  BY <1>2, StoreAssumption DEF Target, Change
<1>4. call.seq \in Sequence /\ call.seq = Length + 1 /\ slot[call.seq].manifest = NoManifest
  BY DEF IInv, CallConsistent, Attempting
<1> QED
  BY <1>1, <1>2, <1>3, <1>4 DEF IInv, TypeOK, Committed

\* Copying prior bytes into the archive of the running attempt.
LEMMA ArchiveStep ==
    ASSUME IInv, Archive
    PROVE  IInv'
<1>1. call.phase = "archive" /\ Stepping /\ Attempting
  BY DEF Archive, Advance, Stepping, Attempting
<1> DEFINE s == call.seq
           old == slot[s].archive
           new == IF Current.op \in Archiving
                  THEN Written(old, Target, tree[Target]) ELSE old
<1>2. /\ s \in Sequence /\ s = Length + 1 /\ ~Committed(s)
      /\ tree \in Tree /\ slot[s] \in Slot
      /\ Current \in Change /\ Target \in Place /\ call.at \in DOMAIN call.pending
  BY <1>1, TargetFacts
<1>3. Current.op \in Archiving => IsFile(base.tree, Target) /\ tree[Target] \in Content
  <2>1. tree = base.tree
    BY <1>1 DEF IInv, ArchiveProgress
  <2>2. Current.op \in Archiving => IsFile(base.tree, Target)
    BY <1>1, <1>2 DEF IInv, ArchiveProgress, Current, Target
  <2>3. tree[Target] \in Node
    BY <1>2 DEF Tree
  <2> QED
    BY <2>1, <2>2, <2>3, ContentIsFile
<1>4. /\ slot' = [slot EXCEPT ![s] = [slot[s] EXCEPT !.made = TRUE, !.archive = new]]
      /\ slot \in [Sequence -> Slot]
  <2>1. slot \in [Sequence -> Slot]
    BY DEF IInv, TypeOK
  <2> QED
    BY <1>2, <2>1 DEF Archive
<1>5. new \in Tree /\ old \in Tree
  BY <1>2, <1>3, WrittenTree DEF Slot
<1>6. /\ slot' \in [Sequence -> Slot]
      /\ slot'[s].manifest = slot[s].manifest /\ slot'[s].archive = new
      /\ \A n \in Sequence : n # s => slot'[n] = slot[n]
  <2> HIDE DEF new, s
  <2> QED
    BY <1>2, <1>4, <1>5 DEF Slot, s
<1>7. /\ call' \in Call
      /\ call'.phase \in {"archive", "mutate"}
      /\ UNCHANGED <<result, faults, base, asOf, clean>>
      /\ call'.pending = call.pending /\ call'.changes = call.changes
      /\ call'.seq = call.seq /\ call'.undo = call.undo
      /\ call'.applied = call.applied
      /\ call'.at \in DOMAIN call.pending
      /\ call'.phase = "archive" => call'.at = call.at + 1
      /\ call'.phase # "archive" => call.at = Len(call.pending)
  BY AdvanceStep DEF Archive
<1>8. UNCHANGED <<tree, global>>
  BY DEF Archive
<1>9. TypeOK'
  BY <1>6, <1>7, <1>8 DEF IInv, TypeOK
<1>10. /\ \A n \in Sequence : Committed(n) => slot'[n] = slot[n]
       /\ \A n \in Sequence : Committed(n)' => Committed(n)
  BY <1>2, <1>6 DEF Committed
<1>11. Contiguous' /\ ArchivesComplete' /\ Length' = Length
  BY <1>10, JournalKept DEF IInv
<1>12. NeverTorn'
  BY <1>6, <1>8, <1>2 DEF IInv, NeverTorn, ManifestWhole
<1>13. CallConsistent'
  BY <1>1, <1>2, <1>6, <1>7, <1>11
  DEF IInv, CallConsistent, Stepping, Attempting
<1>14. ArchiveProgress'
  <2>1. ASSUME NEW i \in DOMAIN call.pending, i \in ArchivedSoFar',
               call.pending[i].op \in Archiving
        PROVE  slot'[s].archive[At[call.pending[i].asset]]
                 = base.tree[At[call.pending[i].asset]]
    <3> DEFINE p == At[call.pending[i].asset]
    <3>1. p \in Place /\ DOMAIN call.pending = 1 .. Len(call.pending)
          /\ Len(call.pending) \in Nat
      <4>1. call.pending \in Seq(Change)
        BY DEF IInv, TypeOK, Call
      <4>2. DOMAIN call.pending = 1 .. Len(call.pending) /\ Len(call.pending) \in Nat
        BY <4>1, LenProperties
      <4>3. call.pending[i] \in Change
        BY <4>1, <4>2, ElementOfSeq
      <4> QED
        BY <4>2, <4>3, StoreAssumption DEF Change
    <3>2. i <= call.at
      BY <1>2, <1>7, <2>1, <3>1 DEF ArchivedSoFar
    <3>3. IsFile(base.tree, p) /\ tree = base.tree
      BY <1>1, <2>1 DEF IInv, ArchiveProgress
    <3>4. CASE i = call.at
      <4>1. Current = call.pending[i] /\ Target = p
        BY <3>4 DEF Current, Target
      <4>2. new[Target] = tree[Target]
        BY <1>2, <1>3, <1>5, <2>1, <4>1, WrittenTree
      <4>3. new[p] = base.tree[p]
        BY <3>3, <4>1, <4>2
      <4> QED
        BY <1>6, <4>3
    <3>5. CASE i < call.at
      <4>1. i \in ArchivedSoFar
        BY <1>1, <1>2, <3>1, <3>5 DEF ArchivedSoFar
      <4>2. old[p] = base.tree[p]
        BY <1>1, <2>1, <4>1 DEF IInv, ArchiveProgress
      <4>3. CASE Current.op \in Archiving
        <5>1. IsFile(old, p)
          BY <3>3, <4>2 DEF IsFile
        <5>2. CanWrite(old, Target)
          BY <4>3 DEF Archive
        <5>3. CASE p = Target
          BY <1>2, <1>3, <1>5, <1>6, <3>3, <4>3, <5>3, WrittenTree
        <5>4. CASE p # Target
          BY <1>2, <1>3, <1>5, <1>6, <3>1, <4>2, <4>3, <5>1, <5>2, <5>4, WrittenTree
        <5> QED
          BY <5>3, <5>4
      <4>4. CASE Current.op \notin Archiving
        BY <1>6, <4>2, <4>4
      <4> QED
        BY <4>3, <4>4
    <3> QED
      BY <1>2, <3>1, <3>2, <3>4, <3>5
  <2>2. base' = base /\ tree' = tree /\ call'.pending = call.pending /\ call'.seq = s
    BY <1>7, <1>8
  <2>3. /\ tree = base.tree
        /\ \A i \in DOMAIN call.pending :
             LET p == At[call.pending[i].asset]
             IN  /\ call.pending[i].op \in Archiving => IsFile(base.tree, p)
                 /\ call.pending[i].op = "create" => base.tree[p] = Absent
    BY <1>1 DEF IInv, ArchiveProgress
  <2> HIDE DEF s
  <2> QED
    BY <2>1, <2>2, <2>3 DEF ArchiveProgress, IsFile
<1> QED
  BY <1>9, <1>11, <1>12, <1>13, <1>14 DEF IInv

\* After the archive phase an attempt leaves the version directories alone
\* until it publishes.
LEMMA MutatingStep ==
    ASSUME IInv, Attempting, call.phase # "archive", TypeOK', NeverTorn',
           UNCHANGED <<slot, base>>,
           call'.phase \in {"mutate", "records", "global", "manifest"},
           call'.pending = call.pending, call'.changes = call.changes,
           call'.seq = call.seq, call'.undo = call.undo,
           call'.applied = call.applied,
           call'.phase \in {"mutate", "records"} => call'.at \in DOMAIN call.pending
    PROVE  IInv'
<1>1. Contiguous' /\ ArchivesComplete' /\ Length' = Length
  BY JournalKept DEF IInv, Committed
<1>2. call.phase # "idle"
  BY DEF Attempting, Stepping
<1>3. CallConsistent'
  BY <1>1, <1>2 DEF IInv, CallConsistent, Stepping, Attempting
<1>4. ArchiveProgress'
  BY DEF IInv, ArchiveProgress, ArchivedSoFar, Attempting, Stepping, IsFile
<1> QED
  BY <1>1, <1>3, <1>4 DEF IInv

LEMMA MutateStep ==
    ASSUME IInv, Mutate
    PROVE  IInv'
<1>1. call.phase = "mutate" /\ Stepping /\ Attempting
  BY DEF Mutate, Advance, Stepping, Attempting
<1>2. tree \in Tree /\ Current \in Change /\ Target \in Place
  BY <1>1, TargetFacts
<1>3. tree' \in Tree
  <2>1. CASE WriteAsset
    BY <1>2, <2>1, WrittenTree DEF WriteAsset, Change
  <2>2. CASE RemoveAsset
    BY <1>2, <2>2 DEF RemoveAsset, Removed, Tree, Node
  <2>3. CASE ChangeState
    BY <1>2, <2>3 DEF ChangeState
  <2> QED
    BY <2>1, <2>2, <2>3 DEF Mutate
<1>4. UNCHANGED <<slot, global>>
  BY DEF Mutate
<1>5. /\ call' \in Call /\ call'.phase \in {"mutate", "records"}
      /\ UNCHANGED <<result, faults, base, asOf, clean>>
      /\ call'.pending = call.pending /\ call'.changes = call.changes
      /\ call'.seq = call.seq /\ call'.undo = call.undo
      /\ call'.applied = call.applied /\ call'.at \in DOMAIN call.pending
  BY AdvanceStep DEF Mutate
<1>6. TypeOK' /\ NeverTorn'
  BY <1>3, <1>4, <1>5 DEF IInv, TypeOK, NeverTorn, ManifestWhole
<1> QED
  BY <1>1, <1>4, <1>5, <1>6, MutatingStep

LEMMA RefreshRecordStep ==
    ASSUME IInv, RefreshRecord
    PROVE  IInv'
<1>1. call.phase = "records" /\ Stepping /\ Attempting
  BY DEF RefreshRecord, Advance, Stepping, Attempting
<1>2. tree \in Tree /\ Current \in Change /\ call.applied \in Instant
  BY <1>1, TargetFacts DEF IInv, CallConsistent
<1>3. tree' \in Tree
  <2>1. CASE Linked = NoRecord
    BY <1>2, <2>1 DEF RefreshRecord
  <2>2. CASE Linked # NoRecord
    <3>1. At[Linked] \in Place
      BY <1>2, <2>2, StoreAssumption DEF Linked, Change
    <3>2. [updated |-> call.applied] \in Node
      BY <1>2 DEF Node, Content, Doc
    <3> QED
      BY <1>2, <2>2, <3>1, <3>2 DEF RefreshRecord, Tree
  <2> QED
    BY <2>1, <2>2
<1>4. UNCHANGED <<slot, global>>
  BY DEF RefreshRecord
<1>5. /\ call' \in Call /\ call'.phase \in {"records", "global"}
      /\ UNCHANGED <<result, faults, base, asOf, clean>>
      /\ call'.pending = call.pending /\ call'.changes = call.changes
      /\ call'.seq = call.seq /\ call'.undo = call.undo
      /\ call'.applied = call.applied
      /\ call'.phase = "records" => call'.at \in DOMAIN call.pending
  BY AdvanceStep DEF RefreshRecord
<1>6. TypeOK' /\ NeverTorn'
  BY <1>3, <1>4, <1>5 DEF IInv, TypeOK, NeverTorn, ManifestWhole
<1> QED
  BY <1>1, <1>4, <1>5, <1>6, MutatingStep

LEMMA RefreshGlobalStep ==
    ASSUME IInv, RefreshGlobal
    PROVE  IInv'
<1>1. call.phase = "global" /\ Attempting /\ call \in Call
  BY DEF RefreshGlobal, Attempting, IInv, TypeOK
<1>2. global' = call.applied /\ call.applied \in Instant
  BY <1>1 DEF RefreshGlobal, IInv, CallConsistent
<1>3. UNCHANGED <<tree, slot, result, faults, base, asOf, clean>>
  BY DEF RefreshGlobal, history
<1>4. /\ call' \in Call /\ call'.phase = "manifest"
      /\ call'.pending = call.pending /\ call'.changes = call.changes
      /\ call'.seq = call.seq /\ call'.undo = call.undo
      /\ call'.applied = call.applied
  BY <1>1 DEF RefreshGlobal, Call, Phase
<1>5. TypeOK' /\ NeverTorn'
  BY <1>2, <1>3, <1>4, StoreAssumption
  DEF IInv, TypeOK, NeverTorn, ManifestWhole
<1> QED
  BY <1>1, <1>3, <1>4, <1>5, MutatingStep

\* The commit: the journal grows by the running attempt, whose archive is
\* complete by now.
LEMMA PublishStep ==
    ASSUME IInv, Publish
    PROVE  IInv'
<1> DEFINE s == call.seq
           m == [applied |-> call.applied, changes |-> call.changes]
<1>1. call.phase = "manifest" /\ Attempting /\ call \in Call
  BY DEF Publish, Attempting, IInv, TypeOK
<1>2. /\ s \in Sequence /\ s = Length + 1 /\ call.applied \in Instant
      /\ slot[s].manifest = NoManifest /\ slot \in [Sequence -> Slot]
      /\ Length \in Nat /\ SequenceMax \in Nat
  BY <1>1, LengthType, StoreAssumption DEF IInv, TypeOK, CallConsistent
<1>3. m \in Manifest /\ m # NoManifest /\ m # Torn
  <2>1. m \in Manifest
    BY <1>1, <1>2 DEF Manifest, Call
  <2> QED
    BY <2>1, StoreAssumption
<1>4. slot' = [slot EXCEPT ![s] = [slot[s] EXCEPT !.manifest = m]]
  BY <1>2 DEF Publish
<1>5. /\ slot' \in [Sequence -> Slot]
      /\ slot'[s].manifest = m /\ slot'[s].archive = slot[s].archive
      /\ \A n \in Sequence : n # s => slot'[n] = slot[n]
  <2> HIDE DEF m, s
  <2>1. slot[s] \in Slot
    BY <1>2
  <2> QED
    BY <1>2, <1>3, <1>4, <2>1 DEF Slot
<1>6. Entries' = 1 .. Length + 1
  <2>1. Entries = 1 .. Length
    BY DEF IInv, Contiguous
  <2>2. Entries' = Entries \cup {s}
    BY <1>2, <1>3, <1>5 DEF Entries, Committed
  <2> QED
    BY <1>2, <2>1, <2>2
<1>7. Length' = Length + 1
  <2>1. IsFiniteSet(1 .. Length + 1) /\ Cardinality(1 .. Length + 1) = Length + 1
    BY <1>2, FS_Interval
  <2> QED
    BY <1>6, <2>1 DEF Length
<1>8. Contiguous'
  BY <1>6, <1>7 DEF Contiguous
<1>9. /\ call' \in Call /\ call'.phase \in {"idle", "next"}
      /\ call'.undo <= Length + 1
      /\ call'.phase = "next" => call'.applied \in Instant /\ call'.aim < call'.undo
  <2>1. CASE call.undo > call.aim
    <3>1. call' = [call EXCEPT !.phase = "next"]
      BY <2>1 DEF Publish
    <3>2. call.undo <= Length
      BY DEF IInv, CallConsistent
    <3>3. call \in Call /\ call.applied \in Instant
      BY <1>1, <1>2
    <3>4. call' \in Call
      <4> HIDE DEF m, s
      <4> QED
        BY <3>1, <3>3 DEF Call, Phase
    <3>5. /\ call'.phase = "next" /\ call'.undo = call.undo
          /\ call'.aim = call.aim /\ call'.applied = call.applied
      <4> HIDE DEF m, s
      <4> QED
        BY <3>1, <3>3 DEF Call
    <3>6. call.undo \in Nat /\ call.aim \in Nat /\ Length \in Nat
      BY <1>2, <3>3 DEF Call
    <3>7. call'.aim < call'.undo /\ call'.undo <= Length + 1
      BY <2>1, <3>2, <3>5, <3>6
    <3> QED
      BY <3>3, <3>4, <3>5, <3>7
  <2>2. CASE ~(call.undo > call.aim)
    <3>1. call' = Idle
      BY <2>2 DEF Publish
    <3> QED
      BY <1>2, <3>1, IdleType DEF Idle
  <2> QED
    BY <2>1, <2>2
<1>10. result' \in [outcome : Outcome, to : Nat]
  <2>1. result \in [outcome : Outcome, to : Nat] /\ call.aim \in Nat
    BY <1>1 DEF IInv, TypeOK, Call
  <2> QED
    BY <2>1 DEF Publish, Outcome
<1>11. asOf' \in [0 .. SequenceMax -> Tree]
  BY DEF Publish, IInv, TypeOK
<1>12. TypeOK'
  BY <1>5, <1>9, <1>10, <1>11 DEF Publish, IInv, TypeOK
<1>13. CallConsistent' /\ ArchiveProgress'
  BY <1>7, <1>9 DEF CallConsistent, ArchiveProgress, Attempting, Stepping
<1>14. ArchivesComplete'
  <2>1. ASSUME NEW n \in Entries' PROVE ArchiveComplete(n)'
    <3>1. CASE n # s
      <4>1. n \in Entries /\ slot'[n] = slot[n]
        BY <1>2, <1>5, <1>6, <3>1 DEF IInv, Contiguous, Entries
      <4> QED
        BY <4>1 DEF IInv, ArchivesComplete, ArchiveComplete, IsFile
    <3>2. CASE n = s
      <4>1. DOMAIN call.changes = DOMAIN call.pending
        <5>1. /\ call.changes \in Seq(ChangeRecord)
              /\ call.pending \in Seq(Change)
          BY <1>1 DEF Call
        <5>2. Len(call.changes) = Len(call.pending)
          BY <1>1 DEF IInv, CallConsistent
        <5> QED
          BY <5>1, <5>2, LenProperties
      <4>2. ASSUME NEW i \in DOMAIN call.pending,
                   call.changes[i].action \in {"replaced", "deleted"}
            PROVE  IsFile(slot[s].archive, At[call.changes[i].asset])
        <5>1. /\ call.changes[i].asset = call.pending[i].asset
              /\ call.changes[i].action = ActionOf(call.pending[i].op)
          BY <1>1 DEF IInv, CallConsistent
        <5>2. call.pending[i].op \in Op
          BY <1>1, LenProperties, ElementOfSeq DEF Call, Change
        <5>3. call.pending[i].op \in Archiving
          BY <4>2, <5>1, <5>2 DEF ActionOf, Archiving, Op
        <5>4. i \in ArchivedSoFar
          BY <1>1 DEF ArchivedSoFar
        <5> QED
          BY <1>1, <5>1, <5>3, <5>4 DEF IInv, ArchiveProgress, IsFile
      <4>3. slot'[n].manifest.changes = call.changes
            /\ slot'[n].archive = slot[s].archive
        BY <1>5, <3>2
      <4> HIDE DEF s, m
      <4> QED
        BY <4>1, <4>2, <4>3 DEF ArchiveComplete, IsFile
    <3> QED
      BY <3>1, <3>2
  <2> QED
    BY <2>1 DEF ArchivesComplete
<1>15. NeverTorn'
  BY <1>3, <1>5 DEF Publish, IInv, NeverTorn, ManifestWhole
<1> QED
  BY <1>8, <1>12, <1>13, <1>14, <1>15 DEF IInv

LEMMA NextInverseStep ==
    ASSUME IInv, NextInverse
    PROVE  IInv'
<1>1. call.phase = "next" /\ call \in Call
  BY DEF NextInverse, IInv, TypeOK
<1>2. call.aim < call.undo /\ call.undo <= Length /\ call.applied \in Instant
  BY <1>1 DEF IInv, CallConsistent
<1>3. call.undo \in Nat /\ call.aim \in Nat /\ Length \in Nat
  BY <1>1, LengthType, StoreAssumption DEF Call
<1>4. call.undo \in 1 .. Length /\ call.undo - 1 \in Nat /\ call.undo - 1 <= Length
  BY <1>2, <1>3
<1>5. ApplyInverse(call.undo, call.applied, call.undo - 1, call.aim)
  BY DEF NextInverse
<1> QED
  BY <1>2, <1>3, <1>4, <1>5, InverseStep

LEMMA BlockedStep ==
    ASSUME IInv, NEW phase, Blocked(phase)
    PROVE  IInv'
<1>1. call' = Idle /\ UNCHANGED disk
  BY DEF Blocked, Return
<1>2. clean' \in BOOLEAN
  BY DEF Blocked, IInv, TypeOK
<1>3. TypeOK'
  BY <1>2, IdleType, OutcomeType
  DEF Blocked, Return, IInv, TypeOK, disk, Outcome
<1> QED
  BY <1>1, <1>3, DiskKept, ReturnStep DEF IInv

LEMMA PipelineStep ==
    ASSUME IInv, Pipeline
    PROVE  IInv'
<1>1. ASSUME ArchiveBlocked \/ MutateBlocked \/ RefreshBlocked PROVE IInv'
  BY <1>1, BlockedStep DEF ArchiveBlocked, MutateBlocked, RefreshBlocked
<1> QED
  BY <1>1, ArchiveStep, MutateStep, RefreshRecordStep, RefreshGlobalStep,
     PublishStep, NextInverseStep DEF Pipeline

\* What every interruption does, apart from what it leaves on disk.
LEMMA InterruptFacts ==
    ASSUME IInv, Interrupt
    PROVE  /\ call' = Idle /\ call' \in Call
           /\ result' \in [outcome : Outcome, to : Nat]
           /\ faults' \in Nat /\ clean' \in BOOLEAN
           /\ UNCHANGED <<base, asOf>>
BY IdleType, OutcomeType DEF Interrupt, Return, IInv, TypeOK, Outcome

\* A torn write to the tree, to the archive of the running attempt or to its
\* manifest leaves the committed journal alone.
LEMMA FaultStep ==
    ASSUME IInv, Fault
    PROVE  IInv'
<1>1. CASE Stop
  <2>1. TypeOK'
    BY <1>1, InterruptFacts DEF Stop, disk, IInv, TypeOK
  <2> QED
    BY <1>1, <2>1, InterruptFacts, DiskKept, ReturnStep DEF Stop, IInv
<1>2. CASE TearArchive
  <2>1. Stepping
    BY <1>2 DEF TearArchive, Stepping
  <2>2. /\ call.seq \in Sequence /\ ~Committed(call.seq)
        /\ slot[call.seq] \in Slot /\ Target \in Place
    BY <2>1, TargetFacts
  <2> DEFINE s == call.seq
             new == Written(slot[s].archive, Target, Torn)
  <2>3. new \in Tree
    BY <2>2, WrittenTree DEF Slot, Content
  <2>4. slot \in [Sequence -> Slot]
    BY DEF IInv, TypeOK
  <2>5. slot' = [slot EXCEPT ![s] = [slot[s] EXCEPT !.made = TRUE, !.archive = new]]
    BY <1>2, <2>2, <2>4 DEF TearArchive
  <2>6. /\ slot' \in [Sequence -> Slot]
        /\ slot'[s].manifest = slot[s].manifest
        /\ \A n \in Sequence : n # s => slot'[n] = slot[n]
    <3> HIDE DEF new, s
    <3> QED
      BY <2>2, <2>3, <2>4, <2>5 DEF Slot, s
  <2>7. TypeOK'
    BY <1>2, <2>6, InterruptFacts DEF TearArchive, IInv, TypeOK
  <2>8. NeverTorn'
    BY <1>2, <2>2, <2>6 DEF TearArchive, IInv, NeverTorn, ManifestWhole
  <2>9. /\ \A n \in Sequence : Committed(n) => slot'[n] = slot[n]
        /\ \A n \in Sequence : Committed(n)' => Committed(n)
    BY <2>2, <2>6 DEF Committed
  <2> QED
    BY <1>2, <2>7, <2>8, <2>9, InterruptFacts, ReturnStep DEF TearArchive
<1>3. ASSUME TearAsset \/ TearRecord \/ TearGlobal PROVE IInv'
  <2>1. Interrupt /\ UNCHANGED slot
    BY <1>3 DEF TearAsset, TearRecord, TearGlobal
  <2>2. tree' \in Tree /\ global' \in Instant \cup {NoInstant, Torn}
    <3>1. CASE TearAsset
      <4>1. Stepping
        BY <3>1 DEF TearAsset, Stepping
      <4>2. tree \in Tree /\ Target \in Place /\ Torn \in Content
        BY <4>1, TargetFacts DEF Content
      <4> QED
        BY <3>1, <4>2, WrittenTree DEF TearAsset, IInv, TypeOK
    <3>2. CASE TearRecord
      <4>1. Stepping
        BY <3>2 DEF TearRecord, Stepping
      <4>2. tree \in Tree /\ Torn \in Node
        BY <4>1, TargetFacts DEF Content, Node
      <4> QED
        BY <3>2, <4>2 DEF TearRecord, Tree, IInv, TypeOK
    <3>3. CASE TearGlobal
      BY <3>3 DEF TearGlobal, IInv, TypeOK
    <3> QED
      BY <1>3, <3>1, <3>2, <3>3
  <2>3. TypeOK'
    BY <2>1, <2>2, InterruptFacts DEF IInv, TypeOK
  <2>4. Gpkg => UNCHANGED global
    BY <1>3 DEF TearAsset, TearRecord, TearGlobal
  <2>5. NeverTorn'
    BY <2>1, <2>4 DEF IInv, NeverTorn, ManifestWhole
  <2>6. /\ \A n \in Sequence : Committed(n) => slot'[n] = slot[n]
        /\ \A n \in Sequence : Committed(n)' => Committed(n)
    BY <2>1 DEF Committed
  <2> QED
    BY <2>1, <2>3, <2>5, <2>6, InterruptFacts, ReturnStep
<1>4. CASE TearManifest
  <2> DEFINE s == call.seq
  <2>1. Attempting /\ Interrupt /\ ~Gpkg /\ UNCHANGED <<tree, global>>
    BY <1>4 DEF TearManifest, Attempting
  <2>2. s \in Sequence /\ slot[s].manifest = NoManifest /\ slot \in [Sequence -> Slot]
    BY <2>1 DEF IInv, TypeOK, CallConsistent
  <2>3. slot' = [slot EXCEPT ![s] = [slot[s] EXCEPT !.manifest = Torn]]
    BY <1>4, <2>2 DEF TearManifest
  <2>4. /\ slot' \in [Sequence -> Slot]
        /\ slot'[s].manifest = Torn
        /\ \A n \in Sequence : n # s => slot'[n] = slot[n]
    <3> HIDE DEF s
    <3> QED
      BY <2>2, <2>3 DEF Slot
  <2>5. TypeOK'
    BY <2>1, <2>4, InterruptFacts DEF IInv, TypeOK
  <2>6. /\ \A n \in Sequence : Committed(n) => slot'[n] = slot[n]
        /\ \A n \in Sequence : Committed(n)' => Committed(n)
    BY <2>2, <2>4 DEF Committed
  <2>7. NeverTorn'
    BY <2>1 DEF NeverTorn
  <2> QED
    BY <2>1, <2>5, <2>6, <2>7, InterruptFacts, ReturnStep
<1> QED
  BY <1>1, <1>2, <1>3, <1>4 DEF Fault

LEMMA InitStep == Init => IInv
<1> SUFFICES ASSUME Init PROVE IInv
  OBVIOUS
<1>1. SequenceMax \in Nat /\ Seeds \in Tree
  BY StoreAssumption
<1>2. NoFiles \in Tree
  BY DEF NoFiles, Tree, Node
<1>3. slot \in [Sequence -> Slot]
  BY <1>2 DEF Init, Slot
<1>4. TypeOK
  <2>1. 0 \in 0 .. SequenceMax
    BY <1>1
  <2>2. base \in [seq : 0 .. SequenceMax, tree : Tree]
    BY <1>1, <2>1 DEF Init
  <2>3. asOf \in [0 .. SequenceMax -> Tree]
    BY <1>1 DEF Init
  <2>4. result \in [outcome : Outcome, to : Nat]
    BY DEF Init, Outcome
  <2>5. tree \in Tree /\ call \in Call /\ faults \in Nat /\ clean \in BOOLEAN
    BY <1>1, IdleType DEF Init
  <2>6. global \in Instant \cup {NoInstant, Torn}
    BY DEF Init
  <2> QED
    BY <1>3, <2>2, <2>3, <2>4, <2>5, <2>6 DEF TypeOK
<1>5. Entries = {}
  BY DEF Init, Entries, Committed
<1>6. Entries = 1 .. 0 /\ Length = 0
  <2>1. Entries = 1 .. 0
    BY <1>5
  <2> QED
    BY <2>1, LengthIs
<1>7. Contiguous /\ ArchivesComplete
  BY <1>5, <1>6 DEF Contiguous, ArchivesComplete
<1>8. CallConsistent /\ ArchiveProgress
  BY <1>6 DEF Init, Idle, CallConsistent, ArchiveProgress, Attempting, Stepping
<1>9. NeverTorn
  BY StoreAssumption DEF Init, NeverTorn, ManifestWhole
<1> QED
  BY <1>4, <1>7, <1>8, <1>9 DEF IInv

LEMMA StutterStep ==
    ASSUME IInv, UNCHANGED vars
    PROVE  IInv'
<1>1. UNCHANGED <<tree, slot, global, call, result, faults, base, asOf, clean>>
  BY DEF vars
<1>2. TypeOK'
  BY <1>1 DEF IInv, TypeOK
<1>3. Contiguous' /\ ArchivesComplete' /\ NeverTorn' /\ Length' = Length
  BY <1>1, DiskKept, JournalKept DEF IInv, disk
<1>4. CallConsistent' /\ ArchiveProgress'
  BY <1>1, <1>3
  DEF IInv, CallConsistent, ArchiveProgress, ArchivedSoFar, Attempting, Stepping, IsFile
<1> QED
  BY <1>2, <1>3, <1>4 DEF IInv

-----------------------------------------------------------------------------
(* Theorems *)

\* The inductive invariant: in every reachable state the journal is numbered
\* without gaps, every committed archive is complete, and the running attempt
\* works in the first uncommitted directory, archiving before it mutates.
THEOREM Invariance == Spec => []IInv
<1>1. Init => IInv
  BY InitStep
<1>2. IInv /\ [Next]_vars => IInv'
  BY ClientStep, PipelineStep, FaultStep, StutterStep DEF Next
<1> QED
  BY <1>1, <1>2, PTL DEF Spec

\* Every variable keeps its type, whatever is applied, rolled back or
\* interrupted.
THEOREM TypeCorrect == Spec => []TypeOK
<1>1. IInv => TypeOK
  BY DEF IInv
<1> QED
  BY <1>1, Invariance, PTL

\* versions() never meets a gap: the committed collections are 1, 2, ..., n.
THEOREM JournalHasNoGap == Spec => []JournalContiguous
<1>1. IInv => JournalContiguous
  BY DEF IInv, JournalContiguous
<1> QED
  BY <1>1, Invariance, PTL

\* A GeoPackage store is readable after any number of interruptions: its
\* documents are renamed into place, so neither a manifest nor the global
\* record is ever torn, and the journal has no gap.
THEOREM GpkgAlwaysReadable == Spec => [](Gpkg => JournalReadable)
<1>1. IInv => (Gpkg => JournalReadable)
  BY DEF IInv, NeverTorn, ManifestWhole, JournalReadable, Readable
<1> QED
  BY <1>1, Invariance, PTL

\* A step writes at most one version directory: the running attempt's.
LEMMA OneSlotWritten ==
    ASSUME IInv, [Next]_vars
    PROVE  \/ UNCHANGED slot
           \/ /\ Attempting
              /\ \A n \in Sequence : n # call.seq => slot'[n] = slot[n]
<1> USE DEF IInv, TypeOK
<1>1. CASE UNCHANGED vars
  BY <1>1 DEF vars
<1>2. CASE Client
  BY <1>2
  DEF Client, ApplyCollection, RollbackCollection, RollbackTo, ApplyInverse,
      Begin, Refuse, disk
<1>3. CASE Archive
  BY <1>3 DEF Archive, Advance, Attempting, Stepping
<1>4. CASE Publish
  BY <1>4 DEF Publish, Attempting
<1>5. CASE Mutate \/ RefreshRecord \/ RefreshGlobal
  BY <1>5 DEF Mutate, RefreshRecord, RefreshGlobal
<1>6. CASE ArchiveBlocked \/ MutateBlocked \/ RefreshBlocked
  BY <1>6 DEF ArchiveBlocked, MutateBlocked, RefreshBlocked, Blocked, disk
<1>7. CASE NextInverse
  BY <1>7 DEF NextInverse, ApplyInverse, Begin, Refuse, disk
<1>8. CASE Stop \/ TearAsset \/ TearRecord \/ TearGlobal
  BY <1>8 DEF Stop, TearAsset, TearRecord, TearGlobal, disk
<1>9. CASE TearArchive
  BY <1>9 DEF TearArchive, Attempting, Stepping
<1>10. CASE TearManifest
  BY <1>10 DEF TearManifest, Attempting
<1> QED
  BY <1>1, <1>2, <1>3, <1>4, <1>5, <1>6, <1>7, <1>8, <1>9, <1>10
  DEF Next, Pipeline, Fault

\* A published collection is final: no later apply, rollback or interruption
\* touches its archive or its manifest.
THEOREM PublishedIsFinal == Spec => CommittedIsFinal
<1>1. ASSUME IInv, [Next]_vars
      PROVE  [\A n \in Sequence : Committed(n) => slot'[n] = slot[n]]_vars
  <2> SUFFICES ASSUME NEW n \in Sequence, Committed(n)
               PROVE  slot'[n] = slot[n]
    OBVIOUS
  <2>1. Attempting => n # call.seq
    BY <1>1 DEF IInv, CallConsistent, Committed
  <2> QED
    BY <1>1, <2>1, OneSlotWritten
<1> QED
  BY <1>1, Invariance, PTL DEF Spec, CommittedIsFinal


-----------------------------------------------------------------------------
(* What an attempt knows of what it began on *)

\* While nothing was left half done, the tree is as the last collection left
\* it, and an attempt begins on that tree.
Undamaged ==
    clean => /\ call.phase \in {"idle", "next"} => tree = asOf[Length]
             /\ Attempting => base.tree = asOf[Length]

\* The manifest in memory is what the checked changes say; no asset is changed
\* twice, and a GeoPackage attempt changes none of the records it links.
InMemory ==
    Attempting =>
        /\ call.changes = [i \in DOMAIN call.pending |-> ChangeRecordOf(call.pending[i])]
        /\ \A i, j \in DOMAIN call.pending :
              call.pending[i].asset = call.pending[j].asset => i = j
        /\ Gpkg => \A i, j \in DOMAIN call.pending :
              LET r == call.pending[i].record
              IN  r # NoRecord => /\ At[r] # At[call.pending[j].asset]
                                  /\ r \in RecordName /\ base.tree[At[r]] \in Doc

\* The checks passed, and what they found still holds of the tree the attempt
\* began on.
Swept ==
    Attempting => call.pending # <<>> /\ \A i \in DOMAIN call.pending :
        LET c == call.pending[i]
        IN  /\ {c.asset, c.record} \cap Reserved = {}
            /\ c.op \in {"setstate", "clearstate"} => IsFile(base.tree, At[c.asset])
            /\ c.op = "clearstate" => StateFrom(Journal, c.asset) # NoState

\* The changes whose records are refreshed by now.
RefreshedSoFar ==
    IF call.phase = "records" THEN 1 .. call.at - 1
    ELSE IF call.phase \in {"global", "manifest"} THEN DOMAIN call.pending
    ELSE {}

Refreshed ==
    /\ Attempting => \A i \in RefreshedSoFar :
          LET r == call.pending[i].record
          IN  r # NoRecord => tree[At[r]] = [updated |-> call.applied]
    /\ call.phase = "manifest" => global = call.applied

KInv ==
    Undamaged /\ InMemory /\ Swept /\ Refreshed /\ ArchivesPriorContent

-----------------------------------------------------------------------------
(* What an attempt has done to the tree *)

\* The changes that are made by now.
MutatedSoFar ==
    IF call.phase = "archive" THEN {}
    ELSE IF call.phase = "mutate" THEN 1 .. call.at - 1
    ELSE DOMAIN call.pending

Effects ==
    Attempting => \A p \in Place :
        LET made == {i \in MutatedSoFar : At[call.pending[i].asset] = p}
        IN  /\ \A i \in made :
                  /\ call.pending[i].op \in Writing
                        => Blurred(tree[p]) = Blurred(call.pending[i].value)
                  /\ call.pending[i].op = "delete" => Blurred(tree[p]) = Absent
            /\ (\A i \in made : call.pending[i].op \in {"setstate", "clearstate"})
                  => Blurred(tree[p]) = Blurred(base.tree[p])

HInv == Housed(tree) /\ (\A n \in Sequence : Housed(slot[n].archive)) /\ Effects

-----------------------------------------------------------------------------
(* What a rollback finds *)

\* What a collection documents is what it did to the files and to the states:
\* `prior` is the journal before it, `before` and `after` the live trees.
Documents(changes, prior, before, after) ==
    /\ changes # <<>>
    /\ \A i, j \in DOMAIN changes : changes[i].asset = changes[j].asset => i = j
    /\ History!Documents(changes, Files(before), Files(after))
    /\ \A i \in DOMAIN changes :
          LET c == changes[i]
          IN  /\ c.archived = (c.action \in {"replaced", "deleted"})
              /\ {c.asset, c.record} \cap Reserved = {}
              /\ c.action \in {"state-set", "state-cleared"} =>
                    /\ c.prior = StateFrom(prior, c.asset)
                    /\ c.action = "state-set" => c.state \in State
                    /\ c.action = "state-cleared" => c.prior # NoState
                    /\ IsFile(after, At[c.asset])
              /\ c.record # NoRecord =>
                    /\ after[At[c.record]] \in Doc
                    /\ Gpkg => /\ c.record \in RecordName
                               /\ \A j \in DOMAIN changes :
                                     At[c.record] # At[changes[j].asset]
Documented(n) ==
    Documents(slot[n].manifest.changes, SubSeq(Journal, 1, n - 1), asOf[n - 1], asOf[n])

\* In the middle of a rollback the store is as the collections that are left
\* had made it.
AsAfter(t, n) == Files(t) = Files(asOf[n]) /\ States(Length) = States(n)
Rolling ==
    clean => /\ call.phase = "next" => AsAfter(tree, call.undo)
             /\ Attempting /\ call.rolling =>
                   /\ call.undo + 1 \in 1 .. Length
                   /\ call.pending = InverseOf(call.undo + 1)
                   /\ AsAfter(base.tree, call.undo + 1)

RInv ==
    /\ clean => Readable /\ \A n \in Entries : Documented(n)
    /\ Attempting => call.aim <= call.undo /\ (call.undo = call.aim \/ call.rolling)
    /\ Rolling /\ RollbackRestores
    /\ result.outcome = "rolledback" => call.phase = "idle" /\ result.to \in 0 .. Length

-----------------------------------------------------------------------------
(* The steps, by what they leave behind *)

\* A call returns without a commit: refused, stopped by the file system, or
\* interrupted, with a torn write or without.
Ends ==
    /\ call' = Idle
    /\ result' \in [outcome : {"refused", "failed", "interrupted"}, to : {0}]
    /\ UNCHANGED <<base, asOf>>
    /\ clean' => /\ clean /\ call.phase \in {"idle", "archive", "next"}
                 /\ UNCHANGED <<tree, global>>
    /\ call.phase \in {"idle", "next"} => UNCHANGED <<tree, global>>
    /\ \A n \in Sequence : Committed(n) => slot'[n] = slot[n]
    /\ \A n \in Sequence : Committed(n)' => Committed(n)
    /\ clean' => \A n \in Sequence : slot'[n].manifest = slot[n].manifest

\* A call, or the next inverse of a rollback, begins.
Begins ==
    \E pending \in Seq(Change), applied \in Instant, rolling \in BOOLEAN,
       undo \in Nat, aim \in Nat :
        /\ Begin(pending, applied, rolling, undo, aim)
        /\ call.phase \in {"idle", "next"}
        /\ undo <= Length
        /\ rolling => /\ undo + 1 \in 1 .. Length /\ pending = InverseOf(undo + 1)
                      /\ aim <= undo
                      /\ call.phase = "idle" => undo + 1 = Length
                      /\ call.phase = "next" => undo + 1 = call.undo
        /\ ~rolling => undo = 0 /\ aim = 0

\* Nothing happens, but that a rollback to the last collection says so.
Rests ==
    /\ UNCHANGED <<disk, call, history>>
    /\ \/ result' = result
       \/ call.phase = "idle" /\ result' = [outcome |-> "rolledback", to |-> Length]

LEMMA InverseBegins ==
    ASSUME IInv, NEW n \in 1 .. Length, NEW applied \in Instant, NEW aim \in Nat,
           aim <= n - 1, ApplyInverse(n, applied, n - 1, aim), call.phase \in {"idle", "next"},
           call.phase = "idle" => n = Length, call.phase = "next" => n = call.undo
    PROVE  Begins \/ Refuse
<1>1. n \in Sequence /\ Committed(n)
  BY DEF IInv, Contiguous, Entries
<1>2. Length \in Nat
  BY LengthType, StoreAssumption
<1>3. CASE ArchiveComplete(n) /\ Begin(InverseOf(n), applied, TRUE, n - 1, aim)
  <2> DEFINE undo == n - 1
  <2>1. InverseOf(n) \in Seq(Change)
    BY <1>1, <1>3, InverseType DEF IInv
  <2>2. undo \in Nat /\ undo <= Length /\ undo + 1 = n
    BY <1>2
  <2>3. Begin(InverseOf(undo + 1), applied, TRUE, undo, aim) /\ aim <= undo
    BY <1>3, <2>2
  <2> HIDE DEF undo
  <2> QED
    BY <2>1, <2>2, <2>3 DEF Begins
<1> QED
  BY <1>3 DEF ApplyInverse

LEMMA RefuseEnds ==
    ASSUME Refuse, call.phase \in {"idle", "next"}
    PROVE  Ends
BY DEF Refuse, Return, Ends, disk, history, Committed

LEMMA ClientKinds ==
    ASSUME IInv, Client
    PROVE  (Refuse /\ call.phase = "idle") \/ Begins \/ Rests
<1>1. Length \in Nat /\ SequenceMax \in Nat
  BY LengthType, StoreAssumption
<1>2. ASSUME NEW pending \in Offered, NEW applied \in Instant,
             ApplyCollection(pending, applied)
      PROVE  (Refuse /\ call.phase = "idle") \/ Begins
  <2>1. CASE Begin(pending, applied, FALSE, 0, 0)
    <3>1. pending \in Seq(Change) /\ 0 \in Nat /\ 0 <= Length /\ FALSE \in BOOLEAN
      BY <1>1, StoreAssumption
    <3>2. call.phase \in {"idle", "next"}
      BY <1>2 DEF ApplyCollection
    <3> QED
      BY <2>1, <3>1, <3>2 DEF Begins
  <2>2. CASE Refuse
    BY <1>2, <2>2 DEF ApplyCollection
  <2> QED
    BY <1>2, <2>1, <2>2 DEF ApplyCollection
<1>3. ASSUME NEW id \in Sequence, NEW applied \in Instant,
             RollbackCollection(id, applied)
      PROVE  (Refuse /\ call.phase = "idle") \/ Begins
  <2>1. CASE id = Length /\ ApplyInverse(id, applied, id - 1, id - 1)
    <3>1. id \in 1 .. Length /\ id - 1 \in Nat /\ id - 1 <= id - 1
      BY <1>1, <2>1 DEF Sequence
    <3> QED
      BY <1>3, <2>1, <3>1, InverseBegins DEF RollbackCollection
  <2>2. CASE Refuse
    BY <1>3, <2>2 DEF RollbackCollection
  <2> QED
    BY <1>3, <2>1, <2>2 DEF RollbackCollection
<1>4. ASSUME NEW id \in Sequence, NEW applied \in Instant, RollbackTo(id, applied)
      PROVE  (Refuse /\ call.phase = "idle") \/ Begins \/ Rests
  <2>1. CASE id < Length /\ ApplyInverse(Length, applied, Length - 1, id)
    <3>1. Length \in 1 .. Length /\ id \in Nat /\ id <= Length - 1
      BY <1>1, <2>1 DEF Sequence
    <3> QED
      BY <1>4, <2>1, <3>1, InverseBegins DEF RollbackTo
  <2>2. CASE id = Length /\ result' = [outcome |-> "rolledback", to |-> id]
             /\ UNCHANGED <<disk, call, history>>
    BY <1>4, <2>2 DEF RollbackTo, Rests
  <2>3. CASE Refuse
    BY <1>4, <2>3 DEF RollbackTo
  <2> QED
    BY <1>4, <2>1, <2>2, <2>3 DEF RollbackTo
<1> QED
  BY <1>2, <1>3, <1>4 DEF Client

LEMMA FaultEnds ==
    ASSUME IInv, Fault
    PROVE  Ends
<1>1. Interrupt
  BY DEF Fault, Stop, TearArchive, TearAsset, TearRecord, TearGlobal, TearManifest
<1>2. /\ call' = Idle /\ result' \in [outcome : {"refused", "failed", "interrupted"}, to : {0}]
      /\ UNCHANGED <<base, asOf>>
      /\ call.phase # "idle"
      /\ clean' => clean /\ call.phase \in {"archive", "next"}
  BY <1>1 DEF Interrupt, Return
<1>3. /\ clean' => UNCHANGED <<tree, global>>
      /\ call.phase \in {"idle", "next"} => UNCHANGED <<tree, global>>
  BY <1>2 DEF Fault, Stop, TearArchive, TearAsset, TearRecord, TearGlobal, TearManifest, disk
<1>4. \/ UNCHANGED slot
      \/ /\ Attempting /\ \A n \in Sequence : n # call.seq => slot'[n] = slot[n]
  BY OneSlotWritten DEF Next
<1>5. Attempting => ~Committed(call.seq) /\ call.seq \in Sequence
  BY DEF IInv, CallConsistent, Committed
<1>6. \/ ~Attempting
      \/ /\ slot'[call.seq].manifest \in {slot[call.seq].manifest, Torn}
         /\ clean' => slot'[call.seq].manifest = slot[call.seq].manifest
  <2>1. CASE Stop \/ TearAsset \/ TearRecord \/ TearGlobal
    BY <2>1 DEF Stop, TearAsset, TearRecord, TearGlobal, disk
  <2>2. CASE TearArchive
    BY <1>5, <2>2 DEF TearArchive, IInv, TypeOK, Slot
  <2>3. CASE TearManifest
    <3>1. ~clean'
      BY <1>2, <2>3 DEF TearManifest
    <3>2. Attempting => slot'[call.seq].manifest = Torn
      BY <1>5, <2>3 DEF TearManifest, IInv, TypeOK, Slot
    <3> QED
      BY <3>1, <3>2
  <2> QED
    BY <2>1, <2>2, <2>3 DEF Fault
<1> QED
  BY <1>2, <1>3, <1>4, <1>5, <1>6 DEF Ends, Committed

LEMMA NextInverseKinds ==
    ASSUME IInv, NextInverse
    PROVE  (Refuse /\ call.phase = "next") \/ Begins
<1>1. call.phase = "next" /\ call \in Call
  BY DEF NextInverse, IInv, TypeOK
<1>2. call.aim < call.undo /\ call.undo <= Length /\ call.applied \in Instant
  BY <1>1 DEF IInv, CallConsistent
<1>3. call.undo \in Nat /\ call.aim \in Nat /\ Length \in Nat
  BY <1>1, LengthType, StoreAssumption DEF Call
<1>4. call.undo \in 1 .. Length /\ call.aim <= call.undo - 1
  BY <1>2, <1>3
<1>5. ApplyInverse(call.undo, call.applied, call.undo - 1, call.aim)
  BY DEF NextInverse
<1> QED
  BY <1>1, <1>2, <1>3, <1>4, <1>5, InverseBegins

LEMMA PipelineKinds ==
    ASSUME IInv, Pipeline
    PROVE  \/ Ends \/ Begins
           \/ Archive \/ Mutate \/ RefreshRecord \/ RefreshGlobal \/ Publish
<1>1. CASE ArchiveBlocked \/ MutateBlocked \/ RefreshBlocked
  <2>1. PICK phase \in {"archive", "mutate", "records"} : Blocked(phase)
    BY <1>1 DEF ArchiveBlocked, MutateBlocked, RefreshBlocked
  <2> QED
    BY <2>1 DEF Blocked, Return, Ends, disk, Committed
<1>2. CASE NextInverse
  BY <1>2, NextInverseKinds, RefuseEnds
<1> QED
  BY <1>1, <1>2 DEF Pipeline

LEMMA Kinds ==
    ASSUME IInv, [Next]_vars
    PROVE  \/ Ends \/ Begins \/ Rests
           \/ Archive \/ Mutate \/ RefreshRecord \/ RefreshGlobal \/ Publish
BY ClientKinds, RefuseEnds, FaultEnds, PipelineKinds DEF Next, vars, Rests, disk, history

\* Only Publish adds to the journal.
LEMMA JournalStays ==
    ASSUME IInv, IInv', [Next]_vars, ~Publish
    PROVE  /\ Length' = Length /\ Entries' = Entries /\ Journal' = Journal
           /\ \A n \in Entries : slot'[n] = slot[n]
           /\ asOf' = asOf
<1>1. /\ \A n \in Sequence : Committed(n) => slot'[n] = slot[n]
      /\ \A n \in Sequence : Committed(n)' => Committed(n)
      /\ asOf' = asOf
  <2>1. CASE Ends
    BY <2>1 DEF Ends
  <2>2. CASE Begins \/ Rests
    BY <2>2 DEF Begins, Begin, Rests, disk, history, Committed
  <2>3. CASE Archive
    <3>1. Attempting /\ ~Committed(call.seq) /\ call.seq \in Sequence
      BY <2>3, TargetFacts DEF Archive, Advance, Attempting, Stepping
    <3>2. /\ \A n \in Sequence : n # call.seq => slot'[n] = slot[n]
          /\ slot'[call.seq].manifest = slot[call.seq].manifest
      BY <2>3, <3>1 DEF Archive, IInv, TypeOK, Slot
    <3> QED
      BY <2>3, <3>1, <3>2 DEF Archive, Advance, history, Committed
  <2>4. CASE Mutate \/ RefreshRecord \/ RefreshGlobal
    BY <2>4 DEF Mutate, RefreshRecord, RefreshGlobal, Advance, history, Committed
  <2> QED
    BY <2>1, <2>2, <2>3, <2>4, Kinds
<1>2. Entries' = Entries /\ Length' = Length
  BY <1>1, JournalKept
<1>3. \A n \in Entries : slot'[n] = slot[n]
  BY <1>1 DEF Entries
<1>4. Journal' = Journal
  BY <1>2, <1>3 DEF Journal, IInv, Contiguous
<1> QED
  BY <1>1, <1>2, <1>3, <1>4

\* What a commit adds.
LEMMA PublishFacts ==
    ASSUME IInv, IInv', Publish
    PROVE  /\ call.phase = "manifest" /\ Attempting /\ call.seq = Length + 1
           /\ call.seq \in Sequence /\ call \in Call /\ Length \in Nat
           /\ Length' = Length + 1 /\ Entries' = Entries \cup {Length + 1}
           /\ Entries = 1 .. Length
           /\ \A n \in Entries : slot'[n] = slot[n] /\ asOf'[n] = asOf[n]
           /\ asOf'[0] = asOf[0]
           /\ slot'[Length + 1].manifest = [applied |-> call.applied, changes |-> call.changes]
           /\ slot'[Length + 1].archive = slot[Length + 1].archive
           /\ asOf'[Length + 1] = tree
           /\ UNCHANGED <<tree, global, base, clean>>
           /\ \A n \in 1 .. Length : Journal'[n] = Journal[n]
           /\ Journal'[Length + 1] = [applied |-> call.applied, changes |-> call.changes]
           /\ DOMAIN Journal' = 1 .. Length + 1 /\ DOMAIN Journal = 1 .. Length
<1>1. call.phase = "manifest" /\ Attempting /\ call \in Call
  BY DEF Publish, Attempting, IInv, TypeOK
<1>2. /\ call.seq \in Sequence /\ call.seq = Length + 1 /\ slot \in [Sequence -> Slot]
      /\ Length \in Nat /\ ~Committed(call.seq) /\ asOf \in [0 .. SequenceMax -> Tree]
  BY <1>1, LengthType, StoreAssumption DEF IInv, TypeOK, CallConsistent, Committed
<1>3. /\ slot'[call.seq].manifest = [applied |-> call.applied, changes |-> call.changes]
      /\ slot'[call.seq].archive = slot[call.seq].archive
      /\ \A n \in Sequence : n # call.seq => slot'[n] = slot[n]
  <2>1. slot[call.seq] \in Slot
    BY <1>2
  <2>2. slot' = [slot EXCEPT ![call.seq] = [slot[call.seq] EXCEPT !.manifest =
                    [applied |-> call.applied, changes |-> call.changes]]]
    BY <1>2 DEF Publish
  <2> QED
    BY <1>2, <2>1, <2>2 DEF Slot
<1>4. Entries = 1 .. Length /\ Entries \subseteq Sequence /\ call.seq \notin Entries
  BY <1>2 DEF IInv, Contiguous, Entries
<1>5. PICK s \in Sequence : s = call.seq /\ Committed(s)'
  <2>0. PICK s \in Sequence : s = call.seq
    BY <1>2
  <2>1. [applied |-> call.applied, changes |-> call.changes] \in Manifest
    BY <1>1 DEF IInv, CallConsistent, Manifest, Call
  <2> QED
    BY <1>3, <2>0, <2>1, StoreAssumption DEF Committed
<1>6. Entries' = Entries \cup {Length + 1}
  BY <1>2, <1>3, <1>4, <1>5 DEF Entries, Committed
<1>7. Length' = Length + 1
  <2>1. Entries' = 1 .. Length + 1
    BY <1>2, <1>4, <1>6
  <2>2. IsFiniteSet(1 .. Length + 1) /\ Cardinality(1 .. Length + 1) = Length + 1
    BY <1>2, FS_Interval
  <2> QED
    BY <2>1, <2>2 DEF Length
<1>8. /\ asOf' = [asOf EXCEPT ![call.seq] = tree] /\ call.seq \in 0 .. SequenceMax
      /\ UNCHANGED <<tree, global, base, clean>>
  BY <1>2, StoreAssumption DEF Publish, Sequence
<1>9. \A n \in 0 .. Length : asOf'[n] = asOf[n]
  BY <1>2, <1>8
<1>10. /\ \A n \in 1 .. Length : Journal'[n] = Journal[n]
       /\ Journal'[Length + 1] = [applied |-> call.applied, changes |-> call.changes]
       /\ DOMAIN Journal' = 1 .. Length + 1 /\ DOMAIN Journal = 1 .. Length
  <2>1. Journal' = [n \in 1 .. Length + 1 |-> slot'[n].manifest]
    BY <1>7 DEF Journal
  <2>2. \A n \in 1 .. Length : slot'[n] = slot[n] /\ n \in 1 .. Length + 1
    BY <1>2, <1>3, <1>4
  <2>3. Length + 1 \in 1 .. Length + 1
    BY <1>2
  <2> QED
    BY <1>2, <1>3, <2>1, <2>2, <2>3 DEF Journal
<1>11. asOf'[Length + 1] = tree
  BY <1>2, <1>8 DEF IInv, TypeOK
<1> QED
  BY <1>1, <1>2, <1>3, <1>4, <1>6, <1>7, <1>8, <1>9, <1>10, <1>11

\* The steps that stay within an attempt.
Proceeds == Archive \/ Mutate \/ RefreshRecord \/ RefreshGlobal
SameAttempt ==
    /\ call'.pending = call.pending /\ call'.changes = call.changes
    /\ call'.seq = call.seq /\ call'.applied = call.applied
    /\ call'.rolling = call.rolling /\ call'.undo = call.undo /\ call'.aim = call.aim
    /\ UNCHANGED <<result, faults, base, asOf, clean>>

LEMMA Advances ==
    ASSUME IInv, NEW phase \in {"archive", "mutate", "records"},
           NEW following \in {"mutate", "records", "global"}, phase # following,
           Advance(phase, following)
    PROVE  /\ SameAttempt /\ Stepping /\ Attempting
           /\ call.phase = phase /\ call'.phase \in {phase, following}
           /\ call.pending \in Seq(Change)
           /\ DOMAIN call.pending = 1 .. Len(call.pending) /\ Len(call.pending) \in Nat
           /\ call.at \in 1 .. Len(call.pending)
           /\ call'.phase = phase => call'.at = call.at + 1
           /\ call'.phase = following => call'.at = 1 /\ call.at = Len(call.pending)
<1>1. call \in Call /\ call.pending \in Seq(Change)
  BY DEF IInv, TypeOK, Call
<1>2. DOMAIN call.pending = 1 .. Len(call.pending) /\ Len(call.pending) \in Nat
  BY <1>1, LenProperties
<1>3. call.phase = phase /\ Stepping /\ Attempting /\ call.at \in 1 .. Len(call.pending)
  BY <1>2 DEF Advance, IInv, CallConsistent, Stepping, Attempting
<1>4. CASE call.at < Len(call.pending)
  <2>1. call' = [call EXCEPT !.at = call.at + 1]
    BY <1>4 DEF Advance
  <2> QED
    BY <1>1, <1>2, <1>3, <2>1 DEF Call, Advance, history, SameAttempt
<1>5. CASE ~(call.at < Len(call.pending))
  <2>1. call' = [call EXCEPT !.phase = following, !.at = 1]
    BY <1>5 DEF Advance
  <2> QED
    BY <1>1, <1>2, <1>3, <1>5, <2>1 DEF Call, Advance, history, SameAttempt
<1> QED
  BY <1>4, <1>5

LEMMA ProceedsFacts ==
    ASSUME IInv, Proceeds
    PROVE  /\ SameAttempt /\ Attempting /\ Attempting'
           /\ call.phase # "manifest" /\ (call'.phase # "archive" \/ Archive)
           /\ call'.phase \notin {"idle", "next"}
<1>1. CASE Archive \/ Mutate \/ RefreshRecord
  BY <1>1, Advances DEF Archive, Mutate, RefreshRecord, Attempting, Stepping
<1>2. CASE RefreshGlobal
  <2>1. call \in Call
    BY DEF IInv, TypeOK
  <2> QED
    BY <1>2, <2>1 DEF RefreshGlobal, Call, SameAttempt, Attempting, history
<1> QED
  BY <1>1, <1>2 DEF Proceeds

LEMMA NotPublish ==
    ASSUME IInv, IInv', [Next]_vars, Ends \/ Begins \/ Rests \/ Proceeds
    PROVE  ~Publish
<1>1. Publish => call.phase = "manifest" /\ Length' = Length + 1 /\ Length \in Nat
  BY PublishFacts
<1>2. CASE Ends
  BY <1>1, <1>2, JournalKept DEF Ends
<1>3. CASE Begins
  BY <1>1, <1>3 DEF Begins
<1>4. CASE Rests
  BY <1>1, <1>4, DiskKept, JournalKept DEF Rests
<1>5. CASE Proceeds
  BY <1>1, <1>5, ProceedsFacts DEF Archive, Advance
<1> QED
  BY <1>2, <1>3, <1>4, <1>5

-----------------------------------------------------------------------------
(* KInv is inductive relative to IInv *)

\* What a running attempt documents does not depend on the journal once it is
\* in memory.
LEMMA SameRecords ==
    ASSUME Journal' = Journal, NEW c
    PROVE  ChangeRecordOf(c)' = ChangeRecordOf(c)
BY DEF ChangeRecordOf

\* Without a commit the archives stay what they are.
LEMMA PriorContentStays ==
    ASSUME IInv, IInv', [Next]_vars, ~Publish, clean' => clean, ArchivesPriorContent
    PROVE  ArchivesPriorContent'
<1>1. Entries' = Entries /\ (\A n \in Entries : slot'[n] = slot[n]) /\ asOf' = asOf
  BY JournalStays
<1>2. ASSUME clean', NEW n \in Entries', NEW i \in DOMAIN slot'[n].manifest.changes,
             slot'[n].manifest.changes[i].archived
      PROVE  slot'[n].archive[At[slot'[n].manifest.changes[i].asset]]
               = asOf'[n - 1][At[slot'[n].manifest.changes[i].asset]]
  <2>1. n \in Entries /\ slot'[n] = slot[n] /\ clean
    BY <1>1, <1>2
  <2>2. i \in DOMAIN slot[n].manifest.changes /\ slot[n].manifest.changes[i].archived
    BY <1>2, <2>1
  <2>3. slot[n].archive[At[slot[n].manifest.changes[i].asset]]
          = asOf[n - 1][At[slot[n].manifest.changes[i].asset]]
    BY <2>1, <2>2 DEF ArchivesPriorContent
  <2> QED
    BY <1>1, <2>1, <2>3
<1> QED
  BY <1>2 DEF ArchivesPriorContent

LEMMA EndsK ==
    ASSUME IInv, IInv', [Next]_vars, KInv, Ends
    PROVE  KInv'
<1>1. ~Publish
  BY NotPublish
<1>2. call' = Idle /\ ~Attempting' /\ call'.phase = "idle"
  BY DEF Ends, Idle, Attempting, Stepping
<1>3. clean' => /\ clean /\ UNCHANGED <<tree, global>>
                /\ call.phase \in {"idle", "archive", "next"}
  BY DEF Ends
<1>4. Undamaged'
  <2>1. Length' = Length /\ asOf' = asOf
    BY <1>1, JournalStays
  <2>2. ASSUME clean' PROVE tree = asOf[Length]
    <3>1. CASE call.phase = "archive"
      <4>1. Attempting
        BY <3>1 DEF Attempting, Stepping
      <4> QED
        BY <1>3, <2>2, <3>1, <4>1 DEF KInv, Undamaged, IInv, ArchiveProgress
    <3> QED
      BY <1>3, <2>2, <3>1 DEF KInv, Undamaged
  <2> QED
    BY <1>2, <1>3, <2>1, <2>2 DEF Undamaged
<1>5. InMemory' /\ Swept' /\ Refreshed'
  BY <1>2 DEF InMemory, Swept, Refreshed
<1>6. ArchivesPriorContent'
  BY <1>1, <1>3, PriorContentStays DEF KInv
<1> QED
  BY <1>4, <1>5, <1>6 DEF KInv

LEMMA BeginsK ==
    ASSUME IInv, IInv', [Next]_vars, KInv, Begins
    PROVE  KInv'
<1>1. ~Publish
  BY NotPublish
<1>2. PICK pending \in Seq(Change), applied \in Instant, rolling \in BOOLEAN,
           undo \in Nat, aim \in Nat : Begin(pending, applied, rolling, undo, aim)
  BY DEF Begins
<1>3. /\ UNCHANGED <<tree, global, asOf, clean>>
      /\ call.phase \in {"idle", "next"}
      /\ call'.phase = "archive" /\ call'.pending = pending
      /\ call'.changes = [i \in DOMAIN pending |-> ChangeRecordOf(pending[i])]
      /\ base'.tree = tree
      /\ Valid(pending) /\ (Gpkg => Prepared(pending))
  BY <1>2 DEF Begins, Begin, disk, Accepts
<1>4. Length' = Length /\ Journal' = Journal
  BY <1>1, JournalStays
<1>5. Undamaged'
  BY <1>3, <1>4 DEF KInv, Undamaged
<1>6. InMemory'
  <2>1. \A i \in DOMAIN pending : ChangeRecordOf(pending[i])' = ChangeRecordOf(pending[i])
    BY <1>3, <1>4 DEF ChangeRecordOf
  <2>2. call'.changes = [i \in DOMAIN call'.pending |-> ChangeRecordOf(call.pending[i])']
    BY <1>3, <1>4 DEF ChangeRecordOf
  <2>3. \A i, j \in DOMAIN pending : pending[i].asset = pending[j].asset => i = j
    BY <1>3 DEF Valid
  <2>4. Gpkg => \A i, j \in DOMAIN pending :
           LET r == pending[i].record
           IN  r # NoRecord => /\ At[r] # At[pending[j].asset]
                               /\ r \in RecordName /\ tree[At[r]] \in Doc
    BY <1>3 DEF Prepared
  <2> QED
    BY <1>3, <2>2, <2>3, <2>4 DEF InMemory
<1>7. Swept'
  <2>1. ASSUME NEW i \in DOMAIN pending
        PROVE  LET c == pending[i]
               IN  /\ {c.asset, c.record} \cap Reserved = {}
                   /\ c.op \in {"setstate", "clearstate"} => IsFile(tree, At[c.asset])
                   /\ c.op = "clearstate" => StateFrom(Journal, c.asset) # NoState
    BY <1>2 DEF Begin, Accepts, Sweep, Precondition
  <2>2. pending # <<>>
    BY <1>3 DEF Valid
  <2> QED
    BY <1>3, <1>4, <2>1, <2>2 DEF Swept, IsFile
<1>8. Refreshed'
  BY <1>3 DEF Refreshed, RefreshedSoFar
<1>9. ArchivesPriorContent'
  BY <1>1, <1>3, PriorContentStays DEF KInv
<1> QED
  BY <1>5, <1>6, <1>7, <1>8, <1>9 DEF KInv

LEMMA RestsK ==
    ASSUME IInv, IInv', [Next]_vars, KInv, Rests
    PROVE  KInv'
<1>1. UNCHANGED <<tree, slot, global, call, base, asOf, clean>>
  BY DEF Rests, disk, history
<1>2. Length' = Length /\ Journal' = Journal /\ Entries' = Entries
  BY NotPublish, JournalStays
<1>3. Undamaged' /\ Refreshed' /\ ArchivesPriorContent'
  BY <1>1, <1>2 DEF KInv, Undamaged, Refreshed, RefreshedSoFar, ArchivesPriorContent,
                    Attempting, Stepping
<1>4. InMemory' /\ Swept'
  BY <1>1, <1>2 DEF KInv, InMemory, Swept, IsFile, ChangeRecordOf, Attempting, Stepping
<1> QED
  BY <1>3, <1>4 DEF KInv

LEMMA ProceedsK ==
    ASSUME IInv, IInv', [Next]_vars, KInv, Proceeds
    PROVE  KInv'
<1>1. ~Publish
  BY NotPublish
<1>2. /\ SameAttempt /\ Attempting /\ Attempting'
      /\ call'.phase \notin {"idle", "next"}
      /\ call'.phase # "archive" \/ Archive
  BY ProceedsFacts
<1>3. Length' = Length /\ Journal' = Journal /\ asOf' = asOf
  BY <1>1, JournalStays
<1>4. Undamaged'
  BY <1>2, <1>3 DEF KInv, Undamaged, SameAttempt
<1>5. InMemory' /\ Swept'
  BY <1>2, <1>3 DEF KInv, InMemory, Swept, IsFile, SameAttempt, ChangeRecordOf
<1>6. Refreshed'
  <2>1. CASE Archive
    BY <2>1, Advances DEF Archive, Refreshed, RefreshedSoFar
  <2>2. CASE Mutate
    <3>1. /\ call'.phase \in {"mutate", "records"}
          /\ call'.phase = "records" => call'.at = 1
      BY <2>2, Advances DEF Mutate
    <3> QED
      BY <3>1 DEF Refreshed, RefreshedSoFar
  <2>3. CASE RefreshRecord
    <3>1. /\ call.phase = "records" /\ call'.phase \in {"records", "global"}
          /\ call.pending \in Seq(Change) /\ DOMAIN call.pending = 1 .. Len(call.pending)
          /\ Len(call.pending) \in Nat /\ call.at \in 1 .. Len(call.pending)
          /\ call'.phase = "records" => call'.at = call.at + 1
          /\ call'.phase = "global" => call.at = Len(call.pending)
          /\ call'.pending = call.pending /\ call'.applied = call.applied
      BY <2>3, Advances DEF RefreshRecord, SameAttempt
    <3>2. ASSUME NEW i \in RefreshedSoFar', call.pending[i].record # NoRecord
          PROVE  tree'[At[call.pending[i].record]] = [updated |-> call.applied]
      <4> DEFINE p == At[call.pending[i].record]
      <4>1. i \in 1 .. call.at /\ i \in DOMAIN call.pending
        BY <3>1 DEF RefreshedSoFar
      <4>2. p \in Place
        <5>1. call.pending[i] \in Change
          BY <3>1, <4>1, ElementOfSeq
        <5> QED
          BY <3>2, <5>1, StoreAssumption DEF Change
      <4>3. i # call.at => tree[p] = [updated |-> call.applied]
        <5>1. i # call.at => i \in RefreshedSoFar
          BY <3>1, <4>1 DEF RefreshedSoFar
        <5> QED
          BY <1>2, <3>2, <5>1 DEF KInv, Refreshed
      <4>4. DOMAIN tree = Place
        BY DEF IInv, TypeOK, Tree
      <4>5. CASE i = call.at
        BY <2>3, <3>2, <4>2, <4>4, <4>5 DEF RefreshRecord, Linked, Current
      <4>6. CASE i # call.at
        BY <2>3, <4>2, <4>3, <4>4, <4>6 DEF RefreshRecord
      <4> QED
        BY <4>5, <4>6
    <3> QED
      BY <3>1, <3>2 DEF Refreshed
  <2>4. CASE RefreshGlobal
    <3>1. /\ call.phase = "global" /\ call'.phase = "manifest"
          /\ call'.pending = call.pending /\ call'.applied = call.applied
          /\ tree' = tree /\ global' = call.applied
      <4>1. call \in Call
        BY DEF IInv, TypeOK
      <4> QED
        BY <2>4, <4>1 DEF RefreshGlobal, Call
    <3> QED
      BY <1>2, <3>1 DEF KInv, Refreshed, RefreshedSoFar
  <2> QED
    BY <2>1, <2>2, <2>3, <2>4 DEF Proceeds
<1>7. ArchivesPriorContent'
  BY <1>1, <1>2, PriorContentStays DEF KInv, SameAttempt
<1> QED
  BY <1>4, <1>5, <1>6, <1>7 DEF KInv

\* The commit: the checked attempt becomes the last collection.
LEMMA PublishK ==
    ASSUME IInv, IInv', [Next]_vars, KInv, Publish
    PROVE  KInv'
<1>1. /\ call.phase = "manifest" /\ Attempting /\ call.seq = Length + 1 /\ Length \in Nat
      /\ call.seq \in Sequence /\ call \in Call
      /\ Length' = Length + 1 /\ Entries' = Entries \cup {Length + 1}
      /\ Entries = 1 .. Length
      /\ \A n \in Entries : slot'[n] = slot[n] /\ asOf'[n] = asOf[n]
      /\ asOf'[0] = asOf[0]
      /\ slot'[Length + 1].manifest = [applied |-> call.applied, changes |-> call.changes]
      /\ slot'[Length + 1].archive = slot[Length + 1].archive
      /\ asOf'[Length + 1] = tree
      /\ UNCHANGED <<tree, global, base, clean>>
      /\ Journal'[Length + 1] = [applied |-> call.applied, changes |-> call.changes]
  BY PublishFacts
<1>2. /\ call'.phase \in {"idle", "next"} /\ ~Attempting'
  <2>1. call' = Idle \/ call' = [call EXCEPT !.phase = "next"]
    BY DEF Publish
  <2>2. call'.phase \in {"idle", "next"}
    BY <1>1, <2>1 DEF Idle, Call
  <2> QED
    BY <2>2 DEF Attempting, Stepping
<1>3. /\ DOMAIN call.changes = DOMAIN call.pending
      /\ \A i \in DOMAIN call.pending :
            call.changes[i].asset = call.pending[i].asset
            /\ call.changes[i].record = call.pending[i].record
            /\ call.changes[i].archived = (call.pending[i].op \in Archiving)
  BY <1>1 DEF KInv, InMemory, ChangeRecordOf
<1>4. Undamaged'
  BY <1>1, <1>2 DEF Undamaged
<1>5. InMemory' /\ Swept' /\ Refreshed'
  BY <1>2 DEF InMemory, Swept, Refreshed
<1>6. ArchivesPriorContent'
  <2>1. ASSUME clean, NEW n \in Entries, NEW i \in DOMAIN slot'[n].manifest.changes,
               slot'[n].manifest.changes[i].archived
        PROVE  slot'[n].archive[At[slot'[n].manifest.changes[i].asset]]
                 = asOf'[n - 1][At[slot'[n].manifest.changes[i].asset]]
    <3>1. slot'[n] = slot[n] /\ asOf'[n - 1] = asOf[n - 1]
      <4>1. n \in Nat /\ n >= 1 /\ (n = 1 \/ n - 1 \in Entries) /\ 1 - 1 = 0
        BY <1>1
      <4> QED
        BY <1>1, <4>1
    <3>2. i \in DOMAIN slot[n].manifest.changes /\ slot[n].manifest.changes[i].archived
      BY <2>1, <3>1
    <3>3. slot[n].archive[At[slot[n].manifest.changes[i].asset]]
            = asOf[n - 1][At[slot[n].manifest.changes[i].asset]]
      BY <2>1, <3>2 DEF KInv, ArchivesPriorContent
    <3> QED
      BY <3>1, <3>3
  <2>2. ASSUME clean, NEW i \in DOMAIN call.changes, call.changes[i].archived
        PROVE  slot[Length + 1].archive[At[call.changes[i].asset]]
                 = asOf[Length][At[call.changes[i].asset]]
    <3>1. i \in DOMAIN call.pending /\ i \in ArchivedSoFar
      BY <1>1, <1>3 DEF ArchivedSoFar
    <3>2. call.pending[i].op \in Archiving
      BY <1>3, <2>2
    <3>3. slot[call.seq].archive[At[call.pending[i].asset]]
            = base.tree[At[call.pending[i].asset]]
      BY <1>1, <3>1, <3>2 DEF IInv, ArchiveProgress
    <3>4. base.tree = asOf[Length]
      BY <1>1, <2>2 DEF KInv, Undamaged
    <3> QED
      BY <1>1, <1>3, <3>1, <3>3, <3>4
  <2>3. asOf'[Length] = asOf[Length] /\ Length + 1 - 1 = Length
    <3>1. Length = 0 \/ Length \in Entries
      BY <1>1
    <3> QED
      BY <1>1, <3>1
  <2>4. ASSUME clean, NEW n \in Entries', NEW i \in DOMAIN slot'[n].manifest.changes,
               slot'[n].manifest.changes[i].archived
        PROVE  slot'[n].archive[At[slot'[n].manifest.changes[i].asset]]
                 = asOf'[n - 1][At[slot'[n].manifest.changes[i].asset]]
    <3>1. CASE n \in Entries
      BY <2>1, <2>4, <3>1
    <3>2. CASE n = Length + 1
      <4>1. /\ slot'[n].manifest.changes = call.changes
            /\ slot'[n].archive = slot[Length + 1].archive
            /\ asOf'[n - 1] = asOf[Length]
        BY <1>1, <2>3, <3>2
      <4>2. i \in DOMAIN call.changes /\ call.changes[i].archived
        BY <2>4, <4>1
      <4> QED
        BY <1>1, <2>2, <2>4, <4>1, <4>2
    <3> QED
      BY <1>1, <2>4, <3>1, <3>2
  <2> QED
    BY <1>1, <2>4 DEF ArchivesPriorContent
<1> QED
  BY <1>4, <1>5, <1>6 DEF KInv

LEMMA NextK ==
    IInv /\ IInv' /\ [Next]_vars /\ KInv => KInv'
BY Kinds, EndsK, BeginsK, RestsK, ProceedsK, PublishK DEF Proceeds

LEMMA InitLength ==
    ASSUME Init
    PROVE  Entries = {} /\ Length = 0
<1>1. Entries = {}
  BY DEF Init, Entries, Committed
<1>2. Entries = 1 .. 0
  BY <1>1
<1> QED
  BY <1>1, <1>2, LengthIs

LEMMA InitK ==
    Init => KInv
<1> SUFFICES ASSUME Init PROVE KInv
  OBVIOUS
<1>1. Entries = {} /\ Length = 0
  BY InitLength
<1>2. call.phase = "idle" /\ ~Attempting /\ tree = asOf[0]
  BY StoreAssumption DEF Init, Idle, Attempting, Stepping
<1> QED
  BY <1>1, <1>2 DEF KInv, Undamaged, InMemory, Swept, Refreshed, ArchivesPriorContent

LEMMA KInvariance == Spec => []KInv
BY InitK, NextK, Invariance, PTL DEF Spec

\* Until the next attempt begins, what the last one committed is left alone.
LEMMA CommittedRests ==
    ASSUME IInv, IInv', [Next]_vars, ~Publish, base'.seq \in Entries'
    PROVE  /\ base.seq \in Entries /\ UNCHANGED <<tree, global, base>>
           /\ slot'[base.seq] = slot[base.seq]
<1>1. Entries' = Entries /\ (\A n \in Entries : slot'[n] = slot[n])
  BY JournalStays
<1>2. Length \in Nat /\ Entries = 1 .. Length /\ Length + 1 \notin Entries
  BY LengthType, StoreAssumption DEF IInv, Contiguous
<1>3. ~Begins
  <2> SUFFICES ASSUME Begins PROVE FALSE
    OBVIOUS
  <2>1. base'.seq = Length + 1
    BY DEF Begins, Begin, NextSequence
  <2> QED
    BY <1>1, <1>2, <2>1
<1>4. base' = base
  BY <1>3, Kinds, ProceedsFacts DEF Ends, Rests, history, Proceeds, SameAttempt
<1>5. ~Attempting /\ base.seq \in Entries
  BY <1>1, <1>2, <1>4 DEF IInv, CallConsistent
<1>6. call.phase \in {"idle", "next"}
  BY <1>5 DEF IInv, TypeOK, Call, Phase, Attempting, Stepping
<1>7. Ends \/ Rests
  BY <1>3, <1>5, Kinds, ProceedsFacts DEF Proceeds
<1>8. UNCHANGED <<tree, global>>
  BY <1>6, <1>7 DEF Ends, Rests, disk
<1> QED
  BY <1>1, <1>4, <1>5, <1>8

LEMMA PublishAgrees ==
    ASSUME IInv, IInv', KInv, Publish
    PROVE  TimestampsAgree' /\ ArchivedAsFound'
<1>1. /\ call.phase = "manifest" /\ Attempting /\ call.seq = Length + 1
      /\ slot'[Length + 1].manifest = [applied |-> call.applied, changes |-> call.changes]
      /\ slot'[Length + 1].archive = slot[Length + 1].archive
      /\ UNCHANGED <<tree, global, base>>
  BY PublishFacts
<1>2. base'.seq = Length + 1 /\ base'.tree = base.tree /\ call.seq = base.seq
  BY <1>1 DEF IInv, CallConsistent
<1>3. /\ DOMAIN call.changes = DOMAIN call.pending
      /\ \A i \in DOMAIN call.pending :
            /\ call.changes[i].asset = call.pending[i].asset
            /\ call.changes[i].record = call.pending[i].record
            /\ call.changes[i].action = ActionOf(call.pending[i].op)
  BY <1>1 DEF KInv, InMemory, ChangeRecordOf
<1>4. TimestampsAgree'
  <2>1. global = call.applied
    BY <1>1 DEF KInv, Refreshed
  <2>2. ASSUME NEW i \in DOMAIN call.changes, call.changes[i].record # NoRecord
        PROVE  tree[At[call.changes[i].record]] = [updated |-> call.applied]
    <3>1. i \in RefreshedSoFar
      BY <1>1, <1>3 DEF RefreshedSoFar
    <3> QED
      BY <1>1, <1>3, <2>2, <3>1 DEF KInv, Refreshed
  <2>3. slot'[base'.seq].manifest.applied = call.applied
        /\ slot'[base'.seq].manifest.changes = call.changes
    BY <1>1, <1>2
  <2>4. global' = slot'[base'.seq].manifest.applied
    BY <1>1, <2>1, <2>3
  <2>5. ASSUME NEW i \in DOMAIN slot'[base'.seq].manifest.changes,
               slot'[base'.seq].manifest.changes[i].record # NoRecord
        PROVE  tree'[At[slot'[base'.seq].manifest.changes[i].record]]
                 = [updated |-> slot'[base'.seq].manifest.applied]
    BY <1>1, <2>2, <2>3, <2>5
  <2> QED
    BY <2>4, <2>5 DEF TimestampsAgree
<1>5. ArchivedAsFound'
  <2>1. ASSUME NEW i \in DOMAIN call.changes,
               call.changes[i].action \in {"replaced", "deleted"}
        PROVE  slot[Length + 1].archive[At[call.changes[i].asset]]
                 = base.tree[At[call.changes[i].asset]]
    <3>1. i \in ArchivedSoFar
      BY <1>1, <1>3 DEF ArchivedSoFar
    <3>2. call.pending[i] \in Change
      BY <1>3, ElementOfSeq DEF IInv, TypeOK, Call
    <3>3. call.pending[i].op \in Archiving
      BY <1>3, <2>1, <3>2 DEF ActionOf, Change, Op, Archiving
    <3> QED
      BY <1>1, <1>3, <3>1, <3>3 DEF IInv, ArchiveProgress
  <2>2. /\ slot'[base'.seq].manifest.changes = call.changes
        /\ slot'[base'.seq].archive = slot[Length + 1].archive /\ base'.tree = base.tree
    BY <1>1, <1>2
  <2>3. ASSUME NEW i \in DOMAIN slot'[base'.seq].manifest.changes,
               slot'[base'.seq].manifest.changes[i].action \in {"replaced", "deleted"}
        PROVE  slot'[base'.seq].archive[At[slot'[base'.seq].manifest.changes[i].asset]]
                 = base'.tree[At[slot'[base'.seq].manifest.changes[i].asset]]
    BY <2>1, <2>2, <2>3
  <2> QED
    BY <2>3 DEF ArchivedAsFound
<1> QED
  BY <1>4, <1>5

LEMMA AgreeNext ==
    /\ IInv /\ IInv' /\ KInv /\ [Next]_vars /\ TimestampsAgree /\ ArchivedAsFound
    => TimestampsAgree' /\ ArchivedAsFound'
<1> SUFFICES ASSUME IInv, IInv', KInv, [Next]_vars, TimestampsAgree, ArchivedAsFound
             PROVE  TimestampsAgree' /\ ArchivedAsFound'
  OBVIOUS
<1>1. CASE Publish
  BY <1>1, PublishAgrees
<1>2. CASE ~Publish
  <2>1. base'.seq \in Entries' => /\ base.seq \in Entries /\ UNCHANGED <<tree, global, base>>
                                 /\ slot'[base.seq] = slot[base.seq]
    BY <1>2, CommittedRests
  <2>2. TimestampsAgree'
    BY <2>1 DEF TimestampsAgree
  <2>3. ArchivedAsFound'
    <3>1. ASSUME base'.seq \in Entries', NEW i \in DOMAIN slot'[base'.seq].manifest.changes,
                 slot'[base'.seq].manifest.changes[i].action \in {"replaced", "deleted"}
          PROVE  slot'[base'.seq].archive[At[slot'[base'.seq].manifest.changes[i].asset]]
                   = base'.tree[At[slot'[base'.seq].manifest.changes[i].asset]]
      <4>1. base.seq \in Entries /\ base' = base /\ slot'[base.seq] = slot[base.seq]
        BY <2>1, <3>1
      <4> QED
        BY <3>1, <4>1 DEF ArchivedAsFound
    <3> QED
      BY <3>1 DEF ArchivedAsFound
  <2> QED
    BY <2>2, <2>3
<1> QED
  BY <1>1, <1>2

LEMMA AgreeAlways == Spec => [](TimestampsAgree /\ ArchivedAsFound)
<1>1. Init => TimestampsAgree /\ ArchivedAsFound
  BY InitLength DEF TimestampsAgree, ArchivedAsFound
<1> QED
  BY <1>1, AgreeNext, Invariance, KInvariance, PTL DEF Spec

\* V3-A: after a commit one instant stands in the manifest, in the global
\* record and in every record the collection links, whatever instants earlier
\* collections and interrupted attempts have left there.
THEOREM OneInstant == Spec => []TimestampsAgree
BY AgreeAlways, PTL

\* The bytes an attempt found where it replaced or deleted a file are in its
\* archive once it has committed, whatever retries, torn copies and spellings
\* of one path came before.
THEOREM ArchivesAsFound == Spec => []ArchivedAsFound
BY AgreeAlways, PTL

\* The archive of a collection holds what the file was before the collection,
\* however many attempts at that collection were interrupted first.
THEOREM ArchivesArePrior == Spec => []ArchivesPriorContent
<1>1. KInv => ArchivesPriorContent
  BY DEF KInv
<1> QED
  BY <1>1, KInvariance, PTL

-----------------------------------------------------------------------------
(* Nothing is lost in a GeoPackage store *)

LEMMA BlurredFacts ==
    ASSUME NEW t \in Tree, NEW p \in Place
    PROVE  /\ IsFile(t, p) <=> Blurred(t[p]) # Absent
           /\ t[p] \in Doc => Blurred(t[p]) = [updated |-> NoInstant]
<1>1. NoInstant \in Instant \cup {NoInstant}
  OBVIOUS
<1>2. [updated |-> NoInstant] \in Content
  BY <1>1 DEF Content, Doc
<1>3. \A d \in Doc : d \in Content
  BY DEF Content
<1> QED
  BY <1>2, <1>3, StoreAssumption DEF Blurred, IsFile

\* The running change, against the tree its attempt began on.
LEMMA CurrentFacts ==
    ASSUME IInv, Stepping
    PROVE  /\ Current.op = "create" => base.tree[Target] = Absent
           /\ Current.op \in Archiving => IsFile(base.tree, Target)
           /\ call.phase # "archive" /\ Current.op \in Archiving
                => slot[base.seq].archive[Target] = base.tree[Target]
           /\ base.seq = call.seq /\ base.tree \in Tree /\ tree \in Tree
<1>1. Attempting /\ call.at \in DOMAIN call.pending
  BY DEF Attempting, IInv, CallConsistent
<1>2. base.seq = call.seq /\ base.tree \in Tree /\ tree \in Tree
  BY <1>1 DEF IInv, CallConsistent, TypeOK
<1>3. call.phase # "archive" => call.at \in ArchivedSoFar
  BY <1>1 DEF ArchivedSoFar
<1> QED
  BY <1>1, <1>2, <1>3 DEF IInv, ArchiveProgress, Current, Target

\* A file an attempt found stays kept when only the place of the running change
\* is written, because the change is a create or its prior bytes are archived.
LEMMA KeptWhereWritten ==
    ASSUME IInv, call.phase = "mutate", NEW p \in Place, Kept(p),
           UNCHANGED <<slot, base>>, tree' \in Tree,
           Current.op \in {"create", "replace", "delete"},
           \A q \in Place : q # Target /\ IsFile(tree, q) => tree'[q] = tree[q]
    PROVE  Kept(p)'
<1>1. Stepping
  BY DEF Stepping
<1>2. base.tree \in Tree /\ tree \in Tree
  BY <1>1, CurrentFacts
<1> SUFFICES ASSUME IsFile(base.tree, p), slot[base.seq].archive[p] # base.tree[p]
             PROVE  Blurred(tree'[p]) = Blurred(base.tree[p])
  BY DEF Kept, IsFile
<1>3. Blurred(tree[p]) = Blurred(base.tree[p])
  BY DEF Kept
<1>4. IsFile(tree, p)
  BY <1>2, <1>3, BlurredFacts
<1>5. p # Target
  BY <1>1, CurrentFacts DEF IsFile, Archiving
<1> QED
  BY <1>3, <1>4, <1>5

LEMMA LostStep ==
    ASSUME IInv, IInv', [Next]_vars, KInv, Gpkg, NothingLost
    PROVE  NothingLost'
<1>1. tree \in Tree /\ base.tree \in Tree /\ tree' \in Tree
  BY DEF IInv, TypeOK
<1>2. CASE UNCHANGED <<tree, slot, base>>
  BY <1>2 DEF NothingLost, Kept, IsFile
<1>3. CASE Begins
  <2>1. base'.tree = tree /\ tree' = tree
    BY <1>3 DEF Begins, Begin, disk
  <2> QED
    BY <2>1 DEF NothingLost, Kept
<1>4. CASE call.phase = "archive" /\ UNCHANGED <<tree, base>>
  <2>1. tree = base.tree
    BY <1>4 DEF IInv, ArchiveProgress, Attempting, Stepping
  <2> QED
    BY <1>4, <2>1 DEF NothingLost, Kept
<1>5. CASE call.phase = "mutate" /\ UNCHANGED <<slot, base>>
           /\ Current.op \in {"create", "replace", "delete"}
           /\ \A q \in Place : q # Target /\ IsFile(tree, q) => tree'[q] = tree[q]
  BY <1>1, <1>5, KeptWhereWritten DEF NothingLost
<1>6. CASE Mutate
  <2>1. call.phase = "mutate" /\ Stepping /\ UNCHANGED <<slot, base>>
    BY <1>6, Advances DEF Mutate, SameAttempt
  <2>2. Current \in Change /\ Target \in Place
    BY <2>1, TargetFacts
  <2>3. CASE WriteAsset
    <3>1. Current.value \in Content /\ CanWrite(tree, Target)
      BY <2>2, <2>3 DEF WriteAsset, Change
    <3>2. \A q \in Place : q # Target /\ IsFile(tree, q) => tree'[q] = tree[q]
      BY <1>1, <2>2, <2>3, <3>1, WrittenTree DEF WriteAsset
    <3> QED
      BY <1>5, <2>1, <2>3, <3>2 DEF WriteAsset, Writing
  <2>4. CASE RemoveAsset
    BY <1>1, <1>5, <2>1, <2>2, <2>4 DEF RemoveAsset, Removed, Tree
  <2>5. CASE ChangeState
    BY <1>2, <2>1, <2>5 DEF ChangeState
  <2> QED
    BY <1>6, <2>3, <2>4, <2>5 DEF Mutate
<1>7. CASE RefreshRecord
  <2>1. /\ call.phase = "records" /\ Attempting /\ UNCHANGED <<slot, base>>
        /\ call.at \in DOMAIN call.pending /\ call.pending \in Seq(Change)
        /\ call.applied \in Instant
    BY <1>7, Advances DEF RefreshRecord, SameAttempt, IInv, CallConsistent
  <2>2. CASE Linked = NoRecord
    BY <1>2, <1>7, <2>1, <2>2 DEF RefreshRecord
  <2>3. CASE Linked # NoRecord
    <3>1. base.tree[At[Linked]] \in Doc
      BY <2>1, <2>3 DEF KInv, InMemory, Linked, Current
    <3>2. At[Linked] \in Place
      <4>1. Current \in Change
        BY <2>1, TargetFacts DEF Stepping
      <4> QED
        BY <2>3, <4>1, StoreAssumption DEF Change, Linked
    <3>3. tree' = [tree EXCEPT ![At[Linked]] = [updated |-> call.applied]]
      BY <1>7, <2>3 DEF RefreshRecord
    <3>4. tree'[At[Linked]] \in Doc
      <4>1. tree'[At[Linked]] = [updated |-> call.applied]
        BY <1>1, <3>2, <3>3 DEF Tree
      <4> QED
        BY <2>1, <4>1 DEF Doc
    <3>5. Blurred(tree'[At[Linked]]) = Blurred(base.tree[At[Linked]])
      BY <1>1, <3>1, <3>2, <3>4, BlurredFacts
    <3>6. \A q \in Place : q # At[Linked] => tree'[q] = tree[q]
      BY <1>1, <3>3 DEF Tree
    <3> QED
      BY <2>1, <3>5, <3>6 DEF NothingLost, Kept, IsFile
  <2> QED
    BY <2>2, <2>3
<1>8. CASE Publish
  <2>1. /\ UNCHANGED <<tree, base>> /\ base.seq = call.seq /\ call.seq = Length + 1
        /\ slot'[Length + 1].archive = slot[Length + 1].archive
    BY <1>8, PublishFacts DEF IInv, CallConsistent
  <2> QED
    BY <2>1 DEF NothingLost, Kept, IsFile
<1>9. CASE TearAsset
  <2>1. call.phase = "mutate" /\ Stepping /\ UNCHANGED <<slot, base>>
        /\ Current.op \in Writing /\ CanWrite(tree, Target)
    BY <1>9 DEF TearAsset, Interrupt, Stepping
  <2>2. Target \in Place /\ Torn \in Content
    BY <2>1, TargetFacts DEF Content
  <2>3. \A q \in Place : q # Target /\ IsFile(tree, q) => tree'[q] = tree[q]
    BY <1>1, <1>9, <2>1, <2>2, WrittenTree DEF TearAsset
  <2> QED
    BY <1>5, <2>1, <2>3 DEF Writing
<1>10. CASE Fault /\ ~TearAsset
  <2>1. UNCHANGED base
    BY <1>10, FaultEnds DEF Ends
  <2>2. CASE TearArchive
    BY <1>4, <2>1, <2>2 DEF TearArchive
  <2> QED
    BY <1>2, <1>10, <2>1, <2>2 DEF Fault, Stop, TearRecord, TearGlobal, TearManifest, disk
<1>11. CASE ArchiveBlocked \/ MutateBlocked \/ RefreshBlocked
  <2>1. UNCHANGED <<tree, slot, base>>
    BY <1>11 DEF ArchiveBlocked, MutateBlocked, RefreshBlocked, Blocked, disk
  <2> QED
    BY <1>2, <2>1
<1>12. CASE Refuse \/ Rests
  <2>1. UNCHANGED <<tree, slot, base>>
    BY <1>12 DEF Refuse, Rests, disk, history
  <2> QED
    BY <1>2, <2>1
<1>13. CASE Archive
  BY <1>4, <1>13 DEF Archive, Advance, history
<1>14. CASE RefreshGlobal
  <2>1. UNCHANGED <<tree, slot, base>>
    BY <1>14 DEF RefreshGlobal, history
  <2> QED
    BY <1>2, <2>1
<1>15. CASE Client \/ NextInverse
  BY <1>3, <1>12, <1>15, ClientKinds, NextInverseKinds
<1>16. CASE UNCHANGED vars
  <2>1. UNCHANGED <<tree, slot, base>>
    BY <1>16 DEF vars
  <2> QED
    BY <1>2, <2>1
<1> QED
  BY <1>6, <1>7, <1>8, <1>9, <1>10, <1>11, <1>13, <1>14, <1>15, <1>16
  DEF Next, Pipeline

\* Wherever an attempt on a GeoPackage store stops, every file it found is
\* still in place or in the attempt's archive, until the next attempt begins.
THEOREM GpkgLosesNothing == Spec => [](Gpkg => NothingLost)
<1>1. Init => (Gpkg => NothingLost)
  BY DEF Init, NothingLost
<1>2. IInv /\ IInv' /\ [Next]_vars /\ KInv /\ (Gpkg => NothingLost)
        => (Gpkg => NothingLost)'
  BY LostStep
<1> QED
  BY <1>1, <1>2, Invariance, KInvariance, PTL DEF Spec

-----------------------------------------------------------------------------
(* HInv is inductive relative to IInv and KInv, when places are their own *)

\* A tree that differs from a housed one only in an asset, which does not
\* become a directory, and in the directories above it is housed too.
LEMMA HousedAround ==
    ASSUME OwnPlaces, NEW t \in Tree, Housed(t), NEW u, NEW a \in Asset,
           u[At[a]] # Dir,
           \A q \in Place : q # At[a] =>
              u[q] = t[q] \/ (q \in Above[At[a]] /\ u[q] = Dir)
    PROVE  Housed(u)
<1>1. At \in [Asset -> Place] /\ Above \in [Place -> SUBSET Place]
  BY StoreAssumption
<1>2. SUFFICES ASSUME NEW b \in Asset
               PROVE  u[At[b]] # Dir /\ \A d \in Above[At[b]] : ~IsFile(u, d)
  BY DEF Housed
<1>3. At[b] \in Place /\ At[a] \in Place /\ Above[At[b]] \subseteq Place
  BY <1>1
<1>4. t[At[b]] # Dir /\ \A d \in Above[At[b]] : ~IsFile(t, d)
  BY DEF Housed
<1>5. At[b] \notin Above[At[a]] /\ At[a] \notin Above[At[b]]
  BY DEF OwnPlaces
<1>6. u[At[b]] # Dir
  BY <1>3, <1>4, <1>5
<1>7. ASSUME NEW d \in Above[At[b]] PROVE ~IsFile(u, d)
  BY <1>3, <1>4, <1>5 DEF IsFile
<1> QED
  BY <1>6, <1>7

LEMMA HousedCanWrite ==
    ASSUME NEW t, Housed(t), NEW a \in Asset
    PROVE  CanWrite(t, At[a])
BY DEF Housed, CanWrite

LEMMA HousedWritten ==
    ASSUME OwnPlaces, NEW t \in Tree, Housed(t), NEW a \in Asset, NEW c \in Content
    PROVE  /\ Housed(Written(t, At[a], c)) /\ Housed(WithParents(t, At[a]))
           /\ Housed([t EXCEPT ![At[a]] = c]) /\ Housed(Removed(t, At[a]))
<1>1. At[a] \in Place /\ DOMAIN t = Place /\ c # Dir /\ Absent # Dir /\ At[a] \notin Above[At[a]]
  BY StoreAssumption DEF Tree
<1>2. t[At[a]] # Dir
  BY DEF Housed
<1>3. Housed(Written(t, At[a], c))
  BY <1>1, HousedAround DEF Written, WithParents
<1>4. Housed(WithParents(t, At[a]))
  BY <1>1, <1>2, HousedAround DEF WithParents
<1>5. Housed([t EXCEPT ![At[a]] = c])
  BY <1>1, HousedAround
<1>6. Housed(Removed(t, At[a]))
  BY <1>1, HousedAround DEF Removed
<1> QED
  BY <1>3, <1>4, <1>5, <1>6

\* Making the directories above a file leaves every other file as it was.
LEMMA WrittenElsewhere ==
    ASSUME NEW t \in Tree, NEW p \in Place, NEW c \in Content, CanWrite(t, p),
           NEW q \in Place, q # p
    PROVE  Blurred(Written(t, p, c)[q]) = Blurred(t[q])
<1>1. Written(t, p, c)[q] = IF q \in Above[p] THEN Dir ELSE t[q]
  BY DEF Written, WithParents
<1>2. q \in Above[p] => t[q] \in {Absent, Dir}
  BY DEF CanWrite, IsFile
<1> QED
  BY <1>1, <1>2 DEF Blurred

\* Every asset of the running attempt.
LEMMA PendingFacts ==
    ASSUME IInv, Attempting, NEW i \in DOMAIN call.pending
    PROVE  /\ call.pending[i] \in Change /\ At[call.pending[i].asset] \in Place
           /\ call.pending[i].asset \in Asset
           /\ call.pending[i].record # NoRecord =>
                /\ call.pending[i].record \in Asset
                /\ At[call.pending[i].record] \in Place
<1>1. call.pending \in Seq(Change)
  BY DEF IInv, TypeOK, Call
<1>2. call.pending[i] \in Change
  BY <1>1, LenProperties, ElementOfSeq
<1> QED
  BY <1>2, StoreAssumption DEF Change

\* Two changes of an attempt are at two places.
LEMMA OnePlaceEach ==
    ASSUME OwnPlaces, IInv, KInv, Attempting,
           NEW i \in DOMAIN call.pending, NEW j \in DOMAIN call.pending,
           At[call.pending[i].asset] = At[call.pending[j].asset]
    PROVE  i = j
<1>1. call.pending[i].asset \in Asset /\ call.pending[j].asset \in Asset
  BY PendingFacts
<1>2. call.pending[i].asset = call.pending[j].asset
  BY <1>1 DEF OwnPlaces
<1> QED
  BY <1>2 DEF KInv, InMemory

\* Before its turn the place of a change is as the attempt found it.
LEMMA NotYetMutated ==
    ASSUME OwnPlaces, IInv, KInv, HInv, call.phase = "mutate"
    PROVE  Blurred(tree[Target]) = Blurred(base.tree[Target])
<1>1. Attempting /\ call.at \in DOMAIN call.pending /\ Target \in Place
      /\ Target = At[call.pending[call.at].asset]
  BY TargetFacts DEF Stepping, Attempting, Target, Current
<1>2. DOMAIN call.pending = 1 .. Len(call.pending) /\ Len(call.pending) \in Nat
  BY LenProperties DEF IInv, TypeOK, Call
<1>3. ASSUME NEW i \in MutatedSoFar, At[call.pending[i].asset] = Target PROVE FALSE
  <2>1. i \in 1 .. call.at - 1 /\ i \in DOMAIN call.pending
    BY <1>1, <1>2, <1>3 DEF MutatedSoFar
  <2>2. i = call.at
    BY <1>1, <1>3, <2>1, OnePlaceEach
  <2> QED
    BY <1>1, <1>2, <2>1, <2>2
<1>4. {i \in MutatedSoFar : At[call.pending[i].asset] = Target} = {}
  BY <1>3
<1> QED
  BY <1>1, <1>4 DEF HInv, Effects

\* A record about to be refreshed holds a document, so that refreshing it
\* changes no file but for its instant.
LEMMA LinkedIsDocument ==
    ASSUME IInv, KInv, HInv, RefreshRecord, Linked # NoRecord
    PROVE  /\ At[Linked] \in Place /\ Linked \in Asset
           /\ Blurred(tree[At[Linked]]) = [updated |-> NoInstant]
<1>1. Attempting /\ call.phase = "records" /\ call.at \in DOMAIN call.pending
  BY Advances DEF RefreshRecord
<1>2. At[Linked] \in Place /\ Linked \in Asset
  BY <1>1, PendingFacts DEF Linked, Current
<1>3. tree \in Tree /\ base.tree \in Tree
  BY DEF IInv, TypeOK
<1>4. CASE ~Gpkg
  BY <1>2, <1>3, <1>4, BlurredFacts DEF RefreshRecord, RecordUsable
<1>5. CASE Gpkg
  <2>1. /\ base.tree[At[Linked]] \in Doc
        /\ \A j \in DOMAIN call.pending : At[Linked] # At[call.pending[j].asset]
    BY <1>1, <1>5 DEF KInv, InMemory, Linked, Current
  <2>2. {i \in MutatedSoFar : At[call.pending[i].asset] = At[Linked]} = {}
    BY <1>1, <2>1 DEF MutatedSoFar
  <2>3. Blurred(tree[At[Linked]]) = Blurred(base.tree[At[Linked]])
    BY <1>1, <1>2, <2>2 DEF HInv, Effects
  <2> QED
    BY <1>2, <1>3, <2>1, <2>3, BlurredFacts
<1> QED
  BY <1>2, <1>4, <1>5

\* No step puts a file above an asset or a directory where one is.
LEMMA TreeHoused ==
    ASSUME OwnPlaces, IInv, IInv', [Next]_vars, HInv
    PROVE  Housed(tree)'
<1>1. tree \in Tree /\ Housed(tree)
  BY DEF IInv, TypeOK, HInv
<1>2. CASE UNCHANGED tree
  <2>1. PICK t \in Tree : t = tree /\ Housed(t)
    BY <1>1
  <2> QED
    BY <1>2, <1>1 DEF Housed, IsFile
<1>3. Stepping => /\ Current \in Change /\ Target \in Place /\ Current.asset \in Asset
                  /\ Linked # NoRecord => Linked \in Asset
  BY TargetFacts DEF Change, Linked
<1>4. CASE Mutate
  <2>1. Stepping
    BY <1>4, Advances DEF Mutate
  <2>2. CASE WriteAsset
    <3>1. Current.value \in Content
      BY <1>3, <2>1, <2>2 DEF WriteAsset, Change
    <3> QED
      BY <1>1, <1>3, <2>1, <2>2, <3>1, HousedWritten DEF WriteAsset, Target
  <2>3. CASE RemoveAsset
    <3>1. Torn \in Content
      BY DEF Content
    <3> QED
      BY <1>1, <1>3, <2>1, <2>3, <3>1, HousedWritten DEF RemoveAsset, Target
  <2> QED
    BY <1>2, <1>4, <2>2, <2>3 DEF Mutate, ChangeState
<1>5. CASE RefreshRecord
  <2>1. Stepping
    BY <1>5, Advances DEF RefreshRecord
  <2>2. [updated |-> call.applied] \in Content
    BY <2>1 DEF Content, Doc, IInv, CallConsistent, Stepping
  <2>3. CASE Linked # NoRecord
    BY <1>1, <1>3, <1>5, <2>1, <2>2, <2>3, HousedWritten DEF RefreshRecord
  <2> QED
    BY <1>2, <1>5, <2>3 DEF RefreshRecord
<1>6. CASE TearAsset
  <2>1. Stepping
    BY <1>6 DEF TearAsset, Stepping
  <2>2. Torn \in Content
    BY DEF Content
  <2>3. \/ tree' = WithParents(tree, At[Current.asset])
        \/ tree' = Written(tree, At[Current.asset], Torn)
    BY <1>6 DEF TearAsset, Target
  <2> QED
    BY <1>1, <1>3, <2>1, <2>2, <2>3, HousedWritten
<1>7. CASE TearRecord
  <2>1. Stepping
    BY <1>7 DEF TearRecord, Stepping
  <2>2. Torn \in Content
    BY DEF Content
  <2> QED
    BY <1>1, <1>3, <1>7, <2>1, <2>2, HousedWritten DEF TearRecord
<1>8. CASE Archive \/ RefreshGlobal \/ Publish \/ Begins \/ Rests
  <2>1. UNCHANGED tree
    BY <1>8 DEF Archive, RefreshGlobal, Publish, Begins, Begin, Rests, disk
  <2> QED
    BY <1>2, <2>1
<1>9. CASE ArchiveBlocked \/ MutateBlocked \/ RefreshBlocked
  <2>1. UNCHANGED tree
    BY <1>9 DEF ArchiveBlocked, MutateBlocked, RefreshBlocked, Blocked, disk
  <2> QED
    BY <1>2, <2>1
<1>10. CASE Refuse \/ Stop \/ TearArchive \/ TearGlobal \/ TearManifest \/ UNCHANGED vars
  <2>1. UNCHANGED tree
    BY <1>10 DEF Refuse, Stop, TearArchive, TearGlobal, TearManifest, disk, vars
  <2> QED
    BY <1>2, <2>1
<1> QED
  BY <1>4, <1>5, <1>6, <1>7, <1>8, <1>9, <1>10, ClientKinds, NextInverseKinds
  DEF Next, Pipeline, Fault

LEMMA ArchivesHoused ==
    ASSUME OwnPlaces, IInv, IInv', [Next]_vars, HInv
    PROVE  (\A n \in Sequence : Housed(slot[n].archive))'
<1> SUFFICES ASSUME NEW n \in Sequence PROVE Housed(slot'[n].archive)
  OBVIOUS
<1>1. slot[n] \in Slot /\ Housed(slot[n].archive) /\ slot \in [Sequence -> Slot]
  BY DEF IInv, TypeOK, HInv
<1>2. CASE slot'[n].archive = slot[n].archive
  BY <1>1, <1>2
<1>3. Stepping => /\ Current \in Change /\ Current.asset \in Asset
                  /\ tree[Target] \in Node
  BY TargetFacts DEF Change, Tree
<1>4. CASE Archive
  <2>1. Stepping /\ call.phase = "archive"
    BY <1>4, Advances DEF Archive
  <2>2. Current.op \in Archiving => tree[Target] \in Content
    <3>1. Current.op \in Archiving => IsFile(tree, Target)
      BY <2>1, CurrentFacts DEF IInv, ArchiveProgress, Attempting
    <3> QED
      BY <1>3, <2>1, <3>1, ContentIsFile
  <2>3. \/ slot'[n].archive = slot[n].archive
        \/ /\ Current.op \in Archiving
           /\ slot'[n].archive = Written(slot[n].archive, At[Current.asset], tree[Target])
    BY <1>1, <1>4 DEF Archive, Slot, Target
  <2> QED
    BY <1>1, <1>2, <1>3, <2>1, <2>2, <2>3, HousedWritten DEF Slot
<1>5. CASE TearArchive
  <2>1. Stepping /\ Torn \in Content
    BY <1>5 DEF TearArchive, Stepping, Content
  <2>2. \/ slot'[n].archive = slot[n].archive
        \/ slot'[n].archive = Written(slot[n].archive, At[Current.asset], Torn)
    BY <1>1, <1>5 DEF TearArchive, Slot, Target
  <2> QED
    BY <1>1, <1>2, <1>3, <2>1, <2>2, HousedWritten DEF Slot
<1>6. CASE Publish \/ TearManifest
  <2>1. slot'[n].archive = slot[n].archive
    BY <1>1, <1>6 DEF Publish, TearManifest, Slot
  <2> QED
    BY <1>2, <2>1
<1>7. CASE Mutate \/ RefreshRecord \/ RefreshGlobal \/ Begins \/ Rests
  <2>1. UNCHANGED slot
    BY <1>7 DEF Mutate, RefreshRecord, RefreshGlobal, Begins, Begin, Rests, disk
  <2> QED
    BY <1>2, <2>1
<1>8. CASE ArchiveBlocked \/ MutateBlocked \/ RefreshBlocked
  <2>1. UNCHANGED slot
    BY <1>8 DEF ArchiveBlocked, MutateBlocked, RefreshBlocked, Blocked, disk
  <2> QED
    BY <1>2, <2>1
<1>9. CASE Refuse \/ Stop \/ TearAsset \/ TearRecord \/ TearGlobal \/ UNCHANGED vars
  <2>1. UNCHANGED slot
    BY <1>9 DEF Refuse, Stop, TearAsset, TearRecord, TearGlobal, disk, vars
  <2> QED
    BY <1>2, <2>1
<1> QED
  BY <1>4, <1>5, <1>6, <1>7, <1>8, <1>9, ClientKinds, NextInverseKinds
  DEF Next, Pipeline, Fault

\* What the changes made so far say of one place.
EffectAt(p) ==
    LET made == {i \in MutatedSoFar : At[call.pending[i].asset] = p}
    IN  /\ \A i \in made :
              /\ call.pending[i].op \in Writing
                    => Blurred(tree[p]) = Blurred(call.pending[i].value)
              /\ call.pending[i].op = "delete" => Blurred(tree[p]) = Absent
        /\ (\A i \in made : call.pending[i].op \in {"setstate", "clearstate"})
              => Blurred(tree[p]) = Blurred(base.tree[p])

\* A step that makes no change and alters no file keeps the effects.
LEMMA EffectKept ==
    ASSUME NEW p \in Place, EffectAt(p), SameAttempt,
           {i \in MutatedSoFar : At[call.pending[i].asset] = p}'
              = {i \in MutatedSoFar : At[call.pending[i].asset] = p},
           Blurred(tree'[p]) = Blurred(tree[p])
    PROVE  EffectAt(p)'
BY DEF EffectAt, SameAttempt

\* The running change takes effect at its own place, and nowhere else.
LEMMA MutateEffects ==
    ASSUME OwnPlaces, IInv, IInv', KInv, HInv, Mutate, NEW p \in Place
    PROVE  EffectAt(p)'
<1>1. /\ SameAttempt /\ Attempting /\ Stepping /\ call.phase = "mutate"
      /\ call'.phase \in {"mutate", "records"}
      /\ DOMAIN call.pending = 1 .. Len(call.pending) /\ Len(call.pending) \in Nat
      /\ call.at \in 1 .. Len(call.pending)
      /\ call'.phase = "mutate" => call'.at = call.at + 1
      /\ call'.phase = "records" => call.at = Len(call.pending)
  BY Advances DEF Mutate
<1>2. MutatedSoFar = 1 .. call.at - 1 /\ MutatedSoFar' = 1 .. call.at
  <2>1. MutatedSoFar = 1 .. call.at - 1
    BY <1>1 DEF MutatedSoFar
  <2>2. call'.pending = call.pending
    BY <1>1 DEF SameAttempt
  <2>3. MutatedSoFar' = 1 .. call.at
    BY <1>1, <2>2 DEF MutatedSoFar
  <2> QED
    BY <2>1, <2>3
<1>3. /\ Current = call.pending[call.at] /\ Target = At[Current.asset]
      /\ Current \in Change /\ Target \in Place /\ tree \in Tree
  BY <1>1, TargetFacts DEF Current, Target
<1>4. EffectAt(p)
  BY <1>1 DEF HInv, Effects, EffectAt
<1>5. CASE p # Target
  <2>1. {i \in MutatedSoFar : At[call.pending[i].asset] = p}'
           = {i \in MutatedSoFar : At[call.pending[i].asset] = p}
    <3>1. {i \in 1 .. call.at : At[call.pending[i].asset] = p}
            = {i \in 1 .. call.at - 1 : At[call.pending[i].asset] = p}
      BY <1>1, <1>3, <1>5
    <3> QED
      BY <1>1, <1>2, <3>1 DEF SameAttempt
  <2>2. Blurred(tree'[p]) = Blurred(tree[p])
    <3>1. CASE WriteAsset
      BY <1>3, <1>5, <3>1, WrittenElsewhere DEF WriteAsset, Change
    <3>2. CASE RemoveAsset
      BY <1>3, <1>5, <3>2 DEF RemoveAsset, Removed, Tree
    <3> QED
      BY <3>1, <3>2 DEF Mutate, ChangeState
  <2> QED
    BY <1>1, <1>4, <2>1, <2>2, EffectKept
<1>6. CASE p = Target
  <2>1. {i \in MutatedSoFar : At[call.pending[i].asset] = p}' = {call.at}
    <3>1. {i \in 1 .. call.at : At[call.pending[i].asset] = p} = {call.at}
      <4>1. ASSUME NEW i \in 1 .. call.at, At[call.pending[i].asset] = p
            PROVE  i = call.at
        <5>1. i \in DOMAIN call.pending /\ call.at \in DOMAIN call.pending
          BY <1>1
        <5> QED
          BY <1>1, <1>3, <1>6, <4>1, <5>1, OnePlaceEach
      <4>2. call.at \in 1 .. call.at
        BY <1>1
      <4> QED
        BY <1>3, <1>6, <4>1, <4>2
    <3> QED
      BY <1>1, <1>2, <3>1 DEF SameAttempt
  <2>2. /\ Current.op \in Writing => Blurred(tree'[p]) = Blurred(Current.value)
        /\ Current.op = "delete" => Blurred(tree'[p]) = Absent
        /\ Current.op \in {"setstate", "clearstate"}
             => Blurred(tree'[p]) = Blurred(base.tree[p])
    <3>1. CASE WriteAsset
      <4>1. Current.value \in Content
        BY <1>3, <3>1 DEF WriteAsset, Change
      <4>2. tree'[p] = Current.value
        BY <1>3, <1>6, <3>1, <4>1, WrittenTree DEF WriteAsset
      <4> QED
        BY <3>1, <4>2 DEF WriteAsset, Writing
    <3>2. CASE RemoveAsset
      <4>1. tree'[p] = Absent
        BY <1>3, <1>6, <3>2 DEF RemoveAsset, Removed, Tree
      <4> QED
        BY <3>2, <4>1 DEF RemoveAsset, Writing, Blurred
    <3>3. CASE ChangeState
      BY <1>1, <1>6, <3>3, NotYetMutated DEF ChangeState, Writing
    <3> QED
      BY <3>1, <3>2, <3>3 DEF Mutate
  <2>3. call'.pending = call.pending /\ base' = base
    BY <1>1 DEF SameAttempt
  <2> QED
    BY <1>3, <2>1, <2>2, <2>3 DEF EffectAt
<1> QED
  BY <1>5, <1>6

LEMMA NextH ==
    OwnPlaces /\ IInv /\ IInv' /\ [Next]_vars /\ KInv /\ HInv => HInv'
<1> SUFFICES ASSUME OwnPlaces, IInv, IInv', [Next]_vars, KInv, HInv
             PROVE  HInv'
  OBVIOUS
<1>1. Housed(tree)' /\ (\A n \in Sequence : Housed(slot[n].archive))'
  BY TreeHoused, ArchivesHoused
<1> SUFFICES Effects'
  BY <1>1 DEF HInv
<1>2. Attempting => \A p \in Place : EffectAt(p)
  BY DEF HInv, Effects, EffectAt
<1>3. (Attempting => \A p \in Place : EffectAt(p))' => Effects'
  BY DEF Effects, EffectAt
<1>4. CASE Ends
  BY <1>3, <1>4 DEF Ends, Idle, Attempting, Stepping
<1>5. CASE Begins
  <2>1. call'.phase = "archive" /\ base'.tree = tree /\ tree' = tree
    BY <1>5 DEF Begins, Begin, disk
  <2>2. MutatedSoFar' = {}
    BY <2>1 DEF MutatedSoFar
  <2> QED
    BY <1>3, <2>1, <2>2 DEF EffectAt
<1>6. CASE Rests
  <2>1. UNCHANGED <<tree, call, base>>
    BY <1>6 DEF Rests, disk, history
  <2> QED
    BY <2>1 DEF HInv, Effects, MutatedSoFar, Attempting, Stepping
<1>7. CASE Archive
  <2>1. /\ call'.phase \in {"archive", "mutate"} /\ base' = base
        /\ call'.phase = "mutate" => call'.at = 1
        /\ call.phase = "archive" /\ Attempting
    BY <1>7, Advances DEF Archive, SameAttempt
  <2>2. MutatedSoFar' = {}
    BY <2>1 DEF MutatedSoFar
  <2>3. tree' = tree /\ tree = base.tree
    BY <1>7, <2>1 DEF Archive, IInv, ArchiveProgress
  <2> QED
    BY <1>3, <2>1, <2>2, <2>3 DEF EffectAt
<1>8. CASE Mutate
  BY <1>3, <1>8, MutateEffects
<1>9. CASE RefreshRecord
  <2>1. /\ SameAttempt /\ Attempting /\ call.phase = "records"
        /\ call'.phase \in {"records", "global"}
    BY <1>9, Advances DEF RefreshRecord
  <2>2. MutatedSoFar' = MutatedSoFar
    BY <2>1 DEF MutatedSoFar, SameAttempt
  <2>3. ASSUME NEW p \in Place PROVE EffectAt(p)'
    <3>1. {i \in MutatedSoFar : At[call.pending[i].asset] = p}'
             = {i \in MutatedSoFar : At[call.pending[i].asset] = p}
      BY <2>1, <2>2 DEF SameAttempt
    <3>2. tree \in Tree /\ tree' \in Tree
      BY DEF IInv, TypeOK
    <3>3. Blurred(tree'[p]) = Blurred(tree[p])
      <4>1. CASE Linked # NoRecord /\ p = At[Linked]
        <5>1. tree'[p] = [updated |-> call.applied] /\ call.applied \in Instant
          BY <1>9, <2>1, <3>2, <4>1 DEF RefreshRecord, Tree, IInv, CallConsistent
        <5>2. tree'[p] \in Doc
          BY <5>1 DEF Doc
        <5>3. Blurred(tree[p]) = [updated |-> NoInstant]
          BY <1>9, <4>1, LinkedIsDocument
        <5> QED
          BY <3>2, <5>2, <5>3, BlurredFacts
      <4>2. CASE ~(Linked # NoRecord /\ p = At[Linked])
        BY <1>9, <3>2, <4>2 DEF RefreshRecord, Tree
      <4> QED
        BY <4>1, <4>2
    <3> QED
      BY <1>2, <2>1, <3>1, <3>3, EffectKept
  <2> QED
    BY <1>3, <2>3
<1>10. CASE RefreshGlobal
  <2>1. SameAttempt /\ Attempting /\ call.phase = "global" /\ call'.phase = "manifest"
        /\ tree' = tree
    <3>1. call \in Call
      BY DEF IInv, TypeOK
    <3> QED
      BY <1>10, <3>1, ProceedsFacts DEF RefreshGlobal, Proceeds, Call
  <2>2. MutatedSoFar' = MutatedSoFar
    BY <2>1 DEF MutatedSoFar, SameAttempt
  <2>3. ASSUME NEW p \in Place PROVE EffectAt(p)'
    BY <1>2, <2>1, <2>2, EffectKept DEF SameAttempt
  <2> QED
    BY <1>3, <2>3
<1>11. CASE Publish
  <2>1. ~Attempting'
    <3>1. call' = Idle \/ call' = [call EXCEPT !.phase = "next"]
      BY <1>11 DEF Publish
    <3>2. call'.phase \in {"idle", "next"}
      BY <3>1 DEF Idle, Call, IInv, TypeOK
    <3> QED
      BY <3>2 DEF Attempting, Stepping
  <2> QED
    BY <1>3, <2>1
<1> QED
  BY <1>4, <1>5, <1>6, <1>7, <1>8, <1>9, <1>10, <1>11, Kinds

LEMMA InitH ==
    OwnPlaces /\ Init => HInv
<1> SUFFICES ASSUME OwnPlaces, Init PROVE HInv
  OBVIOUS
<1>1. Housed(tree)
  BY DEF OwnPlaces, Init
<1>2. Housed(NoFiles)
  BY StoreAssumption DEF Housed, NoFiles, IsFile
<1>3. \A n \in Sequence : Housed(slot[n].archive)
  BY <1>2 DEF Init
<1>4. Effects
  BY DEF Init, Idle, Effects, Attempting, Stepping
<1> QED
  BY <1>1, <1>3, <1>4 DEF HInv

LEMMA HInvariance ==
    ASSUME OwnPlaces PROVE Spec => []HInv
<1>1. Init => HInv
  BY InitH
<1>2. IInv /\ IInv' /\ [Next]_vars /\ KInv /\ HInv => HInv'
  BY NextH
<1> QED
  BY <1>1, <1>2, Invariance, KInvariance, PTL DEF Spec

\* The file system never refuses a step of an attempt whose checks passed, but
\* for a record that JSON and XML stores rewrite in place.
LEMMA NeverBlocked ==
    ASSUME OwnPlaces, IInv, KInv, HInv, Gpkg
    PROVE  ~ArchiveBlocked /\ ~MutateBlocked /\ ~RefreshBlocked
<1>1. Stepping => /\ Current.asset \in Asset /\ call.seq \in Sequence
                  /\ Target \in Place /\ tree \in Tree /\ base.tree \in Tree
  BY TargetFacts, CurrentFacts DEF Change
<1>2. Stepping => CanWrite(slot[call.seq].archive, Target) /\ CanWrite(tree, Target)
  BY <1>1, HousedCanWrite DEF HInv, Target
<1>3. ~ArchiveBlocked
  BY <1>2 DEF ArchiveBlocked, Blocked, Stepping
<1>4. ASSUME call.phase = "mutate", Current.op = "delete" PROVE IsFile(tree, Target)
  <2>1. Blurred(tree[Target]) = Blurred(base.tree[Target]) /\ Stepping
    BY <1>4, NotYetMutated DEF Stepping
  <2>2. IsFile(base.tree, Target)
    BY <1>4, <2>1, CurrentFacts DEF Archiving
  <2> QED
    BY <1>1, <2>1, <2>2, BlurredFacts
<1>5. ~MutateBlocked
  BY <1>2, <1>4 DEF MutateBlocked, Blocked, Stepping
<1> QED
  BY <1>3, <1>5 DEF RefreshBlocked

LEMMA NoneFails ==
    ASSUME OwnPlaces, IInv, KInv, HInv, Gpkg, [Next]_vars, NoLateFailure
    PROVE  NoLateFailure'
<1>1. ~ArchiveBlocked /\ ~MutateBlocked /\ ~RefreshBlocked
  BY NeverBlocked
<1>2. CASE Refuse \/ Begins \/ Rests
  BY <1>2 DEF NoLateFailure, Refuse, Return, Begins, Begin, Rests
<1>3. CASE Archive \/ Mutate \/ RefreshRecord \/ RefreshGlobal
  BY <1>3 DEF NoLateFailure, Archive, Mutate, RefreshRecord, RefreshGlobal, Advance
<1>4. CASE Publish
  BY <1>4 DEF NoLateFailure, Publish
<1>5. CASE Fault
  BY <1>5 DEF NoLateFailure, Fault, Stop, TearArchive, TearAsset, TearRecord, TearGlobal,
              TearManifest, Interrupt, Return
<1>6. CASE UNCHANGED vars
  BY <1>6 DEF NoLateFailure, vars
<1> QED
  BY <1>1, <1>2, <1>3, <1>4, <1>5, <1>6, ClientKinds, NextInverseKinds DEF Next, Pipeline

\* Every check precedes every mutation: on a GeoPackage store whose assets have
\* their own places, the file system refuses no step of a collection whose
\* checks passed, whatever was interrupted before.
THEOREM CheckedCallsComplete ==
    ASSUME OwnPlaces, Gpkg PROVE Spec => []NoLateFailure
<1>1. Init => NoLateFailure
  BY DEF Init, NoLateFailure
<1>2. IInv /\ [Next]_vars /\ KInv /\ HInv /\ NoLateFailure => NoLateFailure'
  BY NoneFails
<1> QED
  BY <1>1, <1>2, Invariance, KInvariance, HInvariance, PTL DEF Spec

-----------------------------------------------------------------------------
(* The pipeline implements the history of revisions *)

\* A completed attempt has made the changes it documents, and no others.
LEMMA AttemptDocuments ==
    ASSUME OwnPlaces, IInv, KInv, HInv, call.phase = "manifest"
    PROVE  History!Documents(call.changes, Files(base.tree), Files(tree))
<1>1. Attempting /\ MutatedSoFar = DOMAIN call.pending
  BY DEF Attempting, MutatedSoFar
<1>2. /\ DOMAIN call.changes = DOMAIN call.pending
      /\ \A i \in DOMAIN call.pending :
            /\ call.changes[i].asset = call.pending[i].asset
            /\ call.changes[i].action = ActionOf(call.pending[i].op)
  BY <1>1 DEF KInv, InMemory, ChangeRecordOf
<1>3. tree \in Tree /\ base.tree \in Tree
  BY DEF IInv, TypeOK
<1> SUFFICES ASSUME NEW p \in Place
    PROVE  /\ History!Touching(call.changes, p, {"created"}) # {}
                => Blurred(base.tree[p]) = Absent /\ Blurred(tree[p]) # Absent
           /\ History!Touching(call.changes, p, {"replaced"}) # {}
                => Blurred(base.tree[p]) # Absent /\ Blurred(tree[p]) # Absent
           /\ History!Touching(call.changes, p, {"deleted"}) # {}
                => Blurred(base.tree[p]) # Absent /\ Blurred(tree[p]) = Absent
           /\ History!Touching(call.changes, p, History!FileActions) = {}
                => Blurred(tree[p]) = Blurred(base.tree[p])
  BY DEF History!Documents, Files
<1>4. EffectAt(p)
  BY <1>1 DEF HInv, Effects, EffectAt
<1>5. ASSUME NEW i \in DOMAIN call.pending
      PROVE  /\ call.changes[i].action = "created" <=> call.pending[i].op = "create"
             /\ call.changes[i].action = "replaced" <=> call.pending[i].op = "replace"
             /\ call.changes[i].action = "deleted" <=> call.pending[i].op = "delete"
             /\ call.pending[i].op \in Op
  <2>1. call.pending[i].op \in Op
    BY <1>1, PendingFacts DEF Change
  <2> QED
    BY <1>2, <2>1 DEF ActionOf, Op
<1>6. ASSUME NEW i \in DOMAIN call.pending, At[call.pending[i].asset] = p
      PROVE  /\ call.pending[i].op \in {"create", "replace"} => Blurred(tree[p]) # Absent
             /\ call.pending[i].op = "delete" => Blurred(tree[p]) = Absent
             /\ call.pending[i].op \in {"replace", "delete"}
                  => Blurred(base.tree[p]) # Absent
             /\ call.pending[i].op = "create" => Blurred(base.tree[p]) = Absent
  <2>1. i \in {j \in MutatedSoFar : At[call.pending[j].asset] = p}
    BY <1>1, <1>6
  <2>2. call.pending[i] \in Change
    BY <1>1, PendingFacts
  <2>3. ASSUME call.pending[i].op \in {"create", "replace"}
        PROVE  Blurred(tree[p]) # Absent
    <3>1. call.pending[i].value \in Content
      BY <2>2, <2>3 DEF Change, Writing
    <3>2. Blurred(call.pending[i].value) # Absent
      <4>1. [updated |-> NoInstant] \in Content
        BY DEF Content, Doc
      <4> QED
        BY <3>1, <4>1, StoreAssumption DEF Blurred
    <3>3. Blurred(tree[p]) = Blurred(call.pending[i].value)
      BY <1>4, <2>1, <2>3 DEF EffectAt, Writing
    <3> QED
      BY <3>2, <3>3
  <2>4. call.pending[i].op = "delete" => Blurred(tree[p]) = Absent
    BY <1>4, <2>1 DEF EffectAt
  <2>5. /\ call.pending[i].op \in {"replace", "delete"} => IsFile(base.tree, p)
        /\ call.pending[i].op = "create" => base.tree[p] = Absent
    BY <1>1, <1>6 DEF IInv, ArchiveProgress, Archiving
  <2> QED
    BY <1>3, <2>3, <2>4, <2>5, BlurredFacts DEF Blurred
<1>7. ASSUME NEW actions, History!Touching(call.changes, p, actions) # {}
      PROVE  \E i \in DOMAIN call.pending : /\ At[call.pending[i].asset] = p
                                            /\ call.changes[i].action \in actions
  BY <1>2, <1>7 DEF History!Touching
<1>8. ASSUME History!Touching(call.changes, p, History!FileActions) = {}
      PROVE  Blurred(tree[p]) = Blurred(base.tree[p])
  <2>1. ASSUME NEW i \in DOMAIN call.pending, At[call.pending[i].asset] = p
        PROVE  call.pending[i].op \in {"setstate", "clearstate"}
    <3>1. call.changes[i].action \notin {"created", "replaced", "deleted"}
      BY <1>2, <1>8, <2>1 DEF History!Touching, History!FileActions
    <3> QED
      BY <1>5, <3>1 DEF Op
  <2> QED
    BY <1>1, <1>4, <2>1 DEF EffectAt
<1> QED
  BY <1>5, <1>6, <1>7, <1>8


LEMMA HistoryInit == Init => History!Init
<1> SUFFICES ASSUME Init PROVE History!Init
  OBVIOUS
<1>1. Length = 0
  BY InitLength
<1>2. Journal = <<>>
  BY <1>1 DEF Journal
<1> QED
  BY <1>2 DEF History!Init

LEMMA JournalSeq ==
    ASSUME IInv
    PROVE  Journal \in Seq(Manifest) /\ Len(Journal) = Length
<1>1. Length \in Nat
  BY LengthType, StoreAssumption
<1>2. ASSUME NEW n \in 1 .. Length PROVE slot[n].manifest \in Manifest
  BY DEF IInv, Contiguous, Entries, Committed, TypeOK, Slot
<1>3. Journal \in [1 .. Length -> Manifest]
  BY <1>2 DEF Journal
<1> QED
  BY <1>1, <1>3, SeqFromFunction

LEMMA HistoryNext ==
    OwnPlaces /\ IInv /\ IInv' /\ KInv /\ HInv /\ [Next]_vars
        => [History!Next]_<<Journal, Files(Settled)>>
<1> SUFFICES ASSUME OwnPlaces, IInv, IInv', KInv, HInv, [Next]_vars
             PROVE  [History!Next]_<<Journal, Files(Settled)>>
  OBVIOUS
<1>1. CASE ~Publish
  <2>1. Journal' = Journal
    BY <1>1, JournalStays
  <2> QED
    BY <2>1 DEF History!Next, History!Damage
<1>2. CASE Publish
  <2>1. /\ Length \in Nat /\ Length' = Length + 1
        /\ call.phase = "manifest" /\ UNCHANGED tree
        /\ \A n \in 1 .. Length : Journal'[n] = Journal[n]
        /\ Journal'[Length + 1].changes = call.changes
    BY <1>2, PublishFacts
  <2>2. Journal \in Seq(Manifest) /\ Len(Journal) = Length
    BY JournalSeq
  <2>3. Len(Journal') = Length + 1 /\ \E S : Journal' \in Seq(S)
    <3> DEFINE S == {Journal'[n] : n \in 1 .. Length + 1}
    <3>1. Journal' \in [1 .. Length + 1 -> S]
      BY <2>1 DEF Journal
    <3> HIDE DEF S
    <3>2. Length + 1 \in Nat
      BY <2>1
    <3>3. Journal' \in Seq(S) /\ Len(Journal') = Length + 1
      BY <3>1, <3>2, SeqFromFunction
    <3> QED
      BY <3>3
  <2>4. SubSeq(Journal', 1, Len(Journal)) = Journal
    <3>1. \A n \in 1 .. Len(Journal) : Journal'[n] = Journal[n]
      BY <2>1, <2>2
    <3> QED
      BY <2>1, <2>2, <2>3, <3>1
  <2>5. Settled = base.tree /\ Settled' = tree
    <3>1. call' = Idle \/ call' = [call EXCEPT !.phase = "next"]
      BY <1>2 DEF Publish
    <3>2. call'.phase \in {"idle", "next"}
      BY <3>1 DEF Idle, Call, IInv, TypeOK
    <3> QED
      BY <2>1, <3>2 DEF Settled
  <2>6. Files(Settled)' = Files(tree) /\ Files(Settled) = Files(base.tree)
    BY <2>5 DEF Files
  <2>7. History!Documents(Journal'[Len(Journal')].changes, Files(Settled), Files(Settled)')
    BY <2>1, <2>3, <2>6, AttemptDocuments
  <2> QED
    BY <2>2, <2>3, <2>4, <2>7 DEF History!Next, History!Commit
<1> QED
  BY <1>1, <1>2

\* The pipeline implements the history of revisions: a collection commits in
\* one step together with its effect, its manifest documents exactly the files
\* that changed, and nothing else ever touches the log.
THEOREM Refinement == ASSUME OwnPlaces PROVE Spec => ImplementsHistory
<1>1. Init => History!Init
  BY HistoryInit
<1>2. IInv /\ IInv' /\ KInv /\ HInv /\ [Next]_vars
        => [History!Next]_<<Journal, Files(Settled)>>
  BY HistoryNext
<1> QED
  BY <1>1, <1>2, Invariance, KInvariance, HInvariance, PTL
  DEF Spec, ImplementsHistory, History!Spec

-----------------------------------------------------------------------------
(* The state of an asset, as a journal grows *)

Naming(journal, a) == {n \in DOMAIN journal : StateChanges(journal[n].changes, a) # {}}

LEMMA LargestIs ==
    ASSUME NEW S \in SUBSET Nat, NEW m \in S, \A k \in S : k <= m
    PROVE  Largest(S) = m
<1>1. Largest(S) \in S /\ \A k \in S : k <= Largest(S)
  BY LargestExists
<1>2. Largest(S) <= m /\ m <= Largest(S) /\ Largest(S) \in Nat /\ m \in Nat
  BY <1>1
<1> QED
  BY <1>2

\* A collection that changes the state of no asset `a` leaves it as it was.
LEMMA StateFromSame ==
    ASSUME NEW j, NEW k \in Nat, DOMAIN j = 1 .. k,
           NEW long, DOMAIN long = 1 .. k + 1, \A n \in 1 .. k : long[n] = j[n],
           NEW a, StateChanges(long[k + 1].changes, a) = {}
    PROVE  StateFrom(long, a) = StateFrom(j, a)
<1>1. Naming(long, a) = Naming(j, a)
  <2>1. \A n \in 1 .. k + 1 : n \in 1 .. k \/ n = k + 1
    OBVIOUS
  <2>2. \A n \in 1 .. k : n \in 1 .. k + 1
    OBVIOUS
  <2> QED
    BY <2>1, <2>2 DEF Naming
<1> DEFINE m == Largest(Naming(j, a))
<1>2. CASE Naming(j, a) = {}
  BY <1>1, <1>2 DEF StateFrom, Naming
<1>3. CASE Naming(j, a) # {}
  <2>1. Naming(j, a) \in SUBSET Nat /\ \A n \in Naming(j, a) : n <= k
    BY DEF Naming
  <2>2. m \in Naming(j, a)
    BY <1>3, <2>1, LargestExists
  <2>3. m \in 1 .. k
    BY <2>2 DEF Naming
  <2>4. long[m] = j[m]
    BY <2>3
  <2> QED
    BY <1>1, <1>3, <2>4 DEF StateFrom, Naming
<1> QED
  BY <1>2, <1>3

\* The last state change decides.
LEMMA StateFromLast ==
    ASSUME NEW long, NEW k \in Nat, DOMAIN long = 1 .. k + 1, NEW a, NEW i \in Nat,
           StateChanges(long[k + 1].changes, a) = {i}
    PROVE  StateFrom(long, a) = IF long[k + 1].changes[i].action = "state-set"
                                THEN long[k + 1].changes[i].state ELSE NoState
<1>1. k + 1 \in Naming(long, a) /\ Naming(long, a) \in SUBSET Nat
      /\ \A n \in Naming(long, a) : n <= k + 1
  BY DEF Naming
<1>2. Largest(Naming(long, a)) = k + 1
  BY <1>1, LargestIs
<1>3. Largest({i}) = i
  BY LargestIs
<1> QED
  BY <1>1, <1>2, <1>3 DEF StateFrom, Naming

LEMMA PrefixFacts ==
    ASSUME NEW S, NEW j \in Seq(S), NEW n \in 0 .. Len(j)
    PROVE  /\ DOMAIN SubSeq(j, 1, n) = 1 .. n
           /\ \A m \in 1 .. n : SubSeq(j, 1, n)[m] = j[m]
<1>1. Len(j) \in Nat /\ n \in Nat /\ n <= Len(j)
  BY LenProperties
<1> QED
  BY <1>1

LEMMA SamePrefix ==
    ASSUME NEW S, NEW T, NEW j \in Seq(S), NEW l \in Seq(T),
           NEW n \in Nat, n <= Len(j), n <= Len(l), \A m \in 1 .. n : j[m] = l[m]
    PROVE  SubSeq(j, 1, n) = SubSeq(l, 1, n)
<1>1. Len(j) \in Nat /\ Len(l) \in Nat
  BY LenProperties
<1> QED
  BY <1>1

\* The state of an asset after collection n, from its state before.
LEMMA StateAt ==
    ASSUME IInv, NEW n \in 1 .. Length, NEW a
    PROVE  /\ StateChanges(Journal[n].changes, a) = {}
                => StateFrom(SubSeq(Journal, 1, n), a)
                     = StateFrom(SubSeq(Journal, 1, n - 1), a)
           /\ \A i \in Nat : StateChanges(Journal[n].changes, a) = {i} =>
                StateFrom(SubSeq(Journal, 1, n), a)
                  = IF Journal[n].changes[i].action = "state-set"
                    THEN Journal[n].changes[i].state ELSE NoState
<1>1. Journal \in Seq(Manifest) /\ Len(Journal) = Length /\ Length \in Nat
  BY JournalSeq, LengthType, StoreAssumption
<1> DEFINE long == SubSeq(Journal, 1, n)
           j == SubSeq(Journal, 1, n - 1)
<1>2. PICK k \in Nat : k = n - 1 /\ n = k + 1
  BY <1>1
<1>3. DOMAIN long = 1 .. k + 1 /\ \A m \in 1 .. k + 1 : long[m] = Journal[m]
  BY <1>1, <1>2, PrefixFacts
<1>4. DOMAIN j = 1 .. k /\ \A m \in 1 .. k : j[m] = Journal[m]
  <2>1. n - 1 \in 0 .. Len(Journal)
    BY <1>1
  <2> QED
    BY <1>1, <1>2, <2>1, PrefixFacts
<1>5. long[k + 1] = Journal[n] /\ \A m \in 1 .. k : long[m] = j[m]
  BY <1>2, <1>3, <1>4
<1> HIDE DEF long, j
<1>6. StateChanges(long[k + 1].changes, a) = {} => StateFrom(long, a) = StateFrom(j, a)
  BY <1>3, <1>4, <1>5, StateFromSame
<1>7. \A i \in Nat : StateChanges(long[k + 1].changes, a) = {i} =>
        StateFrom(long, a) = IF long[k + 1].changes[i].action = "state-set"
                             THEN long[k + 1].changes[i].state ELSE NoState
  BY <1>3, StateFromLast
<1> QED
  BY <1>5, <1>6, <1>7 DEF long, j

-----------------------------------------------------------------------------
(* An inverse undoes its collection *)

\* The changes of an inverse, one by one.
LEMMA InverseFacts ==
    ASSUME IInv, NEW n \in 1 .. Length, NEW i \in DOMAIN slot[n].manifest.changes
    PROVE  LET c == slot[n].manifest.changes[i]
               u == InverseOf(n)[i]
           IN  /\ c \in ChangeRecord /\ At[c.asset] \in Place
               /\ u.asset = c.asset /\ u.record = c.record
               /\ c.action = "created" <=> u.op = "delete"
               /\ c.action = "replaced" <=> u.op = "replace"
               /\ c.action = "deleted" <=> u.op = "create"
               /\ c.action \in {"state-set", "state-cleared"}
                    <=> u.op \in {"setstate", "clearstate"}
               /\ u.op \in Op
               /\ u.op = "setstate" => u.value = c.prior /\ c.prior # NoState
               /\ u.op = "clearstate" => c.prior = NoState
               /\ u.op \in Writing => u.value = slot[n].archive[At[c.asset]]
<1> DEFINE changes == slot[n].manifest.changes
           c == changes[i]
<1>1. changes \in Seq(ChangeRecord)
  BY DEF IInv, TypeOK, Slot, Contiguous, Entries, Committed, Manifest
<1>2. c \in ChangeRecord /\ c.action \in Action
  <2>1. i \in 1 .. Len(changes)
    BY <1>1, LenProperties
  <2>2. c \in ChangeRecord
    <3> HIDE DEF changes
    <3> QED
      BY <1>1, <2>1, ElementOfSeq
  <2> QED
    BY <2>2 DEF ChangeRecord
<1>3. InverseOf(n)[i] =
        [asset |-> c.asset, op |-> UndoOp(c), record |-> c.record,
         value |-> CASE UndoOp(c) \in Writing -> slot[n].archive[At[c.asset]]
                     [] UndoOp(c) = "setstate" -> c.prior
                     [] OTHER -> NoValue]
  BY DEF InverseOf
<1>4. At[c.asset] \in Place
  BY <1>2, StoreAssumption DEF ChangeRecord
<1>5. /\ c.action = "created" <=> UndoOp(c) = "delete"
      /\ c.action = "replaced" <=> UndoOp(c) = "replace"
      /\ c.action = "deleted" <=> UndoOp(c) = "create"
      /\ c.action \in {"state-set", "state-cleared"}
           <=> UndoOp(c) \in {"setstate", "clearstate"}
      /\ UndoOp(c) \in Op
      /\ UndoOp(c) = "setstate" => c.prior # NoState
      /\ UndoOp(c) = "clearstate" => c.prior = NoState
  BY <1>2 DEF UndoOp, Action, Op
<1> HIDE DEF c
<1>6. /\ InverseOf(n)[i].asset = c.asset /\ InverseOf(n)[i].record = c.record
      /\ InverseOf(n)[i].op = UndoOp(c)
      /\ UndoOp(c) \in Writing => InverseOf(n)[i].value = slot[n].archive[At[c.asset]]
      /\ UndoOp(c) = "setstate" => InverseOf(n)[i].value = c.prior
  BY <1>3 DEF Writing
<1> QED
  BY <1>2, <1>4, <1>5, <1>6 DEF c

LEMMA InverseDomain ==
    ASSUME NEW n
    PROVE  DOMAIN InverseOf(n) = DOMAIN slot[n].manifest.changes
BY DEF InverseOf

\* Once all its changes are made, an inverse that began where its collection
\* had left the files leaves them where the collection had found them.
LEMMA InverseRestoresFiles ==
    ASSUME OwnPlaces, IInv, KInv, HInv, clean, call.phase = "manifest",
           NEW n \in 1 .. Length, call.pending = InverseOf(n), Documented(n),
           Files(base.tree) = Files(asOf[n])
    PROVE  Files(tree) = Files(asOf[n - 1])
<1> DEFINE changes == slot[n].manifest.changes
<1>1. Attempting /\ MutatedSoFar = DOMAIN changes /\ DOMAIN call.pending = DOMAIN changes
  BY InverseDomain DEF Attempting, MutatedSoFar
<1>2. n \in Entries
  BY DEF IInv, Contiguous
<1> SUFFICES ASSUME NEW p \in Place
             PROVE  Blurred(tree[p]) = Blurred(asOf[n - 1][p])
  BY DEF Files
<1>3. EffectAt(p)
  BY <1>1 DEF HInv, Effects, EffectAt
<1>4. Blurred(base.tree[p]) = Blurred(asOf[n][p])
  BY DEF Files
<1>5. /\ History!Touching(changes, p, {"created"}) # {} => Blurred(asOf[n - 1][p]) = Absent
      /\ History!Touching(changes, p, History!FileActions) = {}
           => Blurred(asOf[n][p]) = Blurred(asOf[n - 1][p])
  BY DEF Documented, Documents, History!Documents, Files
<1>6. CASE \A i \in DOMAIN changes : At[changes[i].asset] # p
  <2>1. {i \in MutatedSoFar : At[call.pending[i].asset] = p} = {}
    BY <1>1, <1>6, InverseFacts
  <2>2. History!Touching(changes, p, History!FileActions) = {}
    BY <1>6 DEF History!Touching
  <2> QED
    BY <1>3, <1>4, <1>5, <2>1, <2>2 DEF EffectAt
<1>7. ASSUME NEW i \in DOMAIN changes, At[changes[i].asset] = p
      PROVE  Blurred(tree[p]) = Blurred(asOf[n - 1][p])
  <2> DEFINE c == changes[i]
             u == call.pending[i]
  <2>1. /\ u.asset = c.asset
        /\ c.action = "created" <=> u.op = "delete"
        /\ c.action \in {"replaced", "deleted"} <=> u.op \in Writing
        /\ c.action \in {"state-set", "state-cleared"} <=> u.op \in {"setstate", "clearstate"}
        /\ u.op \in Writing => u.value = slot[n].archive[p]
        /\ c.action \in Action
    BY <1>7, InverseFacts DEF Writing, ChangeRecord
  <2>2. i \in {j \in MutatedSoFar : At[call.pending[j].asset] = p}
    BY <1>1, <1>7, <2>1
  <2>3. CASE c.action = "created"
    <3>1. Blurred(tree[p]) = Absent
      BY <1>3, <2>1, <2>2, <2>3 DEF EffectAt
    <3>2. i \in History!Touching(changes, p, {"created"})
      BY <1>7, <2>3 DEF History!Touching
    <3> QED
      BY <1>5, <3>1, <3>2
  <2>4. CASE c.action \in {"replaced", "deleted"}
    <3>1. Blurred(tree[p]) = Blurred(slot[n].archive[p])
      BY <1>3, <2>1, <2>2, <2>4 DEF EffectAt
    <3>2. c.archived
      BY <2>4 DEF Documented, Documents
    <3>3. slot[n].archive[p] = asOf[n - 1][p]
      BY <1>2, <1>7, <3>2 DEF KInv, ArchivesPriorContent
    <3> QED
      BY <3>1, <3>3
  <2>5. CASE c.action \in {"state-set", "state-cleared"}
    <3>1. ASSUME NEW j \in DOMAIN changes, At[changes[j].asset] = p
          PROVE  j = i
      <4>1. call.pending[j].asset = changes[j].asset
        BY InverseFacts
      <4> QED
        BY <1>1, <1>7, <2>1, <3>1, <4>1, OnePlaceEach
    <3>2. \A j \in MutatedSoFar : At[call.pending[j].asset] = p => j = i
      <4>1. \A j \in DOMAIN changes : call.pending[j].asset = changes[j].asset
        BY InverseFacts
      <4> QED
        BY <1>1, <3>1, <4>1
    <3>3. Blurred(tree[p]) = Blurred(base.tree[p])
      BY <1>3, <2>1, <2>5, <3>2 DEF EffectAt
    <3>4. History!Touching(changes, p, History!FileActions) = {}
      BY <2>5, <3>1 DEF History!Touching, History!FileActions
    <3> QED
      BY <1>4, <1>5, <3>3, <3>4
  <2> QED
    BY <2>1, <2>3, <2>4, <2>5 DEF Action
<1> QED
  BY <1>6, <1>7

\* The journal after a commit.
LEMMA JournalAfter ==
    ASSUME IInv, IInv', Publish
    PROVE  /\ \A n \in 0 .. Length : SubSeq(Journal', 1, n) = SubSeq(Journal, 1, n)
           /\ SubSeq(Journal', 1, Length + 1) = Journal'
           /\ SubSeq(Journal, 1, Length) = Journal
<1>1. /\ Length \in Nat /\ Length' = Length + 1
      /\ DOMAIN Journal' = 1 .. Length + 1 /\ \A n \in 1 .. Length : Journal'[n] = Journal[n]
  BY PublishFacts
<1>2. Journal \in Seq(Manifest) /\ Len(Journal) = Length
  BY JournalSeq
<1> DEFINE S == {Journal'[n] : n \in 1 .. Length + 1}
<1>3. Journal' \in Seq(S) /\ Len(Journal') = Length + 1
  <2>1. Journal' \in [1 .. Length + 1 -> S]
    BY <1>1 DEF Journal
  <2>2. Length + 1 \in Nat
    BY <1>1
  <2> HIDE DEF S
  <2> QED
    BY <2>1, <2>2, SeqFromFunction
<1> HIDE DEF S
<1>4. \A n \in 0 .. Length : SubSeq(Journal', 1, n) = SubSeq(Journal, 1, n)
  <2> SUFFICES ASSUME NEW n \in 0 .. Length
               PROVE  SubSeq(Journal', 1, n) = SubSeq(Journal, 1, n)
    OBVIOUS
  <2>1. n \in Nat /\ n <= Len(Journal) /\ n <= Len(Journal')
    BY <1>1, <1>2, <1>3
  <2>2. \A m \in 1 .. n : Journal'[m] = Journal[m]
    BY <1>1
  <2> QED
    BY <1>2, <1>3, <2>1, <2>2, SamePrefix
<1>5. SubSeq(Journal', 1, Length + 1) = Journal' /\ SubSeq(Journal, 1, Length) = Journal
  BY <1>1, <1>2, <1>3
<1> QED
  BY <1>4, <1>5

\* Committing an inverse gives every asset the state it had before.
LEMMA InverseRestoresStates ==
    ASSUME IInv, IInv', KInv, Publish, NEW n \in 1 .. Length,
           call.pending = InverseOf(n), Documented(n), States(Length) = States(n),
           NEW a \in Asset
    PROVE  StateFrom(Journal', a) = StateFrom(SubSeq(Journal, 1, n - 1), a)
<1> DEFINE changes == slot[n].manifest.changes
<1>1. /\ Attempting /\ Length \in Nat
      /\ DOMAIN Journal' = 1 .. Length + 1 /\ DOMAIN Journal = 1 .. Length
      /\ \A m \in 1 .. Length : Journal'[m] = Journal[m]
      /\ Journal'[Length + 1].changes = call.changes
  BY PublishFacts
<1>2. /\ DOMAIN call.changes = DOMAIN changes /\ DOMAIN changes \subseteq Nat
      /\ \A i \in DOMAIN changes : call.changes[i] = ChangeRecordOf(call.pending[i])
  <2>1. DOMAIN call.pending = DOMAIN changes
    BY InverseDomain
  <2>2. changes \in Seq(ChangeRecord)
    BY DEF IInv, TypeOK, Slot, Contiguous, Entries, Committed, Manifest
  <2> QED
    BY <1>1, <2>1, <2>2, LenProperties DEF KInv, InMemory
<1>3. ASSUME NEW i \in DOMAIN changes
      PROVE  /\ call.changes[i].asset = changes[i].asset
             /\ call.changes[i].action \in {"state-set", "state-cleared"}
                  <=> changes[i].action \in {"state-set", "state-cleared"}
             /\ changes[i].action \in {"state-set", "state-cleared"} =>
                  (IF call.changes[i].action = "state-set"
                   THEN call.changes[i].state ELSE NoState) = changes[i].prior
  <2> DEFINE c == changes[i]
             u == call.pending[i]
  <2>1. /\ u.asset = c.asset /\ u.op \in Op
        /\ c.action \in {"state-set", "state-cleared"} <=> u.op \in {"setstate", "clearstate"}
        /\ u.op = "setstate" => u.value = c.prior
        /\ u.op = "clearstate" => c.prior = NoState
    BY InverseFacts
  <2>2. /\ call.changes[i].asset = u.asset
        /\ call.changes[i].action = ActionOf(u.op)
        /\ call.changes[i].state = IF u.op = "setstate" THEN u.value ELSE NoState
    <3>1. call.changes[i] = ChangeRecordOf(u)
      BY <1>2
    <3> HIDE DEF u
    <3> QED
      BY <3>1 DEF ChangeRecordOf
  <2>3. /\ ActionOf(u.op) = "state-set" <=> u.op = "setstate"
        /\ ActionOf(u.op) = "state-cleared" <=> u.op = "clearstate"
    BY <2>1 DEF ActionOf, Op
  <2> HIDE DEF c, u
  <2> QED
    BY <2>1, <2>2, <2>3 DEF c, u
<1>4. StateChanges(call.changes, a) = StateChanges(changes, a)
  BY <1>2, <1>3 DEF StateChanges
<1>5. ASSUME NEW i \in StateChanges(changes, a)
      PROVE  StateFrom(Journal', a) = StateFrom(SubSeq(Journal, 1, n - 1), a)
  <2>1. i \in DOMAIN changes /\ changes[i].asset = a
        /\ changes[i].action \in {"state-set", "state-cleared"}
    BY DEF StateChanges
  <2>2. \A j \in StateChanges(changes, a) : j = i
    BY <2>1 DEF StateChanges, Documented, Documents
  <2>3. StateChanges(Journal'[Length + 1].changes, a) = {i} /\ i \in Nat
    BY <1>1, <1>2, <1>4, <2>1, <2>2
  <2>4. StateFrom(Journal', a) = IF call.changes[i].action = "state-set"
                                 THEN call.changes[i].state ELSE NoState
    BY <1>1, <2>3, StateFromLast
  <2>5. changes[i].prior = StateFrom(SubSeq(Journal, 1, n - 1), a)
    BY <2>1 DEF Documented, Documents
  <2> QED
    BY <1>3, <2>1, <2>4, <2>5
<1>6. CASE StateChanges(changes, a) = {}
  <2>1. StateFrom(Journal', a) = StateFrom(Journal, a)
    <3>1. StateChanges(Journal'[Length + 1].changes, a) = {}
      BY <1>1, <1>4, <1>6
    <3> QED
      BY <1>1, <3>1, StateFromSame
  <2>2. StateFrom(Journal, a) = StateFrom(SubSeq(Journal, 1, n), a)
    BY JournalAfter DEF States
  <2>3. Journal[n].changes = changes
    BY DEF Journal
  <2> QED
    BY <1>6, <2>1, <2>2, <2>3, StateAt
<1> QED
  BY <1>5, <1>6

-----------------------------------------------------------------------------
(* RInv is inductive relative to the invariants before it *)

\* A journal that no attempt has damaged can be read.
LEMMA ReadableStays ==
    ASSUME IInv, IInv', [Next]_vars, clean', clean => Readable
    PROVE  Readable'
<1>1. SUFFICES global' # Torn /\ \A n \in Sequence : slot'[n].manifest # Torn
  BY DEF Readable, IInv
<1>2. clean => global # Torn /\ \A n \in Sequence : slot[n].manifest # Torn
  BY DEF Readable
<1>3. CASE Ends
  <2>1. /\ clean' => clean /\ global' = global
        /\ clean' => \A n \in Sequence : slot'[n].manifest = slot[n].manifest
    BY <1>3 DEF Ends
  <2> QED BY <1>1, <1>2, <2>1
<1>4. CASE Begins \/ Rests
  <2>1. UNCHANGED <<global, slot, clean>>
    <3>1. CASE Begins
      BY <3>1 DEF Begins, Begin, disk
    <3>2. CASE Rests
      BY <3>2 DEF Rests, disk, history
    <3> QED BY <1>4, <3>1, <3>2
  <2> QED BY <1>2, <2>1
<1>5. CASE Archive
  <2>1. Stepping /\ UNCHANGED <<global, clean>>
    BY <1>5, Advances DEF Archive, SameAttempt
  <2>2. slot \in [Sequence -> Slot] /\ call.seq \in Sequence
    BY <2>1, TargetFacts DEF IInv, TypeOK
  <2>3. \A n \in Sequence : slot'[n].manifest = slot[n].manifest
    BY <1>5, <2>2 DEF Archive, Slot
  <2> QED
    BY <1>2, <2>1, <2>3
<1>6. CASE Mutate \/ RefreshRecord
  BY <1>2, <1>6 DEF Mutate, RefreshRecord, Advance, history
<1>7. CASE RefreshGlobal
  <2>1. call.applied \in Instant
    BY <1>7 DEF RefreshGlobal, IInv, CallConsistent
  <2> QED
    BY <1>2, <1>7, <2>1, StoreAssumption DEF RefreshGlobal, history
<1>8. CASE Publish
  <2>1. /\ Entries' = Entries \cup {Length + 1} /\ call.seq = Length + 1
        /\ UNCHANGED <<global, clean>>
    BY <1>8, PublishFacts
  <2>2. \A n \in Entries' : slot'[n].manifest # Torn
    BY DEF Entries, Committed
  <2>3. \A n \in Sequence : n # call.seq => slot'[n] = slot[n]
    BY OneSlotWritten
  <2> QED
    BY <1>2, <2>1, <2>2, <2>3
<1> QED
  BY <1>3, <1>4, <1>5, <1>6, <1>7, <1>8, Kinds

LEMMA DocumentedKept ==
    ASSUME NEW n, Documented(n), slot'[n] = slot[n],
           asOf'[n] = asOf[n], asOf'[n - 1] = asOf[n - 1],
           SubSeq(Journal', 1, n - 1) = SubSeq(Journal, 1, n - 1)
    PROVE  Documented(n)'
BY DEF Documented

\* The attempt that commits has documented itself.
LEMMA AttemptDocumented ==
    ASSUME OwnPlaces, IInv, IInv', KInv, HInv, clean, Publish,
           NEW n \in Nat, n = Length + 1
    PROVE  Documented(n)'
<1> DEFINE changes == call.changes
<1>1. /\ call.phase = "manifest" /\ Attempting /\ Length \in Nat /\ call \in Call
      /\ slot'[Length + 1].manifest.changes = changes
      /\ asOf'[Length + 1] = tree /\ asOf'[Length] = asOf[Length]
  <2>1. Length = 0 \/ Length \in Entries
    BY PublishFacts
  <2> QED
    BY <2>1, PublishFacts
<1>2. base.tree = asOf[Length]
  BY <1>1 DEF KInv, Undamaged
<1>3. History!Documents(changes, Files(asOf[Length]), Files(tree))
  BY <1>1, <1>2, AttemptDocuments
<1>4. /\ DOMAIN changes = DOMAIN call.pending /\ call.pending # <<>>
      /\ \A i \in DOMAIN call.pending : changes[i] = ChangeRecordOf(call.pending[i])
  BY <1>1 DEF KInv, InMemory, Swept
<1>5. changes # <<>>
  <2>1. call.pending \in Seq(Change) /\ changes \in Seq(ChangeRecord)
    BY <1>1 DEF Call
  <2>2. Len(changes) = Len(call.pending)
    BY <1>1 DEF IInv, CallConsistent
  <2> QED
    BY <1>4, <2>1, <2>2, EmptySeq
<1>6. ASSUME NEW i \in DOMAIN changes
      PROVE  /\ call.pending[i] \in Change
             /\ changes[i].asset = call.pending[i].asset
             /\ changes[i].record = call.pending[i].record
             /\ changes[i].action = ActionOf(call.pending[i].op)
             /\ changes[i].archived = (call.pending[i].op \in Archiving)
             /\ changes[i].state
                  = IF call.pending[i].op = "setstate" THEN call.pending[i].value ELSE NoState
             /\ changes[i].prior
                  = IF call.pending[i].op \in {"setstate", "clearstate"}
                    THEN StateFrom(Journal, call.pending[i].asset) ELSE NoState
  <2> DEFINE u == call.pending[i]
  <2>1. changes[i] = ChangeRecordOf(u) /\ u \in Change
    BY <1>1, <1>4, PendingFacts
  <2> HIDE DEF changes, u
  <2> QED
    BY <2>1 DEF ChangeRecordOf, u
<1>7. \A i, j \in DOMAIN changes : changes[i].asset = changes[j].asset => i = j
  BY <1>1, <1>4, <1>6 DEF KInv, InMemory
<1>8. SubSeq(Journal', 1, Length) = Journal
  <2>1. Length \in 0 .. Length
    BY <1>1
  <2> QED
    BY <2>1, JournalAfter
<1>9. ASSUME NEW i \in DOMAIN changes
      PROVE  LET c == changes[i]
             IN  /\ c.archived = (c.action \in {"replaced", "deleted"})
                 /\ {c.asset, c.record} \cap Reserved = {}
                 /\ c.action \in {"state-set", "state-cleared"} =>
                       /\ c.prior = StateFrom(Journal, c.asset)
                       /\ c.action = "state-set" => c.state \in State
                       /\ c.action = "state-cleared" => c.prior # NoState
                       /\ IsFile(tree, At[c.asset])
                 /\ c.record # NoRecord =>
                       /\ tree[At[c.record]] \in Doc
                       /\ Gpkg => /\ c.record \in RecordName
                                  /\ \A j \in DOMAIN changes :
                                        At[c.record] # At[changes[j].asset]
  <2> DEFINE c == changes[i]
             u == call.pending[i]
  <2>1. u \in Change /\ u.op \in Op /\ c.action = ActionOf(u.op)
    BY <1>6 DEF Change
  <2>2. /\ c.action \in {"replaced", "deleted"} <=> u.op \in Archiving
        /\ c.action = "state-set" <=> u.op = "setstate"
        /\ c.action = "state-cleared" <=> u.op = "clearstate"
    BY <2>1 DEF ActionOf, Op, Archiving
  <2>3. c.archived = (c.action \in {"replaced", "deleted"})
    BY <1>6, <2>2
  <2>4. {c.asset, c.record} \cap Reserved = {}
    BY <1>1, <1>4, <1>6 DEF KInv, Swept
  <2>5. ASSUME c.action \in {"state-set", "state-cleared"}
        PROVE  /\ c.prior = StateFrom(Journal, c.asset)
               /\ c.action = "state-set" => c.state \in State
               /\ c.action = "state-cleared" => c.prior # NoState
    BY <1>1, <1>4, <1>6, <2>2, <2>5 DEF KInv, Swept, Change
  <2>6. ASSUME c.action \in {"state-set", "state-cleared"}
        PROVE  IsFile(tree, At[c.asset])
    <3>1. IsFile(base.tree, At[u.asset])
      BY <1>1, <1>4, <2>2, <2>6 DEF KInv, Swept
    <3>2. \A j \in MutatedSoFar : At[call.pending[j].asset] = At[u.asset] => j = i
      BY <1>1, <1>4, OnePlaceEach DEF MutatedSoFar
    <3>3. At[u.asset] \in Place /\ tree \in Tree /\ base.tree \in Tree
      BY <1>1, <1>4, PendingFacts DEF IInv, TypeOK
    <3>4. Blurred(tree[At[u.asset]]) = Blurred(base.tree[At[u.asset]])
      BY <1>1, <2>2, <2>6, <3>2, <3>3 DEF HInv, Effects
    <3> QED
      BY <1>6, <3>1, <3>3, <3>4, BlurredFacts
  <2>7. ASSUME c.record # NoRecord
        PROVE  /\ tree[At[c.record]] \in Doc
               /\ Gpkg => /\ c.record \in RecordName
                          /\ \A j \in DOMAIN changes :
                                At[c.record] # At[changes[j].asset]
    <3>1. i \in RefreshedSoFar
      BY <1>1, <1>4 DEF RefreshedSoFar
    <3>2. tree[At[u.record]] = [updated |-> call.applied] /\ call.applied \in Instant
      BY <1>1, <1>6, <2>7, <3>1 DEF KInv, Refreshed, IInv, CallConsistent
    <3>3. tree[At[c.record]] \in Doc
      BY <1>6, <3>2 DEF Doc
    <3>4. Gpkg => /\ u.record \in RecordName
                  /\ \A j \in DOMAIN changes : At[u.record] # At[call.pending[j].asset]
      BY <1>1, <1>4, <1>6, <2>7 DEF KInv, InMemory
    <3> QED
      BY <1>6, <3>3, <3>4
  <2> QED
    BY <2>3, <2>4, <2>5, <2>6, <2>7
<1> HIDE DEF changes
<1>10. Documents(changes, Journal, asOf[Length], tree)
  BY <1>3, <1>5, <1>7, <1>9 DEF Documents
<1>11. Documented(n)'
         = Documents(changes, SubSeq(Journal', 1, Length), asOf'[Length], tree)
  <2>1. n - 1 = Length
    BY <1>1
  <2> QED
    BY <1>1, <2>1 DEF Documented
<1> QED
  BY <1>1, <1>8, <1>10, <1>11

LEMMA DocumentedNext ==
    ASSUME OwnPlaces, IInv, IInv', [Next]_vars, KInv, HInv, clean',
           clean => \A n \in Entries : Documented(n)
    PROVE  (\A n \in Entries : Documented(n))'
<1>0. clean
  BY Kinds, ProceedsFacts DEF Ends, Begins, Begin, Rests, history, Proceeds, SameAttempt, Publish
<1>1. Length \in Nat /\ Entries = 1 .. Length
  BY LengthType, StoreAssumption DEF IInv, Contiguous
<1> SUFFICES ASSUME NEW n \in Entries' PROVE Documented(n)'
  OBVIOUS
<1>2. CASE ~Publish
  <2>1. /\ n \in Entries /\ slot'[n] = slot[n] /\ asOf' = asOf /\ Journal' = Journal
    BY <1>2, JournalStays
  <2>2. Documented(n)
    BY <1>0, <2>1
  <2> QED
    BY <2>1, <2>2, DocumentedKept
<1>3. CASE Publish /\ n \in Entries
  <2>1. n - 1 \in 0 .. Length /\ (n - 1 = 0 \/ n - 1 \in Entries)
    BY <1>1, <1>3
  <2>2. slot'[n] = slot[n] /\ asOf'[n] = asOf[n] /\ asOf'[n - 1] = asOf[n - 1]
    BY <1>3, <2>1, PublishFacts
  <2>3. SubSeq(Journal', 1, n - 1) = SubSeq(Journal, 1, n - 1)
    BY <1>3, <2>1, JournalAfter
  <2>4. Documented(n)
    BY <1>0, <1>3
  <2> QED
    BY <2>2, <2>3, <2>4, DocumentedKept
<1>4. CASE Publish /\ n \notin Entries
  <2>1. n = Length + 1 /\ n \in Nat
    BY <1>1, <1>4, PublishFacts
  <2> QED
    BY <1>0, <1>4, <2>1, AttemptDocumented
<1> QED
  BY <1>2, <1>3, <1>4

LEMMA InverseKept ==
    ASSUME NEW n, slot'[n] = slot[n]
    PROVE  InverseOf(n)' = InverseOf(n)
BY DEF InverseOf

\* Without a commit a tree stays what it was after a collection.
LEMMA AfterKept ==
    ASSUME IInv, IInv', [Next]_vars, ~Publish, NEW n, NEW t, AsAfter(t, n)
    PROVE  AsAfter(t, n)'
<1>1. Length' = Length /\ Journal' = Journal /\ asOf' = asOf
  BY JournalStays
<1> QED
  BY <1>1 DEF AsAfter, Files, States

\* The inverse of collection u + 1 commits: the files and the states are what
\* collection u had left.
LEMMA InverseCommits ==
    ASSUME OwnPlaces, IInv, IInv', KInv, HInv, RInv, clean, Publish, call.rolling,
           NEW u, u = call.undo
    PROVE  AsAfter(tree, u)'
<1>1. /\ Attempting /\ call.phase = "manifest" /\ Length \in Nat /\ Length' = Length + 1
      /\ tree' = tree /\ call \in Call /\ Entries = 1 .. Length
      /\ \A n \in Entries : asOf'[n] = asOf[n]
      /\ asOf'[0] = asOf[0]
  BY PublishFacts
<1>2. /\ u + 1 \in 1 .. Length /\ call.pending = InverseOf(u + 1)
      /\ Files(base.tree) = Files(asOf[u + 1]) /\ States(Length) = States(u + 1)
      /\ Documented(u + 1)
  BY <1>1 DEF RInv, Rolling, AsAfter
<1>3. u \in Nat /\ u <= Length /\ u + 1 - 1 = u /\ (u = 0 \/ u \in Entries) /\ u \in 0 .. Length
  BY <1>1, <1>2 DEF Call
<1> DEFINE n == u + 1
<1> HIDE DEF n
<1>4. n \in 1 .. Length /\ n - 1 = u /\ call.pending = InverseOf(n) /\ Documented(n)
      /\ Files(base.tree) = Files(asOf[n]) /\ States(Length) = States(n)
  BY <1>2, <1>3 DEF n
<1>5. Files(tree) = Files(asOf[u])
  BY <1>1, <1>4, InverseRestoresFiles
<1>6. \A a \in Asset : StateFrom(Journal', a) = StateFrom(SubSeq(Journal, 1, u), a)
  BY <1>4, InverseRestoresStates
<1>7. SubSeq(Journal', 1, Length') = Journal' /\ SubSeq(Journal', 1, u) = SubSeq(Journal, 1, u)
  BY <1>1, <1>3, JournalAfter
<1>8. asOf'[u] = asOf[u]
  BY <1>1, <1>3
<1>9. Files(tree)' = Files(asOf[u])'
  BY <1>1, <1>5, <1>8 DEF Files
<1>10. States(Length)' = States(u)'
  BY <1>6, <1>7 DEF States
<1> QED
  BY <1>9, <1>10 DEF AsAfter

\* What a running rollback knows of itself.
Inverting ==
    /\ Attempting => call.aim <= call.undo /\ (call.undo = call.aim \/ call.rolling)
    /\ result.outcome = "rolledback" => call.phase = "idle" /\ result.to \in 0 .. Length

LEMMA ResultNat == IInv => result.to \in Nat /\ Length \in Nat
BY LengthType, StoreAssumption DEF IInv, TypeOK

LEMMA InvertingNext ==
    ASSUME IInv, IInv', [Next]_vars, Inverting
    PROVE  Inverting'
<1>1. Length \in Nat
  BY LengthType, StoreAssumption
<1>2. CASE Ends
  BY <1>2 DEF Ends, Idle, Inverting, Attempting, Stepping
<1>3. CASE Begins
  BY <1>3 DEF Begins, Begin, Inverting
<1>4. CASE Rests
  <2>1. UNCHANGED call /\ Length' = Length
    BY <1>4, NotPublish, JournalStays DEF Rests
  <2>2. \/ result' = result
        \/ call.phase = "idle" /\ result' = [outcome |-> "rolledback", to |-> Length]
    BY <1>4 DEF Rests
  <2> QED
    BY <1>1, <2>1, <2>2 DEF Inverting, Attempting, Stepping
<1>5. CASE Proceeds
  <2>1. SameAttempt /\ Attempting /\ result' = result
    BY <1>5, ProceedsFacts DEF SameAttempt
  <2>2. result.outcome # "rolledback"
    BY <2>1 DEF Inverting, Attempting, Stepping
  <2> QED
    BY <2>1, <2>2 DEF Inverting, SameAttempt
<1>6. CASE Publish
  <2>1. /\ Attempting /\ call.phase = "manifest" /\ call \in Call /\ Length' = Length + 1
    BY <1>6, PublishFacts
  <2>2. result.outcome # "rolledback" /\ call.aim <= call.undo
    BY <2>1 DEF Inverting
  <2>3. call.undo <= Length /\ call.undo \in Nat /\ call.aim \in Nat
    BY <2>1 DEF IInv, CallConsistent, Call
  <2>4. CASE call.undo > call.aim
    <3>1. call'.phase = "next" /\ result' = result
      BY <1>6, <2>1, <2>4 DEF Publish, Call
    <3> QED
      BY <2>2, <3>1 DEF Inverting, Attempting, Stepping
  <2>5. CASE ~(call.undo > call.aim)
    <3>1. call'.phase = "idle"
      BY <1>6, <2>5 DEF Publish, Idle
    <3>2. result'.outcome = "rolledback" => result'.to = call.aim
      BY <1>6, <2>5 DEF Publish
    <3>3. call.aim \in 0 .. Length + 1
      BY <1>1, <2>2, <2>3
    <3> QED
      BY <2>1, <3>1, <3>2, <3>3 DEF Inverting, Attempting, Stepping
  <2> QED
    BY <2>4, <2>5
<1> QED
  BY <1>2, <1>3, <1>4, <1>5, <1>6, Kinds DEF Proceeds

LEMMA RollingNext ==
    ASSUME OwnPlaces, IInv, IInv', [Next]_vars, KInv, HInv, RInv
    PROVE  Rolling'
<1>1. Length \in Nat /\ Entries = 1 .. Length
  BY LengthType, StoreAssumption DEF IInv, Contiguous
<1>2. CASE Ends
  BY <1>2 DEF Ends, Idle, Rolling, Attempting, Stepping
<1>3. CASE Begins
  <2>1. PICK pending \in Seq(Change), applied \in Instant, rolling \in BOOLEAN,
             undo \in Nat, aim \in Nat :
        /\ Begin(pending, applied, rolling, undo, aim)
        /\ call.phase \in {"idle", "next"}
        /\ rolling => /\ undo + 1 \in 1 .. Length /\ pending = InverseOf(undo + 1)
                      /\ call.phase = "idle" => undo + 1 = Length
                      /\ call.phase = "next" => undo + 1 = call.undo
    BY <1>3 DEF Begins
  <2>2. /\ call'.phase = "archive" /\ call'.pending = pending /\ call'.rolling = rolling
        /\ call'.undo = undo /\ base'.tree = tree /\ UNCHANGED <<tree, slot, clean>>
    BY <2>1 DEF Begin, disk
  <2>3. PICK n : n = undo + 1
    OBVIOUS
  <2>4. ASSUME rolling, clean
        PROVE  n \in 1 .. Length' /\ pending = InverseOf(n)' /\ AsAfter(base.tree, n)'
    <3>1. ~Publish
      BY <1>3, NotPublish
    <3>2. AsAfter(tree, n)
      <4>1. CASE call.phase = "idle"
        BY <2>1, <2>3, <2>4, <4>1 DEF KInv, Undamaged, AsAfter
      <4>2. CASE call.phase = "next"
        BY <2>1, <2>3, <2>4, <4>2 DEF RInv, Rolling
      <4> QED
        BY <2>1, <4>1, <4>2
    <3>3. PICK t : t = tree
      OBVIOUS
    <3>4. AsAfter(t, n)'
      BY <3>1, <3>2, <3>3, AfterKept
    <3>5. AsAfter(base.tree, n)'
      BY <2>2, <3>3, <3>4 DEF AsAfter, Files
    <3>6. InverseOf(n)' = InverseOf(n)
      BY <2>2, InverseKept
    <3> QED
      BY <2>1, <2>3, <2>4, <3>1, <3>5, <3>6, JournalStays
  <2> QED
    BY <2>2, <2>3, <2>4 DEF Rolling
<1>4. CASE Rests
  <2>1. UNCHANGED <<tree, slot, call, base, asOf, clean>>
    BY <1>4 DEF Rests, disk, history
  <2>2. Length' = Length /\ Journal' = Journal
    BY <1>4, NotPublish, JournalStays
  <2> QED
    BY <2>1, <2>2 DEF RInv, Rolling, AsAfter, Files, States, InverseOf, Attempting, Stepping
<1>5. CASE Proceeds
  <2>1. SameAttempt /\ Attempting /\ ~Publish /\ call'.phase \notin {"idle", "next"}
    BY <1>5, ProceedsFacts, NotPublish
  <2>2. PICK n : n = call.undo + 1 /\ n = call'.undo + 1
    BY <2>1 DEF SameAttempt
  <2>3. ASSUME clean, call.rolling
        PROVE  n \in 1 .. Length' /\ call.pending = InverseOf(n)' /\ AsAfter(base.tree, n)'
    <3>1. n \in 1 .. Length /\ call.pending = InverseOf(n) /\ AsAfter(base.tree, n)
      BY <2>1, <2>2, <2>3 DEF RInv, Rolling
    <3>2. PICK t : t = base.tree /\ t = base'.tree
      BY <2>1 DEF SameAttempt
    <3>3. AsAfter(t, n)'
      BY <2>1, <3>1, <3>2, AfterKept
    <3>4. AsAfter(base.tree, n)'
      BY <3>2, <3>3 DEF AsAfter, Files
    <3>5. InverseOf(n)' = InverseOf(n)
      BY <1>1, <2>1, <3>1, JournalStays, InverseKept
    <3> QED
      BY <2>1, <3>1, <3>4, <3>5, JournalStays
  <2> QED
    BY <2>1, <2>2, <2>3 DEF Rolling, SameAttempt
<1>6. CASE Publish
  <2>1. /\ Attempting /\ call.phase = "manifest" /\ call \in Call /\ clean' = clean
    BY <1>6, PublishFacts
  <2>2. call' = Idle \/ call' = [call EXCEPT !.phase = "next"]
    BY <1>6 DEF Publish
  <2>3. CASE call' = Idle
    BY <2>3 DEF Idle, Rolling, Attempting, Stepping
  <2>4. CASE call.undo > call.aim /\ call' = [call EXCEPT !.phase = "next"]
    <3>1. call'.phase = "next" /\ call'.undo = call.undo
      BY <2>1, <2>4 DEF Call
    <3>2. call.rolling
      BY <2>1, <2>4 DEF RInv, Call
    <3>3. PICK u : u = call.undo /\ u = call'.undo
      BY <3>1
    <3>4. clean => AsAfter(tree, u)'
      BY <1>6, <3>2, <3>3, InverseCommits
    <3> QED
      BY <2>1, <3>1, <3>3, <3>4 DEF Rolling, AsAfter, States, Attempting, Stepping
  <2> QED
    BY <1>6, <2>3, <2>4 DEF Publish
<1> QED
  BY <1>2, <1>3, <1>4, <1>5, <1>6, Kinds DEF Proceeds

LEMMA RestoresNext ==
    ASSUME OwnPlaces, IInv, IInv', [Next]_vars, KInv, HInv, RInv
    PROVE  RollbackRestores'
<1>1. CASE Ends \/ Begins
  <2>1. result'.outcome # "rolledback"
    BY <1>1 DEF Ends, Begins, Begin
  <2> QED
    BY <2>1 DEF RollbackRestores
<1>2. CASE Rests
  <2>1. UNCHANGED <<tree, asOf, clean>>
    BY <1>2 DEF Rests, disk, history
  <2>2. Length' = Length /\ Journal' = Journal
    BY <1>2, NotPublish, JournalStays
  <2>3. CASE result' = result
    BY <2>1, <2>2, <2>3 DEF RInv, RollbackRestores, Files, States
  <2>4. CASE call.phase = "idle" /\ result' = [outcome |-> "rolledback", to |-> Length]
    <3>1. clean => tree = asOf[Length]
      BY <2>4 DEF KInv, Undamaged
    <3>2. result'.to = Length
      BY <2>4
    <3> QED
      BY <2>1, <2>2, <3>1, <3>2 DEF RollbackRestores, Files, States
  <2> QED
    BY <1>2, <2>3, <2>4 DEF Rests
<1>3. CASE Proceeds
  <2>1. Attempting /\ result' = result
    BY <1>3, ProceedsFacts DEF SameAttempt
  <2> QED
    BY <2>1 DEF RInv, RollbackRestores, Attempting, Stepping
<1>4. CASE Publish
  <2>1. Attempting /\ call.phase = "manifest" /\ call \in Call /\ clean' = clean
    BY <1>4, PublishFacts
  <2>2. SUFFICES ASSUME result'.outcome = "rolledback", clean
                 PROVE  Files(tree)' = Files(asOf[result.to])'
                        /\ States(Length)' = States(result.to)'
    BY <2>1 DEF RollbackRestores
  <2>3. result.outcome # "rolledback" /\ call.aim <= call.undo
    BY <2>1 DEF RInv
  <2>4. ~(call.undo > call.aim) /\ call.rolling /\ result'.to = call.aim
    BY <1>4, <2>2, <2>3 DEF Publish
  <2>5. PICK u : u = call.undo /\ u = result'.to
    BY <2>1, <2>3, <2>4 DEF Call
  <2>6. AsAfter(tree, u)'
    BY <1>4, <2>2, <2>4, <2>5, InverseCommits
  <2> QED
    BY <2>5, <2>6 DEF AsAfter, Files, States
<1> QED
  BY <1>1, <1>2, <1>3, <1>4, Kinds DEF Proceeds

LEMMA NextR ==
    OwnPlaces /\ IInv /\ IInv' /\ [Next]_vars /\ KInv /\ HInv /\ RInv => RInv'
<1> SUFFICES ASSUME OwnPlaces, IInv, IInv', [Next]_vars, KInv, HInv, RInv
             PROVE  RInv'
  OBVIOUS
<1>1. (clean => Readable)'
  BY ReadableStays DEF RInv
<1>2. (clean => \A n \in Entries : Documented(n))'
  BY DocumentedNext DEF RInv
<1>3. Rolling' /\ RollbackRestores'
  BY RollingNext, RestoresNext
<1>4. Inverting'
  BY InvertingNext DEF RInv, Inverting
<1> QED
  BY <1>1, <1>2, <1>3, <1>4 DEF RInv, Inverting

LEMMA InitR == OwnPlaces /\ Init => RInv
<1> SUFFICES ASSUME Init PROVE RInv
  OBVIOUS
<1>1. Entries = {} /\ Length = 0
  BY InitLength
<1>2. Readable
  <2>1. Entries = 1 .. 0
    BY <1>1
  <2> QED
    BY <1>1, <2>1, StoreAssumption DEF Init, Readable, Contiguous
<1> QED
  BY <1>1, <1>2 DEF Init, Idle, RInv, Rolling, RollbackRestores, Attempting, Stepping

LEMMA RInvariance ==
    ASSUME OwnPlaces PROVE Spec => []RInv
<1>1. Init => RInv
  BY InitR
<1>2. IInv /\ IInv' /\ [Next]_vars /\ KInv /\ HInv /\ RInv => RInv'
  BY NextR
<1> QED
  BY <1>1, <1>2, Invariance, KInvariance, HInvariance, PTL DEF Spec

\* A completed rollback leaves every file and every asset state as they were
\* when the target collection had just been applied, however many attempts and
\* rollbacks were interrupted before it ahead of their first mutation.
THEOREM RollbackIsExact ==
    ASSUME OwnPlaces PROVE Spec => []RollbackRestores
<1>1. RInv => RollbackRestores
  BY DEF RInv
<1> QED
  BY <1>1, RInvariance, PTL

\* The checks of an inverse pass when its turn comes.
LEMMA InverseAccepted ==
    ASSUME OwnPlaces, IInv, HInv, RInv, clean, call.phase = "next", Length < SequenceMax
    PROVE  ArchiveComplete(call.undo) /\ Accepts(InverseOf(call.undo))
<1> DEFINE n == call.undo
           changes == slot[n].manifest.changes
<1>1. call \in Call /\ Length \in Nat /\ SequenceMax \in Nat /\ Entries = 1 .. Length
  BY LengthType, StoreAssumption DEF IInv, TypeOK, Contiguous
<1>2. n \in 1 .. Length
  BY <1>1 DEF IInv, CallConsistent, Call
<1>3. ArchiveComplete(n)
  BY <1>1, <1>2 DEF IInv, ArchivesComplete
<1>4. /\ Files(tree) = Files(asOf[n]) /\ States(Length) = States(n)
      /\ Readable /\ Documented(n)
  BY <1>1, <1>2 DEF RInv, Rolling, AsAfter
<1> HIDE DEF n
<1> DEFINE pending == InverseOf(n)
<1>5. DOMAIN pending = DOMAIN changes /\ changes # <<>>
  BY <1>4, InverseDomain DEF Documented, Documents
<1>6. changes \in Seq(ChangeRecord)
  BY <1>2 DEF IInv, TypeOK, Slot, Contiguous, Entries, Committed, Manifest
<1>7. Valid(pending)
  <2>1. pending # <<>>
    <3>1. DOMAIN changes # {}
      <4>1. Len(changes) # 0 /\ Len(changes) \in Nat /\ DOMAIN changes = 1 .. Len(changes)
        <5> HIDE DEF changes
        <5> QED
          BY <1>5, <1>6, EmptySeq, LenProperties
      <4>2. 1 \in DOMAIN changes
        <5>1. \A k \in Nat : k # 0 => 1 \in 1 .. k
          OBVIOUS
        <5> HIDE DEF changes
        <5> QED
          BY <4>1, <5>1
      <4> QED
        BY <4>2
    <3> QED
      BY <1>5, <3>1
  <2>2. \A i, j \in DOMAIN pending : pending[i].asset = pending[j].asset => i = j
    <3>1. \A i \in DOMAIN changes : pending[i].asset = changes[i].asset
      BY <1>2, InverseFacts
    <3> QED
      BY <1>4, <1>5, <3>1 DEF Documented, Documents
  <2> HIDE DEF pending
  <2> QED
    BY <2>1, <2>2 DEF Valid
<1>8. n - 1 \in Nat /\ n \in 0 .. SequenceMax /\ n - 1 \in 0 .. SequenceMax
  BY <1>1, <1>2, LengthType
<1>9. tree \in Tree /\ asOf[n] \in Tree /\ asOf[n - 1] \in Tree
  BY <1>8 DEF IInv, TypeOK
<1>10. \A p \in Place : Blurred(tree[p]) = Blurred(asOf[n][p])
  BY <1>4 DEF Files
<1>11. \A p \in Place : IsFile(tree, p) <=> IsFile(asOf[n], p)
  BY <1>9, <1>10, BlurredFacts
<1>12. ASSUME NEW i \in DOMAIN pending PROVE Precondition(pending[i])
  <2> DEFINE c == changes[i]
             u == pending[i]
             p == At[c.asset]
  <2>1. /\ c \in ChangeRecord /\ p \in Place /\ u.asset = c.asset /\ i \in DOMAIN changes
        /\ c.action = "created" <=> u.op = "delete"
        /\ c.action = "replaced" <=> u.op = "replace"
        /\ c.action = "deleted" <=> u.op = "create"
        /\ c.action \in {"state-set", "state-cleared"} <=> u.op \in {"setstate", "clearstate"}
        /\ u.op \in Op
        /\ u.op = "clearstate" => c.prior = NoState
    BY <1>2, <1>5, InverseFacts
  <2>2. \A action : c.action = action => History!Touching(changes, p, {action}) # {}
    BY <2>1 DEF History!Touching
  <2>3. /\ c.action \in {"created", "replaced"} => Blurred(asOf[n][p]) # Absent
        /\ c.action = "deleted" => Blurred(asOf[n][p]) = Absent
    BY <1>4, <2>1, <2>2 DEF Documented, Documents, History!Documents, Files
  <2>4. CASE u.op = "create"
    <3>1. ~IsFile(tree, p)
      BY <1>9, <1>11, <2>1, <2>3, <2>4, BlurredFacts
    <3>2. tree[p] # Dir
      BY <2>1 DEF HInv, Housed, ChangeRecord
    <3> QED
      BY <2>1, <2>4, <3>1, <3>2 DEF Precondition, IsFile
  <2>5. CASE u.op \in {"replace", "delete"}
    <3>1. IsFile(tree, p)
      BY <1>9, <1>11, <2>1, <2>3, <2>5, BlurredFacts
    <3> QED
      BY <2>1, <2>5, <3>1 DEF Precondition
  <2>6. CASE u.op \in {"setstate", "clearstate"}
    <3>1. IsFile(tree, p)
      BY <1>4, <1>11, <2>1, <2>6 DEF Documented, Documents
    <3>2. ASSUME u.op = "clearstate" PROVE StateFrom(Journal, c.asset) # NoState
      <4>1. c.action = "state-set" /\ c.state \in State
        BY <1>4, <2>1, <3>2 DEF Documented, Documents
      <4>2. StateChanges(changes, c.asset) = {i} /\ i \in Nat
        <5>1. \A j \in DOMAIN changes : changes[j].asset = c.asset => j = i
          BY <1>4, <2>1 DEF Documented, Documents
        <5>2. i \in Nat
          BY <1>6, <2>1, LenProperties
        <5> QED
          BY <2>1, <4>1, <5>1, <5>2 DEF StateChanges
      <4>3. Journal[n].changes = changes
        BY <1>2 DEF Journal
      <4>4. StateFrom(SubSeq(Journal, 1, n), c.asset) = c.state
        BY <1>2, <4>1, <4>2, <4>3, StateAt
      <4>5. c.asset \in Asset
        BY <2>1 DEF ChangeRecord
      <4>6. StateFrom(Journal, c.asset) = StateFrom(SubSeq(Journal, 1, n), c.asset)
        <5>1. SubSeq(Journal, 1, Length) = Journal
          BY <1>1, JournalSeq
        <5> QED
          BY <1>4, <4>5, <5>1 DEF States
      <4> QED
        BY <4>1, <4>4, <4>6, StoreAssumption
    <3> QED
      BY <2>1, <2>6, <3>1, <3>2 DEF Precondition
  <2>7. \/ u.op = "create" \/ u.op \in {"replace", "delete"}
        \/ u.op \in {"setstate", "clearstate"}
    BY <2>1 DEF Op
  <2> HIDE DEF u
  <2> QED
    BY <2>4, <2>5, <2>6, <2>7
<1>13. ASSUME NEW i \in DOMAIN pending, pending[i].record # NoRecord
       PROVE  /\ IsFile(tree, At[pending[i].record])
              /\ tree[At[pending[i].record]] \in Doc
              /\ Gpkg => /\ pending[i].record \in RecordName
                         /\ \A j \in DOMAIN pending :
                               At[pending[i].record] # At[pending[j].asset]
  <2> DEFINE r == changes[i].record
  <2>1. pending[i].record = r /\ r \in Asset /\ i \in DOMAIN changes
    BY <1>2, <1>5, <1>13, InverseFacts DEF ChangeRecord
  <2>2. /\ asOf[n][At[r]] \in Doc
        /\ Gpkg => /\ r \in RecordName
                   /\ \A j \in DOMAIN changes : At[r] # At[changes[j].asset]
    BY <1>4, <1>13, <2>1 DEF Documented, Documents
  <2>3. At[r] \in Place
    BY <2>1, StoreAssumption
  <2>4. Blurred(tree[At[r]]) = [updated |-> NoInstant]
    BY <1>9, <1>10, <2>2, <2>3, BlurredFacts
  <2>5. tree[At[r]] \in Doc
    <3>1. [updated |-> NoInstant] \in Doc
      BY DEF Doc
    <3>2. [updated |-> NoInstant] # Absent
      BY <3>1, StoreAssumption DEF Content
    <3> QED
      BY <2>4, <3>1, <3>2 DEF Blurred
  <2>6. IsFile(tree, At[r])
    BY <2>5, StoreAssumption DEF IsFile, Content
  <2>7. \A j \in DOMAIN changes : pending[j].asset = changes[j].asset
    BY <1>2, InverseFacts
  <2> QED
    BY <1>5, <2>1, <2>2, <2>5, <2>6, <2>7
<1>14. Sweep(pending)
  <2>1. ASSUME NEW i \in DOMAIN pending
        PROVE  {pending[i].asset, pending[i].record} \cap Reserved = {}
    <3>1. /\ pending[i].asset = changes[i].asset /\ pending[i].record = changes[i].record
          /\ i \in DOMAIN changes
      BY <1>2, <1>5, InverseFacts
    <3> QED
      BY <1>4, <3>1 DEF Documented, Documents
  <2> HIDE DEF pending
  <2> QED
    BY <1>12, <1>13, <2>1 DEF Sweep
<1>15. Gpkg => Prepared(pending)
  <2> HIDE DEF pending
  <2> QED
    BY <1>13 DEF Prepared
<1>16. NextSequence <= SequenceMax
  BY <1>1 DEF NextSequence
<1> QED
  BY <1>3, <1>4, <1>7, <1>14, <1>15, <1>16 DEF Accepts, n

\* In the descending order of rollback_to, each inverse's archive is complete
\* and its checks pass when its turn comes.
THEOREM TailCanBeUndone ==
    ASSUME OwnPlaces PROVE Spec => []TailUndoable
<1>1. IInv /\ HInv /\ RInv => TailUndoable
  BY InverseAccepted DEF TailUndoable
<1> QED
  BY <1>1, Invariance, HInvariance, RInvariance, PTL
=============================================================================
