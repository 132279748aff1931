--------------------------- MODULE MCVersionStore ---------------------------
(***************************************************************************)
(* TLC instances of the versioning facade.                                 *)
(*                                                                         *)
(* Apart: files that do not lie above one another, two assets and one      *)
(* resource metadata record.                                               *)
(*                                                                         *)
(* Path: where spellings and locations meet.  "/a" and "a" name one file,  *)
(* "/a/b" lies below it, a linked record may be a plain asset, and one     *)
(* spelling lies in a reserved tree.                                       *)
(***************************************************************************)
EXTENDS VersionStore, TLC

CONSTANTS
    A, A2, B, C, R, V,   \* the spellings
    pA, pB, pC, pR, pV,  \* where they lead
    b1, b2, s1, s2       \* bytes and states

Chg(a, op, value, record) ==
    [asset |-> a, op |-> op, value |-> value, record |-> record]
Create(a, v) == Chg(a, "create", v, NoRecord)
Replace(a, v) == Chg(a, "replace", v, NoRecord)
Delete(a) == Chg(a, "delete", NoValue, NoRecord)
SetState(a, s) == Chg(a, "setstate", s, NoRecord)
ClearState(a) == Chg(a, "clearstate", NoValue, NoRecord)
For(c, r) == [c EXCEPT !.record = r]

-----------------------------------------------------------------------------
(* Apart *)

ApartAsset == {A, B, R}
ApartPlace == {pA, pB, pR}
ApartAt == (A :> pA) @@ (B :> pB) @@ (R :> pR)
ApartAbove == [p \in ApartPlace |-> {}]
ApartSeeds == (pA :> Absent) @@ (pB :> b1) @@ (pR :> [updated |-> NoInstant])

\* What the theorems on rollback and on the history of revisions suppose of
\* these files.
ASSUME ApartOwnPlaces == Asset = ApartAsset => OwnPlaces

\* Every operation, with and without a linked record, one and two at a time, and
\* a record that is itself deleted by the collection that links it; few enough
\* that a history is long enough for a rollback over several collections that
\* is interrupted and resumed.
ApartOffered ==
    { <<For(Create(A, b1), R)>>,
      <<Delete(A)>>,
      <<SetState(B, s1), Create(A, b2)>>,
      <<Delete(B), For(Replace(A, b1), R)>>,
      <<For(ClearState(B), R)>>,
      <<Delete(R), For(Replace(A, b2), R)>> }

-----------------------------------------------------------------------------
(* Path *)

PathAsset == {A, A2, C, R, V}
PathPlace == {pA, pC, pR, pV}
PathAt == (A :> pA) @@ (A2 :> pA) @@ (C :> pC) @@ (R :> pR) @@ (V :> pV)
PathAbove == [p \in PathPlace |-> IF p = pC THEN {pA} ELSE {}]
PathSeeds == [p \in PathPlace |->
                 IF p = pR THEN [updated |-> NoInstant] ELSE Absent]

\* One file or directory at a time: what rollback_to has to undo in order.
PathOneByOne ==
    {<<Create(A, b1)>>, <<Delete(A)>>, <<Create(C, b1)>>}

\* A linked record that is the collection's own asset, or no record at all.
PathRecords ==
    { <<For(Create(A, b1), R)>>,
      <<For(Replace(A, b2), A)>>,
      <<For(Delete(R), R)>> }

\* All of it, with the collections that fail half way.
PathMixed ==
    PathOneByOne \cup PathRecords \cup
    { <<Replace(C, b2)>>,
      <<Create(V, b1)>>,
      <<Delete(A), Delete(A2)>>,
      <<Create(C, b1), Create(A2, b1)>>,
      <<Create(A, b1), Create(A2, b2)>> }
=============================================================================
