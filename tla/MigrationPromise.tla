-------------------------- MODULE MigrationPromise --------------------------
(***************************************************************************)
(* What a migration promises to whoever reads its report.  The source is   *)
(* looked at while it changes: first to make a plan, then to verify it.    *)
(* A look sees every file once, each at a moment of its own, so of all     *)
(* files together it can say no more than that each was, at some moment of *)
(* the look, as the plan has it (Agrees).  Of the files that are there it  *)
(* says more: they were there, all of them, when the plan was made.        *)
(* A report appears at most once, after the plan was verified as often as  *)
(* it takes, and is never replaced.                                        *)
(***************************************************************************)
EXTENDS Naturals

CONSTANTS Migrator, File, Bytes,
          NoFile, NoReport  \* no file in its place, and no report

VARIABLES
    now,       \* what the source holds
    seen,      \* by migrator and file: what it has held since the look began
    stood,     \* by migrator: the source as the plan was made, once it is
    plan,      \* by migrator: what the plan takes the source to hold, once there is one
    verified,  \* by migrator: how often the plan was verified
    published  \* what the published report stands for

promiseVars == <<now, seen, stood, plan, verified, published>>

Holds == [File -> Bytes \cup {NoFile}]
Closed == [f \in File |-> {}]
Verifications == 5

Agrees(content, look) == \A f \in File : content[f] \in look[f]

Init ==
    /\ now \in Holds
    /\ seen = [m \in Migrator |-> Closed]
    /\ stood = [m \in Migrator |-> {}] /\ plan = [m \in Migrator |-> {}]
    /\ verified = [m \in Migrator |-> 0]
    /\ published = NoReport

SourceChanges ==
    /\ now' \in Holds
    /\ seen' = [m \in Migrator |-> [f \in File |->
          IF seen[m][f] = {} THEN {} ELSE seen[m][f] \cup {now'[f]}]]
    /\ UNCHANGED <<stood, plan, verified, published>>

Look(m) ==
    /\ seen[m] = Closed
    /\ seen' = [seen EXCEPT ![m] = [f \in File |-> {now[f]}]]
    /\ UNCHANGED <<now, stood, plan, verified, published>>

Plan(m) ==
    /\ plan[m] = {}
    /\ \E content \in Holds : Agrees(content, seen[m]) /\ plan' = [plan EXCEPT ![m] = {content}]
    /\ stood' = [stood EXCEPT ![m] = {now}]
    /\ seen' = [seen EXCEPT ![m] = Closed]
    /\ UNCHANGED <<now, verified, published>>

Verify(m) ==
    /\ \E content \in plan[m], then \in stood[m] :
          /\ Agrees(content, seen[m])
          /\ \A f \in File : content[f] # NoFile => content[f] = then[f]
    /\ verified' = [verified EXCEPT ![m] = @ + 1]
    /\ seen' = [seen EXCEPT ![m] = Closed]
    /\ UNCHANGED <<now, stood, plan, published>>

Publish(m) ==
    /\ published = NoReport
    /\ verified[m] = Verifications
    /\ published' \in plan[m]
    /\ UNCHANGED <<now, seen, stood, plan, verified>>

Next ==
    \/ SourceChanges
    \/ \E m \in Migrator : Look(m) \/ Plan(m) \/ Verify(m) \/ Publish(m)

Spec == Init /\ [][Next]_promiseVars
=============================================================================
