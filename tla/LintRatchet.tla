---------------------------- MODULE LintRatchet -----------------------------
(***************************************************************************)
(* `cdb-lint check` (cdb-lint/src/lib.rs): runs that judge a datastore     *)
(* against a yardstick, ratchet against a baseline that an earlier run     *)
(* wrote with `--format json -o`, and answer with an exit code, while the  *)
(* datastore is edited, other runs write the same baseline file, and a run *)
(* may be killed.                                                          *)
(*                                                                         *)
(* What the validator finds is data here: a site of the datastore may hold *)
(* a defect, and a yardstick convicts a defect of some findings, each of   *)
(* them a (class, code, severity).  One path is the baseline; every other  *)
(* output is the standard one.                                             *)
(***************************************************************************)
EXTENDS Naturals, FiniteSets

CONSTANTS
    Job,                  \* the processes that run `cdb-lint check`
    Site, Defect, Sound,  \* the datastore: by site, a defect or Sound
    Shall, Should,        \* the identities of violations and of warnings
    Mismatch,             \* the violations that trigger the encoding hint
    Yardstick,            \* a profile and its encoding, or a descriptor
    Descriptor,           \* the yardsticks read from a descriptor file
    NameOf,               \* by yardstick: the name that the report records
    Convicts,             \* by yardstick and defect: the findings
    Requests,             \* the command lines in use
    NoFile, Empty, Garbage, NoBaseline,
    MaxRuns, MaxEdits     \* bounds on runs and on edits of the datastore

Key == Shall \cup Should
Name == {NameOf[y] : y \in Yardstick}
Request ==
    [yardstick : Yardstick, format : {"text", "json", "sarif"},
     output : {"stdout", "baseline"}, ratchet : BOOLEAN, deny : BOOLEAN]

\* What the wire shape keeps of a judgement: the name and the findings.
Report == [profile : Name, tally : [Key -> Nat]]

ASSUME RatchetAssumption ==
    /\ IsFiniteSet(Site) /\ Requests # {} /\ Sound \notin Defect
    /\ Shall \cap Should = {} /\ Mismatch \subseteq Shall
    /\ Descriptor \subseteq Yardstick /\ Requests \subseteq Request
    /\ Convicts \in [Yardstick -> [Defect -> SUBSET Key]]
    /\ {NoFile, Empty, Garbage} \cap Report = {} /\ NoBaseline \notin [Key -> Nat]
    /\ MaxRuns \in Nat /\ MaxEdits \in Nat

VARIABLES
    store,     \* the datastore
    file,      \* the baseline file
    minted,    \* history: the judgements whose report the file has held
    at,        \* by job: the step it is about to take
    request,   \* by job: its command line
    baseline,  \* by job: the counts of the baseline it has read
    report,    \* by job: the counts of its own report
    known,     \* history, by job: `minted` when it read the baseline
    code,      \* by job: the exit code it ended with
    runs, edits

jobVars == <<at, request, baseline, report, known, code>>
vars == <<store, file, minted, jobVars, runs, edits>>

\* exit.rs; "killed" is the status of a process that did not end itself.
Codes == {"none", "ok", "findings", "usage", "operational", "killed"}

Init ==
    /\ store \in [Site -> Defect \cup {Sound}]
    /\ file \in {NoFile, Garbage}
    /\ minted = {}
    /\ at = [j \in Job |-> "idle"]
    /\ request = [j \in Job |-> CHOOSE r \in Requests : TRUE]
    /\ baseline = [j \in Job |-> NoBaseline]
    /\ report = [j \in Job |-> [k \in Key |-> 0]]
    /\ known = [j \in Job |-> {}]
    /\ code = [j \in Job |-> "none"]
    /\ runs = 0 /\ edits = 0

-----------------------------------------------------------------------------
(* The comparison, the verdict and what the artifact says of it.           *)

\* The report's findings by identity: message and place are not part of it.
Tally(y) ==
    [k \in Key |-> Cardinality({s \in Site : store[s] # Sound /\ k \in Convicts[y][store[s]]})]

\* The identities that occur more often than the baseline records.
New(recorded, now) == {k \in Key : now[k] > recorded[k]}

Fails(conformant, warned, deny) == ~conformant \/ (deny /\ warned)
RatchetFails(new, deny) == new \cap Shall # {} \/ (deny /\ new \cap Should # {})

Conformant(now) == \A k \in Shall : now[k] = 0
Warned(now) == \E k \in Should : now[k] > 0

VerdictCode(now, deny, recorded) ==
    IF IF recorded = NoBaseline
       THEN Fails(Conformant(now), Warned(now), deny)
       ELSE RatchetFails(New(recorded, now), deny)
    THEN "findings" ELSE "ok"

\* The flag to which the verdict line of the text report ascribes the code.
Attribution(now, deny, recorded) ==
    LET new == New(recorded, now)
        unratcheted == Fails(Conformant(now), Warned(now), deny)
        failing == IF recorded = NoBaseline THEN unratcheted ELSE RatchetFails(new, deny)
    IN IF recorded # NoBaseline /\ ~failing /\ unratcheted THEN "baseline"
       ELSE IF failing /\ (IF recorded = NoBaseline THEN Conformant(now)
                           ELSE new \cap Shall = {})
       THEN "deny"
       ELSE "none"

\* The occurrences of k, in report order, that SARIF marks `new`.
\* Mutant: one too few.
MarkedNewLate(now, recorded, k) == {i \in 1 .. now[k] : ~(i - 1 <= recorded[k])}
MarkedNew(now, recorded, k) == {i \in 1 .. now[k] : ~(i - 1 < recorded[k])}

-----------------------------------------------------------------------------
(* A run of `check`.                                                       *)

Goto(j, step) == at' = [at EXCEPT ![j] = step]
End(j, c) ==
    /\ Goto(j, "ended")
    /\ code' = [code EXCEPT ![j] = c]

\* The command line is read and the yardstick resolved, which may fail for a
\* descriptor that is absent, malformed or contradicts itself.
Start(j, r) ==
    /\ at[j] \in {"idle", "ended"} /\ runs < MaxRuns
    /\ runs' = runs + 1
    /\ request' = [request EXCEPT ![j] = r]
    /\ baseline' = [baseline EXCEPT ![j] = NoBaseline]
    /\ report' = [report EXCEPT ![j] = [k \in Key |-> 0]]
    /\ known' = [known EXCEPT ![j] = {}]
    /\ \/ /\ Goto(j, IF r.ratchet THEN "load" ELSE "inspect")
          /\ code' = [code EXCEPT ![j] = "none"]
       \/ r.yardstick \in Descriptor /\ End(j, "usage")
    /\ UNCHANGED <<store, file, minted, edits>>

\* A baseline is read before the datastore is opened.  It must be a report,
\* and of a profile of the same name; one that cannot be read is refused too.
\* Mutant: the name is not compared.
AcceptsAnyProfile(name) == file \notin {NoFile, Empty, Garbage}
Accepts(name) == file \notin {NoFile, Empty, Garbage} /\ file.profile = name

LoadBaseline(j) ==
    /\ at[j] = "load"
    /\ \/ /\ Accepts(NameOf[request[j].yardstick])
          /\ baseline' = [baseline EXCEPT ![j] = file.tally]
          /\ known' = [known EXCEPT ![j] = minted]
          /\ Goto(j, "inspect")
          /\ UNCHANGED code
       \/ End(j, "usage") /\ UNCHANGED <<baseline, known>>
    /\ UNCHANGED <<store, file, minted, request, report, runs, edits>>

\* `open` and `validate`; an error of either is a fact about the run.
Inspect(j) ==
    /\ at[j] = "inspect"
    /\ \/ /\ report' = [report EXCEPT ![j] = Tally(request[j].yardstick)]
          /\ Goto(j, "emit")
          /\ UNCHANGED code
       \/ End(j, "operational") /\ UNCHANGED report
    /\ UNCHANGED <<store, file, minted, request, baseline, known, runs, edits>>

\* `emit` to stdout, or the creation of the file, which truncates it.
Emit(j) ==
    /\ at[j] = "emit"
    /\ \/ /\ request[j].output = "stdout"
          /\ Goto(j, "remark")
          /\ UNCHANGED <<file, code>>
       \/ /\ request[j].output = "baseline"
          /\ file' = Empty
          /\ Goto(j, "write")
          /\ UNCHANGED code
       \/ End(j, "operational") /\ UNCHANGED file
    /\ UNCHANGED <<store, minted, request, baseline, report, known, runs, edits>>

\* The bytes of the file.  They go over those another run has written since,
\* whose end may be left behind them; a write that fails may leave a part.
Artifact(j) ==
    IF request[j].format = "json"
    THEN [profile |-> NameOf[request[j].yardstick], tally |-> report[j]]
    ELSE Garbage

Write(j) ==
    /\ at[j] = "write"
    /\ \/ /\ file' \in {Artifact(j)} \cup (IF file = Empty THEN {} ELSE {Garbage})
          /\ Goto(j, "remark")
          /\ UNCHANGED code
       \/ file' \in {file, Garbage} /\ End(j, "operational")
    /\ minted' = IF file' = Artifact(j) /\ request[j].format = "json"
                 THEN minted \cup {file'} ELSE minted
    /\ UNCHANGED <<store, request, baseline, report, known, runs, edits>>

\* What stderr is owed: the diff and the tally where the artifact cannot hold
\* them, and the encoding hint, for which the datastore is looked at again.
Owes(j) ==
    \/ request[j].ratchet /\ request[j].format # "text"
    \/ request[j].format = "json"
    \/ \E k \in Mismatch : report[j][k] > 0

Remark(j) ==
    /\ at[j] = "remark"
    /\ \/ End(j, VerdictCode(report[j], request[j].deny, baseline[j]))
       \/ Owes(j) /\ End(j, "operational")
    /\ UNCHANGED <<store, file, minted, request, baseline, report, known, runs, edits>>

Killed(j) ==
    /\ at[j] \notin {"idle", "ended"}
    /\ End(j, "killed")
    /\ file' \in {file} \cup (IF at[j] = "write" THEN {Garbage} ELSE {})
    /\ UNCHANGED <<store, minted, request, baseline, report, known, runs, edits>>

Edit(s, d) ==
    /\ edits < MaxEdits /\ store[s] # d
    /\ edits' = edits + 1
    /\ store' = [store EXCEPT ![s] = d]
    /\ UNCHANGED <<file, minted, jobVars, runs>>

Check(j) ==
    \/ \E r \in Requests : Start(j, r)
    \/ LoadBaseline(j) \/ Inspect(j) \/ Emit(j) \/ Write(j) \/ Remark(j)
    \/ Killed(j)

Next ==
    \/ \E j \in Job : Check(j)
    \/ \E s \in Site, d \in Defect \cup {Sound} : Edit(s, d)

Spec == Init /\ [][Next]_vars

-----------------------------------------------------------------------------
\* The type of the state.
TypeOK ==
    /\ store \in [Site -> Defect \cup {Sound}]
    /\ file \in {NoFile, Empty, Garbage} \cup Report
    /\ minted \subseteq Report
    /\ at \in [Job -> {"idle", "load", "inspect", "emit", "write", "remark", "ended"}]
    /\ request \in [Job -> Requests]
    /\ baseline \in [Job -> {NoBaseline} \cup [Key -> Nat]]
    /\ report \in [Job -> [Key -> Nat]]
    /\ known \in [Job -> SUBSET Report]
    /\ code \in [Job -> Codes]
    /\ runs \in 0 .. MaxRuns /\ edits \in 0 .. MaxEdits

\* The findings that can fail a run.
Fatal(r) == IF r.deny THEN Key ELSE Shall

\* A run that a baseline let pass found nothing that an earlier judgement had
\* not: some one report, of a profile of the same name and wholly written before
\* the run read its baseline, counts every violation at least as often, and
\* under --deny-warnings every warning.  Files that are torn, interleaved or of
\* another profile never stand in for it (snapshot.rs:17-32 and 60-65).
Absorbed(j) ==
    \E m \in known[j] :
        /\ m.profile = NameOf[request[j].yardstick]
        /\ \A k \in Fatal(request[j]) : report[j][k] <= m.tally[k]

NothingNewAbsorbed ==
    \A j \in Job : code[j] = "ok" /\ request[j].ratchet => Absorbed(j)

\* The artifact and the exit code tell one story, though the verdict line, the
\* SARIF marks and the code are computed apart: the line names --baseline exactly
\* when the run passes and would have failed without it, and --deny-warnings
\* exactly when the run fails and would have passed without that; and a ratcheted
\* SARIF document marks a finding that can fail the run as new exactly when the
\* run fails (render/text.rs:451-468, render/sarif.rs:346-368).
CodeIsExplained ==
    \A j \in Job : code[j] \in {"ok", "findings"} =>
        LET r == request[j]
            flag == Attribution(report[j], r.deny, baseline[j])
            withoutBaseline == VerdictCode(report[j], r.deny, NoBaseline)
            withoutDeny == VerdictCode(report[j], FALSE, baseline[j])
        IN /\ r.format = "text" =>
                 /\ flag = "baseline" <=> code[j] = "ok" /\ withoutBaseline = "findings"
                 /\ flag = "deny" <=> code[j] = "findings" /\ withoutDeny = "ok"
           /\ r.format = "sarif" /\ r.ratchet =>
                 (code[j] = "findings"
                    <=> \E k \in Fatal(r) : MarkedNew(report[j], baseline[j], k) # {})
=============================================================================
