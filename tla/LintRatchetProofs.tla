------------------------- MODULE LintRatchetProofs --------------------------
(***************************************************************************)
(* For every set of jobs, sites, defects, yardsticks and command lines:    *)
(* LintRatchet's state keeps its type, and a run that a baseline let pass  *)
(* found nothing that an earlier judgement had not.                        *)
(*                                                                         *)
(* NothingNewAbsorbed speaks of runs that ended; inductively it needs what *)
(* a run in progress is held to (HeldToAJudgement), which needs that the   *)
(* file, whenever it reads as a report, is one that a run wrote whole      *)
(* (FileIsMinted).                                                         *)
(***************************************************************************)
EXTENDS LintRatchet, FiniteSetTheorems, TLAPS

FileIsMinted == file \in Report => file \in minted

HeldToAJudgement ==
    \A j \in Job :
        request[j].ratchet /\ at[j] \in {"inspect", "emit", "write", "remark"} =>
            \E m \in known[j] :
                m.profile = NameOf[request[j].yardstick] /\ baseline[j] = m.tally

CodeEndsTheRun == \A j \in Job : code[j] # "none" => at[j] = "ended"

RatchetInv == FileIsMinted /\ HeldToAJudgement /\ CodeEndsTheRun /\ NothingNewAbsorbed

-----------------------------------------------------------------------------
\* A judgement counts each finding.
LEMMA TallyType ==
    ASSUME NEW y PROVE Tally(y) \in [Key -> Nat]
<1>1. ASSUME NEW k \in Key
      PROVE  Cardinality({s \in Site : store[s] # Sound /\ k \in Convicts[y][store[s]]}) \in Nat
  <2>1. IsFiniteSet(Site)
    BY RatchetAssumption DEF RatchetAssumption
  <2>2. IsFiniteSet({s \in Site : store[s] # Sound /\ k \in Convicts[y][store[s]]})
    BY <2>1, FS_Subset
  <2>. QED BY <2>2, FS_CardinalityType
<1>. QED BY <1>1 DEF Tally

\* What a run writes is a report, or nothing that reads as one.
LEMMA ArtifactType ==
    ASSUME TypeOK, NEW j \in Job
    PROVE  /\ Artifact(j) \in {Garbage} \cup Report
           /\ request[j].format = "json" => Artifact(j) \in Report
<1>1. request[j].yardstick \in Yardstick
  BY RatchetAssumption DEF RatchetAssumption, TypeOK, Request
<1>2. NameOf[request[j].yardstick] \in Name
  BY <1>1 DEF Name
<1>3. report[j] \in [Key -> Nat]
  BY DEF TypeOK
<1>. QED BY <1>2, <1>3 DEF Artifact, Report

\* The state of LintRatchet keeps its type: in particular the baseline file is
\* absent, empty, unreadable as a report, or a report.
THEOREM TypeCorrect == Spec => []TypeOK
<1>1. Init => TypeOK
  <2>. SUFFICES ASSUME Init PROVE TypeOK
    OBVIOUS
  <2>1. (CHOOSE r \in Requests : TRUE) \in Requests
    BY RatchetAssumption DEF RatchetAssumption
  <2>2. request \in [Job -> Requests]
    BY <2>1 DEF Init
  <2>3. runs \in 0 .. MaxRuns /\ edits \in 0 .. MaxEdits
    BY RatchetAssumption DEF RatchetAssumption, Init
  <2>. QED BY <2>2, <2>3 DEF Init, TypeOK, Codes
<1>2. TypeOK /\ [Next]_vars => TypeOK'
  <2>. SUFFICES ASSUME TypeOK, [Next]_vars PROVE TypeOK'
    OBVIOUS
  <2>1. ASSUME NEW j \in Job, NEW r \in Requests, Start(j, r) PROVE TypeOK'
    <3>1. at' \in [Job -> {"idle", "load", "inspect", "emit", "write", "remark", "ended"}]
      BY <2>1 DEF Start, Goto, End, TypeOK
    <3>2. code' \in [Job -> Codes]
      BY <2>1 DEF Start, End, TypeOK, Codes
    <3>3. runs' \in 0 .. MaxRuns
      BY <2>1, RatchetAssumption DEF RatchetAssumption, Start, TypeOK
    <3>4. request' \in [Job -> Requests] /\ known' \in [Job -> SUBSET Report]
      BY <2>1 DEF Start, TypeOK
    <3>5. baseline' \in [Job -> {NoBaseline} \cup [Key -> Nat]]
      BY <2>1 DEF Start, TypeOK
    <3>6. report' \in [Job -> [Key -> Nat]]
      BY <2>1 DEF Start, TypeOK
    <3>. QED BY <2>1, <3>1, <3>2, <3>3, <3>4, <3>5, <3>6 DEF Start, TypeOK
  <2>2. ASSUME NEW j \in Job, LoadBaseline(j) PROVE TypeOK'
    <3>1. at' \in [Job -> {"idle", "load", "inspect", "emit", "write", "remark", "ended"}]
      BY <2>2 DEF LoadBaseline, Goto, End, TypeOK
    <3>2. code' \in [Job -> Codes]
      BY <2>2 DEF LoadBaseline, End, TypeOK, Codes
    <3>3. file \notin {NoFile, Empty, Garbage} => file.tally \in [Key -> Nat]
      BY DEF TypeOK, Report
    <3>4. baseline' \in [Job -> {NoBaseline} \cup [Key -> Nat]]
      BY <2>2, <3>3 DEF LoadBaseline, Accepts, TypeOK
    <3>5. known' \in [Job -> SUBSET Report]
      BY <2>2 DEF LoadBaseline, TypeOK
    <3>. QED BY <2>2, <3>1, <3>2, <3>4, <3>5 DEF LoadBaseline, TypeOK
  <2>3. ASSUME NEW j \in Job, Inspect(j) PROVE TypeOK'
    <3>1. at' \in [Job -> {"idle", "load", "inspect", "emit", "write", "remark", "ended"}]
      BY <2>3 DEF Inspect, Goto, End, TypeOK
    <3>2. code' \in [Job -> Codes]
      BY <2>3 DEF Inspect, End, TypeOK, Codes
    <3>3. Tally(request[j].yardstick) \in [Key -> Nat]
      BY TallyType
    <3>4. report' \in [Job -> [Key -> Nat]]
      BY <2>3, <3>3 DEF Inspect, TypeOK
    <3>. QED BY <2>3, <3>1, <3>2, <3>4 DEF Inspect, TypeOK
  <2>4. ASSUME NEW j \in Job, Emit(j) PROVE TypeOK'
    <3>1. at' \in [Job -> {"idle", "load", "inspect", "emit", "write", "remark", "ended"}]
      BY <2>4 DEF Emit, Goto, End, TypeOK
    <3>2. code' \in [Job -> Codes]
      BY <2>4 DEF Emit, End, TypeOK, Codes
    <3>. QED BY <2>4, <3>1, <3>2 DEF Emit, TypeOK
  <2>5. ASSUME NEW j \in Job, Write(j) PROVE TypeOK'
    <3>1. at' \in [Job -> {"idle", "load", "inspect", "emit", "write", "remark", "ended"}]
      BY <2>5 DEF Write, Goto, End, TypeOK
    <3>2. code' \in [Job -> Codes]
      BY <2>5 DEF Write, End, TypeOK, Codes
    <3>3. Artifact(j) \in {Garbage} \cup Report
      BY ArtifactType
    <3>4. file' \in {NoFile, Empty, Garbage} \cup Report
      BY <2>5, <3>3 DEF Write, TypeOK
    <3>5. request[j].format = "json" => Artifact(j) \in Report
      BY ArtifactType
    <3>6. minted' \subseteq Report
      BY <2>5, <3>5 DEF Write, TypeOK
    <3>. QED BY <2>5, <3>1, <3>2, <3>4, <3>6 DEF Write, TypeOK
  <2>6. ASSUME NEW j \in Job, Remark(j) PROVE TypeOK'
    <3>1. at' \in [Job -> {"idle", "load", "inspect", "emit", "write", "remark", "ended"}]
      BY <2>6 DEF Remark, End, Goto, TypeOK
    <3>2. VerdictCode(report[j], request[j].deny, baseline[j]) \in Codes
      BY DEF VerdictCode, Codes
    <3>3. code' \in [Job -> Codes]
      BY <2>6, <3>2 DEF Remark, End, TypeOK, Codes
    <3>. QED BY <2>6, <3>1, <3>3 DEF Remark, TypeOK
  <2>7. ASSUME NEW j \in Job, Killed(j) PROVE TypeOK'
    <3>1. at' \in [Job -> {"idle", "load", "inspect", "emit", "write", "remark", "ended"}]
      BY <2>7 DEF Killed, End, Goto, TypeOK
    <3>2. code' \in [Job -> Codes]
      BY <2>7 DEF Killed, End, TypeOK, Codes
    <3>. QED BY <2>7, <3>1, <3>2 DEF Killed, TypeOK
  <2>8. ASSUME NEW s \in Site, NEW d \in Defect \cup {Sound}, Edit(s, d) PROVE TypeOK'
    <3>1. edits' \in 0 .. MaxEdits
      BY <2>8, RatchetAssumption DEF RatchetAssumption, Edit, TypeOK
    <3>2. store' \in [Site -> Defect \cup {Sound}]
      BY <2>8 DEF Edit, TypeOK
    <3>. QED BY <2>8, <3>1, <3>2 DEF Edit, TypeOK, jobVars
  <2>9. CASE UNCHANGED vars
    BY <2>9 DEF TypeOK, vars, jobVars
  <2>. QED BY <2>1, <2>2, <2>3, <2>4, <2>5, <2>6, <2>7, <2>8, <2>9 DEF Next, Check
<1>. QED BY <1>1, <1>2, PTL DEF Spec

-----------------------------------------------------------------------------
\* A ratcheted run that passes is held to counts that its own do not exceed.
LEMMA PassMeansNothingNew ==
    ASSUME NEW now \in [Key -> Nat], NEW recorded \in [Key -> Nat], NEW r,
           r.deny \in BOOLEAN, VerdictCode(now, r.deny, recorded) = "ok"
    PROVE  \A k \in Fatal(r) : now[k] <= recorded[k]
<1>1. recorded # NoBaseline
  BY RatchetAssumption DEF RatchetAssumption
<1>2. ~RatchetFails(New(recorded, now), r.deny)
  BY <1>1 DEF VerdictCode
<1>. TAKE k \in Fatal(r)
<1>3. k \in Key /\ (k \in Shall \/ (k \in Should /\ r.deny))
  BY DEF Fatal, Key
<1>4. k \notin New(recorded, now)
  BY <1>2, <1>3 DEF RatchetFails
<1>5. ~(now[k] > recorded[k])
  BY <1>3, <1>4 DEF New
<1>6. now[k] \in Nat /\ recorded[k] \in Nat
  BY <1>3
<1>. QED BY <1>5, <1>6

\* What the other steps leave alone is preserved with the variables it reads.
LEMMA AbsorbedStays ==
    ASSUME NEW j \in Job, NothingNewAbsorbed,
           code'[j] = "ok" => code[j] = "ok",
           code'[j] = "ok" => UNCHANGED <<known[j], request[j], report[j]>>
    PROVE  code'[j] = "ok" /\ request'[j].ratchet => Absorbed(j)'
BY DEF NothingNewAbsorbed, Absorbed, Fatal

\* The invariant holds: step by step, what each action leaves of its four parts.
LEMMA RatchetKept == Spec => []RatchetInv
<1>1. Init => RatchetInv
  <2>. SUFFICES ASSUME Init PROVE RatchetInv
    OBVIOUS
  <2>1. FileIsMinted
    BY RatchetAssumption DEF RatchetAssumption, Init, FileIsMinted
  <2>2. HeldToAJudgement /\ CodeEndsTheRun /\ NothingNewAbsorbed
    BY DEF Init, HeldToAJudgement, CodeEndsTheRun, NothingNewAbsorbed
  <2>. QED BY <2>1, <2>2 DEF RatchetInv
<1>2. TypeOK /\ RatchetInv /\ [Next]_vars => RatchetInv'
  <2>. SUFFICES ASSUME TypeOK, RatchetInv, [Next]_vars PROVE RatchetInv'
    OBVIOUS
  <2>. USE DEF RatchetInv
  <2>1. ASSUME NEW i \in Job, NEW r \in Requests, Start(i, r) PROVE RatchetInv'
    <3>1. FileIsMinted'
      BY <2>1 DEF Start, FileIsMinted
    <3>2. HeldToAJudgement'
      <4>. SUFFICES ASSUME NEW j \in Job, request'[j].ratchet,
                           at'[j] \in {"inspect", "emit", "write", "remark"}
                    PROVE  \E m \in known'[j] :
                               m.profile = NameOf[request'[j].yardstick] /\ baseline'[j] = m.tally
        BY DEF HeldToAJudgement
      <4>1. j # i
        BY <2>1 DEF Start, Goto, End, TypeOK
      <4>. QED BY <2>1, <4>1 DEF Start, Goto, End, TypeOK, HeldToAJudgement
    <3>3. CodeEndsTheRun'
      BY <2>1 DEF Start, Goto, End, TypeOK, CodeEndsTheRun
    <3>4. NothingNewAbsorbed'
      <4>. SUFFICES ASSUME NEW j \in Job
                    PROVE  code'[j] = "ok" /\ request'[j].ratchet => Absorbed(j)'
        BY DEF NothingNewAbsorbed
      <4>1. code'[j] = "ok" => j # i
        BY <2>1 DEF Start, End, TypeOK
      <4>2. code'[j] = "ok" => code[j] = "ok"
        BY <2>1, <4>1 DEF Start, End, TypeOK
      <4>3. code'[j] = "ok" => UNCHANGED <<known[j], request[j], report[j]>>
        BY <2>1, <4>1 DEF Start, TypeOK
      <4>. QED BY <4>2, <4>3, AbsorbedStays
    <3>. QED BY <3>1, <3>2, <3>3, <3>4
  <2>2. ASSUME NEW i \in Job, LoadBaseline(i) PROVE RatchetInv'
    <3>1. FileIsMinted'
      BY <2>2 DEF LoadBaseline, FileIsMinted
    <3>2. HeldToAJudgement'
      <4>. SUFFICES ASSUME NEW j \in Job, request'[j].ratchet,
                           at'[j] \in {"inspect", "emit", "write", "remark"}
                    PROVE  \E m \in known'[j] :
                               m.profile = NameOf[request'[j].yardstick] /\ baseline'[j] = m.tally
        BY DEF HeldToAJudgement
      <4>1. CASE j = i
        <5>1. at'[i] # "ended"
          BY <4>1
        <5>2. file \notin {NoFile, Empty, Garbage} /\ file.profile = NameOf[request[i].yardstick]
              /\ baseline'[i] = file.tally /\ known'[i] = minted
          BY <2>2, <5>1 DEF LoadBaseline, Accepts, End, Goto, TypeOK
        <5>3. file \in minted
          BY <5>2 DEF TypeOK, FileIsMinted
        <5>. QED BY <2>2, <4>1, <5>2, <5>3 DEF LoadBaseline
      <4>2. CASE j # i
        BY <2>2, <4>2 DEF LoadBaseline, Goto, End, TypeOK, HeldToAJudgement
      <4>. QED BY <4>1, <4>2
    <3>3. CodeEndsTheRun'
      BY <2>2 DEF LoadBaseline, Goto, End, TypeOK, CodeEndsTheRun
    <3>4. NothingNewAbsorbed'
      <4>. SUFFICES ASSUME NEW j \in Job
                    PROVE  code'[j] = "ok" /\ request'[j].ratchet => Absorbed(j)'
        BY DEF NothingNewAbsorbed
      <4>1. code'[j] = "ok" => j # i
        BY <2>2 DEF LoadBaseline, End, TypeOK, CodeEndsTheRun
      <4>2. code'[j] = "ok" => code[j] = "ok"
        BY <2>2, <4>1 DEF LoadBaseline, End, TypeOK
      <4>3. code'[j] = "ok" => UNCHANGED <<known[j], request[j], report[j]>>
        BY <2>2, <4>1 DEF LoadBaseline, TypeOK
      <4>. QED BY <4>2, <4>3, AbsorbedStays
    <3>. QED BY <3>1, <3>2, <3>3, <3>4
  <2>3. ASSUME NEW i \in Job, Inspect(i) PROVE RatchetInv'
    <3>1. FileIsMinted'
      BY <2>3 DEF Inspect, FileIsMinted
    <3>2. HeldToAJudgement'
      BY <2>3 DEF Inspect, Goto, End, TypeOK, HeldToAJudgement
    <3>3. CodeEndsTheRun'
      BY <2>3 DEF Inspect, Goto, End, TypeOK, CodeEndsTheRun
    <3>4. NothingNewAbsorbed'
      <4>. SUFFICES ASSUME NEW j \in Job
                    PROVE  code'[j] = "ok" /\ request'[j].ratchet => Absorbed(j)'
        BY DEF NothingNewAbsorbed
      <4>1. code'[j] = "ok" => j # i
        BY <2>3 DEF Inspect, End, TypeOK, CodeEndsTheRun
      <4>2. code'[j] = "ok" => code[j] = "ok"
        BY <2>3, <4>1 DEF Inspect, End, TypeOK
      <4>3. code'[j] = "ok" => UNCHANGED <<known[j], request[j], report[j]>>
        BY <2>3, <4>1 DEF Inspect, TypeOK
      <4>. QED BY <4>2, <4>3, AbsorbedStays
    <3>. QED BY <3>1, <3>2, <3>3, <3>4
  <2>4. ASSUME NEW i \in Job, Emit(i) PROVE RatchetInv'
    <3>1. FileIsMinted'
      BY <2>4, RatchetAssumption DEF RatchetAssumption, Emit, FileIsMinted
    <3>2. HeldToAJudgement'
      BY <2>4 DEF Emit, Goto, End, TypeOK, HeldToAJudgement
    <3>3. CodeEndsTheRun'
      BY <2>4 DEF Emit, Goto, End, TypeOK, CodeEndsTheRun
    <3>4. NothingNewAbsorbed'
      <4>. SUFFICES ASSUME NEW j \in Job
                    PROVE  code'[j] = "ok" /\ request'[j].ratchet => Absorbed(j)'
        BY DEF NothingNewAbsorbed
      <4>1. code'[j] = "ok" => code[j] = "ok"
        BY <2>4 DEF Emit, End, TypeOK
      <4>. QED BY <2>4, <4>1, AbsorbedStays DEF Emit
    <3>. QED BY <3>1, <3>2, <3>3, <3>4
  <2>5. ASSUME NEW i \in Job, Write(i) PROVE RatchetInv'
    <3>1. FileIsMinted'
      <4>1. CASE file' = Artifact(i) /\ request[i].format = "json"
        BY <2>5, <4>1 DEF Write, FileIsMinted
      <4>2. CASE file' \in {file, Garbage}
        BY <2>5, <4>2, RatchetAssumption DEF RatchetAssumption, Write, FileIsMinted
      <4>3. CASE file' = Artifact(i) /\ request[i].format # "json"
        BY <4>3, RatchetAssumption DEF RatchetAssumption, Artifact, FileIsMinted
      <4>. QED BY <2>5, <4>1, <4>2, <4>3 DEF Write
    <3>2. HeldToAJudgement'
      BY <2>5 DEF Write, Goto, End, TypeOK, HeldToAJudgement
    <3>3. CodeEndsTheRun'
      BY <2>5 DEF Write, Goto, End, TypeOK, CodeEndsTheRun
    <3>4. NothingNewAbsorbed'
      <4>. SUFFICES ASSUME NEW j \in Job
                    PROVE  code'[j] = "ok" /\ request'[j].ratchet => Absorbed(j)'
        BY DEF NothingNewAbsorbed
      <4>1. code'[j] = "ok" => code[j] = "ok"
        BY <2>5 DEF Write, End, TypeOK
      <4>. QED BY <2>5, <4>1, AbsorbedStays DEF Write
    <3>. QED BY <3>1, <3>2, <3>3, <3>4
  <2>6. ASSUME NEW i \in Job, Remark(i) PROVE RatchetInv'
    <3>1. FileIsMinted'
      BY <2>6 DEF Remark, FileIsMinted
    <3>2. HeldToAJudgement'
      BY <2>6 DEF Remark, Goto, End, TypeOK, HeldToAJudgement
    <3>3. CodeEndsTheRun'
      BY <2>6 DEF Remark, Goto, End, TypeOK, CodeEndsTheRun
    <3>4. NothingNewAbsorbed'
      <4>. SUFFICES ASSUME NEW j \in Job, code'[j] = "ok", request'[j].ratchet
                    PROVE  Absorbed(j)'
        BY DEF NothingNewAbsorbed
      <4>1. CASE j # i
        <5>1. code[j] = "ok"
          BY <2>6, <4>1 DEF Remark, End, TypeOK
        <5>. QED BY <2>6, <5>1, AbsorbedStays DEF Remark
      <4>2. CASE j = i
        <5>1. VerdictCode(report[i], request[i].deny, baseline[i]) = "ok"
          BY <2>6, <4>2 DEF Remark, End, TypeOK
        <5>2. PICK m \in known[i] :
                  m.profile = NameOf[request[i].yardstick] /\ baseline[i] = m.tally
          BY <2>6, <4>2 DEF Remark, HeldToAJudgement
        <5>3. m.tally \in [Key -> Nat] /\ report[i] \in [Key -> Nat]
          BY DEF TypeOK, Report
        <5>4. request[i].deny \in BOOLEAN
          BY RatchetAssumption DEF RatchetAssumption, TypeOK, Request
        <5>5. \A k \in Fatal(request[i]) : report[i][k] <= m.tally[k]
          BY <5>1, <5>2, <5>3, <5>4, PassMeansNothingNew
        <5>. QED BY <2>6, <4>2, <5>2, <5>5 DEF Remark, Absorbed, Fatal
      <4>. QED BY <4>1, <4>2
    <3>. QED BY <3>1, <3>2, <3>3, <3>4
  <2>7. ASSUME NEW i \in Job, Killed(i) PROVE RatchetInv'
    <3>1. FileIsMinted'
      BY <2>7, RatchetAssumption DEF RatchetAssumption, Killed, FileIsMinted
    <3>2. HeldToAJudgement'
      BY <2>7 DEF Killed, Goto, End, TypeOK, HeldToAJudgement
    <3>3. CodeEndsTheRun'
      BY <2>7 DEF Killed, Goto, End, TypeOK, CodeEndsTheRun
    <3>4. NothingNewAbsorbed'
      <4>. SUFFICES ASSUME NEW j \in Job
                    PROVE  code'[j] = "ok" /\ request'[j].ratchet => Absorbed(j)'
        BY DEF NothingNewAbsorbed
      <4>1. code'[j] = "ok" => code[j] = "ok"
        BY <2>7 DEF Killed, End, TypeOK
      <4>. QED BY <2>7, <4>1, AbsorbedStays DEF Killed
    <3>. QED BY <3>1, <3>2, <3>3, <3>4
  <2>8. ASSUME NEW s \in Site, NEW d \in Defect \cup {Sound}, Edit(s, d) PROVE RatchetInv'
    BY <2>8 DEF Edit, jobVars, FileIsMinted, HeldToAJudgement, CodeEndsTheRun,
                NothingNewAbsorbed, Absorbed, Fatal
  <2>9. CASE UNCHANGED vars
    BY <2>9 DEF vars, jobVars, FileIsMinted, HeldToAJudgement, CodeEndsTheRun,
                NothingNewAbsorbed, Absorbed, Fatal
  <2>. QED BY <2>1, <2>2, <2>3, <2>4, <2>5, <2>6, <2>7, <2>8, <2>9 DEF Next, Check
<1>. QED BY <1>1, <1>2, TypeCorrect, PTL DEF Spec

\* No run passes on a baseline that hides a finding: whatever is edited, killed,
\* torn or written at the same time, a run that answers 0 under --baseline found
\* nothing, among what can fail it, that a report of a profile of the same name,
\* written whole before it looked, had not counted.
THEOREM NothingNewIsAbsorbed == Spec => []NothingNewAbsorbed
BY RatchetKept, PTL DEF RatchetInv

-----------------------------------------------------------------------------
(* The exit code and what the artifact says of it *)

\* A run ends with the verdict on what it found, held to what it read.
CodeIsVerdict ==
    \A j \in Job : code[j] \in {"ok", "findings"} =>
        /\ code[j] = VerdictCode(report[j], request[j].deny, baseline[j])
        /\ request[j].ratchet => baseline[j] # NoBaseline

\* The flag that the verdict line names is the one without which the verdict
\* would have been the other.
LEMMA FlagDecides ==
    ASSUME NEW now \in [Key -> Nat], NEW recorded \in {NoBaseline} \cup [Key -> Nat],
           NEW deny \in BOOLEAN
    PROVE  LET flag == Attribution(now, deny, recorded)
               verdict == VerdictCode(now, deny, recorded)
           IN  /\ flag = "baseline" <=> /\ verdict = "ok"
                                       /\ VerdictCode(now, deny, NoBaseline) = "findings"
               /\ flag = "deny" <=> /\ verdict = "findings"
                                   /\ VerdictCode(now, FALSE, recorded) = "ok"
<1>1. CASE recorded = NoBaseline
  BY <1>1 DEF Attribution, VerdictCode, Fails
<1>2. CASE recorded # NoBaseline
  BY <1>2 DEF Attribution, VerdictCode, Fails, RatchetFails
<1>. QED BY <1>1, <1>2

\* Something that can fail the run is marked new exactly if the run fails.
LEMMA MarksDecide ==
    ASSUME NEW now \in [Key -> Nat], NEW recorded \in [Key -> Nat], NEW r,
           r.deny \in BOOLEAN
    PROVE  VerdictCode(now, r.deny, recorded) = "findings"
             <=> \E k \in Fatal(r) : MarkedNew(now, recorded, k) # {}
<1>1. recorded # NoBaseline
  BY RatchetAssumption DEF RatchetAssumption
<1>2. VerdictCode(now, r.deny, recorded) = "findings" <=> RatchetFails(New(recorded, now), r.deny)
  BY <1>1 DEF VerdictCode
<1>3. ASSUME NEW k \in Key
      PROVE  k \in New(recorded, now) <=> MarkedNew(now, recorded, k) # {}
  <2>1. now[k] \in Nat /\ recorded[k] \in Nat
    OBVIOUS
  <2>2. ASSUME now[k] > recorded[k] PROVE MarkedNew(now, recorded, k) # {}
    <3>1. now[k] \in 1 .. now[k] /\ ~(now[k] - 1 < recorded[k])
      BY <2>1, <2>2
    <3>. QED BY <3>1 DEF MarkedNew
  <2>3. ASSUME NEW i \in MarkedNew(now, recorded, k) PROVE now[k] > recorded[k]
    <3>1. i \in 1 .. now[k] /\ ~(i - 1 < recorded[k])
      BY <2>3 DEF MarkedNew
    <3>. QED BY <2>1, <3>1
  <2>. QED BY <2>2, <2>3 DEF New
<1>4. RatchetFails(New(recorded, now), r.deny) <=> \E k \in Fatal(r) : k \in New(recorded, now)
  BY DEF RatchetFails, Fatal, New, Key
<1>5. Fatal(r) \subseteq Key
  BY DEF Fatal, Key
<1>. QED BY <1>2, <1>3, <1>4, <1>5

LEMMA VerdictExplained ==
    ASSUME TypeOK, CodeIsVerdict
    PROVE  CodeIsExplained
<1>. SUFFICES ASSUME NEW j \in Job, code[j] \in {"ok", "findings"}
              PROVE  LET r == request[j]
                         flag == Attribution(report[j], r.deny, baseline[j])
                         withoutBaseline == VerdictCode(report[j], r.deny, NoBaseline)
                         withoutDeny == VerdictCode(report[j], FALSE, baseline[j])
                     IN /\ r.format = "text" =>
                             /\ flag = "baseline" <=> code[j] = "ok" /\ withoutBaseline = "findings"
                             /\ flag = "deny" <=> code[j] = "findings" /\ withoutDeny = "ok"
                        /\ r.format = "sarif" /\ r.ratchet =>
                             (code[j] = "findings"
                                <=> \E k \in Fatal(r) : MarkedNew(report[j], baseline[j], k) # {})
  BY DEF CodeIsExplained
<1>1. /\ report[j] \in [Key -> Nat] /\ baseline[j] \in {NoBaseline} \cup [Key -> Nat]
      /\ request[j].deny \in BOOLEAN
  BY RatchetAssumption DEF RatchetAssumption, TypeOK, Request
<1>2. /\ code[j] = VerdictCode(report[j], request[j].deny, baseline[j])
      /\ request[j].ratchet => baseline[j] # NoBaseline
  BY DEF CodeIsVerdict
<1>3. request[j].ratchet =>
         (code[j] = "findings"
            <=> \E k \in Fatal(request[j]) : MarkedNew(report[j], baseline[j], k) # {})
  BY <1>1, <1>2, MarksDecide
<1> DEFINE flag == Attribution(report[j], request[j].deny, baseline[j])
           verdict == VerdictCode(report[j], request[j].deny, baseline[j])
<1>4. /\ flag = "baseline" <=> /\ verdict = "ok"
                              /\ VerdictCode(report[j], request[j].deny, NoBaseline) = "findings"
      /\ flag = "deny" <=> /\ verdict = "findings"
                          /\ VerdictCode(report[j], FALSE, baseline[j]) = "ok"
  BY <1>1, FlagDecides
<1>5. code[j] = verdict
  BY <1>2
<1>. HIDE DEF flag, verdict
<1>6. /\ flag = "baseline" <=> /\ code[j] = "ok"
                              /\ VerdictCode(report[j], request[j].deny, NoBaseline) = "findings"
      /\ flag = "deny" <=> /\ code[j] = "findings"
                          /\ VerdictCode(report[j], FALSE, baseline[j]) = "ok"
  BY <1>4, <1>5
<1>. QED BY <1>3, <1>6 DEF flag

\* The verdict line names --baseline or --deny-warnings exactly when that flag
\* decided the exit code, and SARIF marks something fatal as new exactly when a
\* ratcheted run fails, for whatever the file, the datastore and the other runs
\* did in between.
THEOREM CodeAlwaysExplained == Spec => []CodeIsExplained
<1>1. Init => CodeIsVerdict
  BY DEF Init, CodeIsVerdict
<1>2. TypeOK /\ RatchetInv /\ CodeIsVerdict /\ [Next]_vars => CodeIsVerdict'
  <2>. SUFFICES ASSUME TypeOK, RatchetInv, CodeIsVerdict, [Next]_vars,
                       NEW j \in Job, code'[j] \in {"ok", "findings"}
                PROVE  /\ code'[j] = VerdictCode(report[j], request[j].deny, baseline[j])'
                       /\ request'[j].ratchet => baseline'[j] # NoBaseline
    BY DEF CodeIsVerdict
  \* A code that stands is of a run that has ended, and nothing it is about moves.
  <2>1. CASE code'[j] = code[j] /\ UNCHANGED <<report[j], request[j], baseline[j]>>
    <3>1. VerdictCode(report[j], request[j].deny, baseline[j])'
             = VerdictCode(report[j], request[j].deny, baseline[j])
      BY <2>1 DEF VerdictCode, Fails, RatchetFails, New, Conformant, Warned
    <3>. QED BY <2>1, <3>1 DEF CodeIsVerdict
  <2>2. code[j] # "none" => at[j] = "ended"
    BY DEF RatchetInv, CodeEndsTheRun
  <2>3. ASSUME NEW i \in Job, NEW r \in Requests, Start(i, r)
        PROVE  code'[j] = code[j] /\ UNCHANGED <<report[j], request[j], baseline[j]>>
    BY <2>3 DEF Start, End, TypeOK
  <2>4. ASSUME NEW i \in Job, LoadBaseline(i) \/ Inspect(i) \/ Emit(i) \/ Write(i) \/ Killed(i)
        PROVE  code'[j] = code[j] /\ UNCHANGED <<report[j], request[j], baseline[j]>>
    <3>1. i = j => code'[j] = code[j] \/ code'[j] \in {"usage", "operational", "killed"}
      BY <2>4 DEF LoadBaseline, Inspect, Emit, Write, Killed, End, TypeOK
    <3>2. i # j => code'[j] = code[j]
      BY <2>4 DEF LoadBaseline, Inspect, Emit, Write, Killed, End, TypeOK
    <3>3. code'[j] = code[j] /\ at[j] = "ended"
      BY <2>2, <3>1, <3>2
    <3>4. i # j
      BY <2>4, <3>3 DEF LoadBaseline, Inspect, Emit, Write, Killed
    <3>. QED BY <2>4, <3>3, <3>4 DEF LoadBaseline, Inspect, Emit, Write, Killed, TypeOK
  <2>5. ASSUME NEW i \in Job, Remark(i), i # j
        PROVE  code'[j] = code[j] /\ UNCHANGED <<report[j], request[j], baseline[j]>>
    BY <2>5 DEF Remark, End, TypeOK
  <2>6. CASE Remark(j)
    <3>1. /\ code'[j] = VerdictCode(report[j], request[j].deny, baseline[j])
          /\ UNCHANGED <<report, request, baseline>>
      BY <2>6 DEF Remark, End, TypeOK
    <3>2. VerdictCode(report[j], request[j].deny, baseline[j])'
             = VerdictCode(report[j], request[j].deny, baseline[j])
      BY <3>1 DEF VerdictCode, Fails, RatchetFails, New, Conformant, Warned
    <3>3. request[j].ratchet => baseline[j] # NoBaseline
      <4>1. at[j] = "remark"
        BY <2>6 DEF Remark
      <4>2. request[j].ratchet => \E m \in known[j] : baseline[j] = m.tally
        BY <4>1 DEF RatchetInv, HeldToAJudgement
      <4>3. \A m \in known[j] : m.tally \in [Key -> Nat]
        BY DEF TypeOK, Report
      <4>. QED BY <4>2, <4>3, RatchetAssumption DEF RatchetAssumption
    <3>. QED BY <3>1, <3>2, <3>3
  <2>7. ASSUME NEW s \in Site, NEW d \in Defect \cup {Sound}, Edit(s, d)
        PROVE  code'[j] = code[j] /\ UNCHANGED <<report[j], request[j], baseline[j]>>
    BY <2>7 DEF Edit, jobVars
  <2>8. CASE UNCHANGED vars
    BY <2>1, <2>8 DEF vars, jobVars
  <2>. QED BY <2>1, <2>3, <2>4, <2>5, <2>6, <2>7, <2>8 DEF Next, Check
<1>3. TypeOK /\ CodeIsVerdict => CodeIsExplained
  BY VerdictExplained
<1>. QED BY <1>1, <1>2, <1>3, TypeCorrect, RatchetKept, PTL DEF Spec
=============================================================================
