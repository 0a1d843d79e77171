-------------------------- MODULE AttemptLease_proofs --------------------------
(***************************************************************************)
(* Proofs about AttemptLease, for any number of runs and viewers: the      *)
(* variables keep their ranges, one run at most goes to work, and what     *)
(* attempt_status says holds.                                              *)
(***************************************************************************)
EXTENDS AttemptLease, TLAPS

\* The task is visibly taken, and will be for good.
Taken == lease # "none" \/ attempt[Old] # "none"

Worker(r) == at[r] \in Works \/ r \in tries

\* The lease admits one worker, and none besides an attempt without a lease.
LeaseInv ==
    /\ \A p, q \in Runs : Worker(p) /\ Worker(q) => p = q
    /\ \A r \in Runs : Worker(r) => lease # "none"
    /\ \A r \in Runs : at[r] = "acquire" \/ Worker(r) => attempt[Old] = "none"

\* What a run leaves, it leaves in order: try, answer, session.json, result.
EvidenceInv ==
    /\ \A r \in Runs : at[r] \in Works \ {"stamp", "preflight"} => r \in tries
    /\ \A r \in Runs : r \in kept => r \in tries /\ attempt[r] # "none"
    /\ \A r \in Runs : at[r] = "record" => r \in kept
    /\ \A r \in Runs : attempt[r] # "none" => r \in tries
    /\ recorded \subseteq kept
    /\ \A r \in Runs : at[r] \in {"publish", "verify"} => r \in recorded
    /\ result # "none" => recorded # {}

\* Whoever asks when the task is taken finds that out.
ReportInv ==
    /\ known \/ since # {} => Taken
    /\ \A c \in Commands :
         /\ c \in since /\ at[c] = "legacy" => attempt[Old] # "none"
         /\ at[c] = "idle" => told[c] = "nothing"
         /\ at[c] \in {"readLease", "sessions"} => Taken
         /\ c \in since => told[c] # "notStarted"
         /\ told[c] \in {"completed", "published"} => recorded # {}

IInv == TypeOK /\ LeaseInv /\ EvidenceInv /\ ReportInv

LEMMA InitInv == Init => IInv
  <1> SUFFICES ASSUME Init PROVE IInv OBVIOUS
  <1> USE CommandAssumption DEF Init, Commands, Sessions
  <1>1. PICK old \in Records :
          attempt = [s \in Sessions |-> IF s = Old THEN old ELSE "none"]
    OBVIOUS
  <1>2. TypeOK
    BY <1>1 DEF TypeOK, Records, Results, Answers, Steps
  <1>3. LeaseInv
    BY DEF LeaseInv, Worker, Works
  <1>4. \A r \in Runs : attempt[r] = "none"
    BY <1>1
  <1>5. EvidenceInv
    BY <1>4 DEF EvidenceInv, Works
  <1>6. ReportInv
    BY DEF ReportInv
  <1>7. QED
    BY <1>2, <1>3, <1>5, <1>6 DEF IInv

\* A step that only moves a command from look to look.
LEMMA StatusKeepsInv ==
  ASSUME IInv, NEW c \in Commands, AttemptStatus(c)
  PROVE  IInv'
  <1> USE CommandAssumption DEF IInv, Commands, Sessions, Goto, files, LookOn, Looking, Report
  <1>1. TypeOK'
    BY DEF TypeOK, AttemptStatus, Begin, LookMarker, LookResult, LookLease, ReadLease,
           ReadLeaseOr, LookSessions, LookLegacy, Steps, Looks, Works, Answers, Results, Records
  <1>2. UNCHANGED <<files, kept, tries>>
    BY DEF AttemptStatus, Begin, LookMarker, LookResult, LookLease, ReadLease,
           ReadLeaseOr, LookSessions, LookLegacy
  <1>3. /\ at'[c] \notin Works
        /\ \A d \in Commands : d # c => at'[d] = at[d]
        /\ at'[c] \notin {"record", "publish", "verify"}
    BY DEF TypeOK, AttemptStatus, Begin, LookMarker, LookResult, LookLease, ReadLease,
           ReadLeaseOr, LookSessions, LookLegacy, Works
  <1>4. at'[c] = "acquire" => attempt[Old] = "none"
    BY DEF TypeOK, AttemptStatus, Begin, LookMarker, LookResult, LookLease, ReadLease,
           ReadLeaseOr, LookSessions, LookLegacy, Records
  <1>5. LeaseInv'
    BY <1>2, <1>3, <1>4 DEF LeaseInv, Worker
  <1>6. EvidenceInv'
    BY <1>2, <1>3 DEF EvidenceInv
  <1>7. ReportInv'
    <2>1. tries # {} => Taken
      BY DEF TypeOK, LeaseInv, Worker, Taken
    <2>2. Taken' <=> Taken
      BY <1>2 DEF Taken
    <2>3. result # "none" => Taken
      BY <2>1 DEF TypeOK, EvidenceInv
    <2>4. \A r \in Runs : attempt[r] # "none" => Taken
      BY <2>1 DEF EvidenceInv
    <2>5. known' \/ since' # {} => Taken
      BY <2>1, <2>3, <2>4 DEF TypeOK, ReportInv, Taken, AttemptStatus, Begin, LookMarker,
         LookResult, LookLease, ReadLease, ReadLeaseOr, LookSessions, LookLegacy, Records
    <2>6. c \in since' /\ at'[c] = "legacy" => attempt[Old] # "none"
      BY DEF TypeOK, ReportInv, Taken, AttemptStatus, Begin, LookMarker,
         LookResult, LookLease, ReadLease, ReadLeaseOr, LookSessions, LookLegacy
    <2>7. at'[c] = "idle" => told'[c] = "nothing"
      BY DEF TypeOK, AttemptStatus, Begin, LookMarker,
         LookResult, LookLease, ReadLease, ReadLeaseOr, LookSessions, LookLegacy
    <2>8. c \in since' => told'[c] # "notStarted"
      BY DEF TypeOK, ReportInv, AttemptStatus, Begin, LookMarker, Records,
         LookResult, LookLease, ReadLease, ReadLeaseOr, LookSessions, LookLegacy
    <2>9. told'[c] \in {"completed", "published"} => recorded # {}
      BY DEF TypeOK, ReportInv, EvidenceInv, AttemptStatus, Begin, LookMarker, Records,
         LookResult, LookLease, ReadLease, ReadLeaseOr, LookSessions, LookLegacy
    <2>12. at'[c] \in {"readLease", "sessions"} => Taken
      BY DEF TypeOK, ReportInv, Taken, AttemptStatus, Begin, LookMarker,
         LookResult, LookLease, ReadLease, ReadLeaseOr, LookSessions, LookLegacy
    <2>10. \A d \in Commands : d # c =>
              at'[d] = at[d] /\ told'[d] = told[d] /\ (d \in since' <=> d \in since)
      BY DEF TypeOK, AttemptStatus, Begin, LookMarker,
         LookResult, LookLease, ReadLease, ReadLeaseOr, LookSessions, LookLegacy
    <2>11. QED
      BY <1>2, <2>2, <2>5, <2>6, <2>7, <2>8, <2>9, <2>10, <2>12 DEF ReportInv
  <1>8. QED
    BY <1>1, <1>5, <1>6, <1>7

\* A step of a run at work, or the one that takes the lease.
LEMMA RunKeepsInv ==
  ASSUME IInv, NEW r \in Runs, RunBaseline(r)
  PROVE  IInv'
  <1> USE CommandAssumption DEF IInv, Commands, Sessions, Goto, End, ghosts
  <1>1. TypeOK'
    <2>1. CASE Acquire(r)
      BY <2>1 DEF Acquire, AcquireIf, TypeOK, Steps, Works, Results, Records
    <2>2. CASE Stamp(r)
      BY <2>2 DEF Stamp, TypeOK, Steps, Works, Results, Records
    <2>3. CASE Preflight(r)
      BY <2>3 DEF Preflight, TypeOK, Steps, Works, Results, Records
    <2>4. CASE Prepare(r)
      BY <2>4 DEF Prepare, PrepareWith, TypeOK, Steps, Works, Results, Records
    <2>5. CASE Answered(r)
      BY <2>5 DEF Answered, TypeOK, Steps, Works, Results, Records
    <2>6. CASE AgentEnds(r)
      BY <2>6 DEF AgentEnds, files, TypeOK, Steps, Works, Results, Records
    <2>7. CASE Judge(r)
      BY <2>7 DEF Judge, TypeOK, Steps, Works, Results, Records
    <2>8. CASE Record(r)
      BY <2>8 DEF Record, TypeOK, Steps, Works, Results, Records
    <2>9. CASE Publish(r)
      BY <2>9 DEF Publish, TypeOK, Steps, Works, Results, Records
    <2>10. CASE Verify(r)
      BY <2>10 DEF Verify, TypeOK, Steps, Works, Results, Records
    <2>11. QED
      BY <2>1, <2>2, <2>3, <2>4, <2>5, <2>6, <2>7, <2>8, <2>9, <2>10 DEF RunBaseline
  <1>2. /\ told' = told /\ known' = known /\ since' = since
        /\ \A d \in Commands : d # r => at'[d] = at[d]
        /\ attempt'[Old] = attempt[Old]
        /\ \A d \in Runs : d # r => attempt'[d] = attempt[d]
    <2>1. CASE Acquire(r)
      BY <2>1 DEF Acquire, AcquireIf, TypeOK
    <2>2. CASE Stamp(r)
      BY <2>2 DEF Stamp, TypeOK
    <2>3. CASE Preflight(r)
      BY <2>3 DEF Preflight, TypeOK
    <2>4. CASE Prepare(r)
      BY <2>4 DEF Prepare, PrepareWith, TypeOK
    <2>5. CASE Answered(r)
      BY <2>5 DEF Answered, TypeOK
    <2>6. CASE AgentEnds(r)
      BY <2>6 DEF AgentEnds, files, TypeOK
    <2>7. CASE Judge(r)
      BY <2>7 DEF Judge, TypeOK
    <2>8. CASE Record(r)
      BY <2>8 DEF Record, TypeOK
    <2>9. CASE Publish(r)
      BY <2>9 DEF Publish, TypeOK
    <2>10. CASE Verify(r)
      BY <2>10 DEF Verify, TypeOK
    <2>11. QED
      BY <2>1, <2>2, <2>3, <2>4, <2>5, <2>6, <2>7, <2>8, <2>9, <2>10 DEF RunBaseline
  <1>3. /\ at'[r] \in Works \cup {"ended"}
        /\ tries' \in {tries, tries \cup {r}}
        /\ at[r] = "acquire" \/ at[r] \in Works
        /\ lease # "none" => lease' # "none"
    <2>1. CASE Acquire(r)
      BY <2>1 DEF Acquire, AcquireIf, TypeOK, Works
    <2>2. CASE Stamp(r)
      BY <2>2 DEF Stamp, TypeOK, Works
    <2>3. CASE Preflight(r)
      BY <2>3 DEF Preflight, TypeOK, Works
    <2>4. CASE Prepare(r)
      BY <2>4 DEF Prepare, PrepareWith, TypeOK, Works
    <2>5. CASE Answered(r)
      BY <2>5 DEF Answered, TypeOK, Works
    <2>6. CASE AgentEnds(r)
      BY <2>6 DEF AgentEnds, files, TypeOK, Works
    <2>7. CASE Judge(r)
      BY <2>7 DEF Judge, TypeOK, Works
    <2>8. CASE Record(r)
      BY <2>8 DEF Record, TypeOK, Works
    <2>9. CASE Publish(r)
      BY <2>9 DEF Publish, TypeOK, Works
    <2>10. CASE Verify(r)
      BY <2>10 DEF Verify, TypeOK, Works
    <2>11. QED
      BY <2>1, <2>2, <2>3, <2>4, <2>5, <2>6, <2>7, <2>8, <2>9, <2>10 DEF RunBaseline
  <1>4. LeaseInv'
    <2>1. CASE Acquire(r)
      BY <2>1, <1>2, <1>3 DEF Acquire, AcquireIf, LeaseInv, Worker, TypeOK, Works
    <2>2. CASE ~Acquire(r)
      <3>1. at[r] \in Works
        BY <2>2 DEF RunBaseline, Stamp, Preflight, Prepare, PrepareWith,
             Answered, AgentEnds, Judge, Record, Publish, Verify, Works
      <3>2. \A p \in Runs : Worker(p)' => Worker(p)
        BY <1>2, <1>3, <3>1 DEF Worker
      <3>3. at'[r] # "acquire"
        BY <1>3 DEF Works
      <3> QED BY <1>2, <1>3, <3>2, <3>3 DEF LeaseInv
    <2>3. QED
      BY <2>1, <2>2
  <1>5. EvidenceInv'
    <2>1. CASE Acquire(r)
      BY <2>1, <1>2 DEF Acquire, AcquireIf, EvidenceInv, TypeOK, Works
    <2>2. CASE Stamp(r) \/ Preflight(r) \/ Prepare(r)
      BY <2>2, <1>2 DEF Stamp, Preflight, Prepare, PrepareWith, EvidenceInv, TypeOK, Works
    <2>3. CASE Answered(r)
      BY <2>3, <1>2 DEF Answered, EvidenceInv, TypeOK, Works
    <2>4. CASE AgentEnds(r) \/ Judge(r)
      BY <2>4, <1>2 DEF AgentEnds, Judge, EvidenceInv, TypeOK, Works, files
    <2>5. CASE Record(r)
      BY <2>5, <1>2 DEF Record, EvidenceInv, TypeOK, Works
    <2>6. CASE Publish(r) \/ Verify(r)
      BY <2>6, <1>2 DEF Publish, Verify, EvidenceInv, TypeOK, Works
    <2>7. QED
      BY <2>1, <2>2, <2>3, <2>4, <2>5, <2>6 DEF RunBaseline
  <1>6. ReportInv'
    <2>1. Taken => Taken'
      BY <1>2, <1>3 DEF Taken
    <2>2. recorded # {} => recorded' # {}
      BY DEF RunBaseline, Acquire, AcquireIf, Stamp, Preflight, Prepare, PrepareWith,
         Answered, AgentEnds, Judge, Record, Publish, Verify, files
    <2>3. at'[r] \notin {"legacy", "idle", "readLease", "sessions"}
      BY <1>3 DEF Works
    <2>4. QED
      BY <1>2, <2>1, <2>2, <2>3 DEF ReportInv
  <1>7. QED
    BY <1>1, <1>4, <1>5, <1>6

LEMMA KillKeepsInv ==
  ASSUME IInv, NEW c \in Commands, Kill(c)
  PROVE  IInv'
  <1> USE DEF IInv, Goto, files, ghosts, Kill
  <1>1. TypeOK'
    BY DEF TypeOK, Steps
  <1>2. /\ \A d \in Commands : d # c => at'[d] = at[d]
        /\ at'[c] = "killed"
        /\ Runs \subseteq Commands
    BY DEF TypeOK, Commands
  <1>3. LeaseInv'
    BY <1>2 DEF LeaseInv, Worker, Works
  <1>4. EvidenceInv'
    BY <1>2 DEF EvidenceInv, Works
  <1>5. ReportInv'
    BY <1>2 DEF ReportInv, Taken
  <1>6. QED
    BY <1>1, <1>3, <1>4, <1>5

LEMMA NextKeepsInv == IInv /\ [Next]_vars => IInv'
  <1> SUFFICES ASSUME IInv, [Next]_vars PROVE IInv' OBVIOUS
  <1>1. CASE Next
    BY <1>1, StatusKeepsInv, RunKeepsInv, KillKeepsInv DEF Next
  <1>2. CASE UNCHANGED vars
    BY <1>2 DEF vars, files, ghosts, IInv, TypeOK, LeaseInv, Worker, EvidenceInv,
                ReportInv, Taken
  <1>3. QED
    BY <1>1, <1>2

LEMMA SpecInv == Spec => []IInv
  BY InitInv, NextKeepsInv, PTL DEF Spec

\* The variables of the attempt keep their ranges.
THEOREM AttemptTypeOK == Spec => []TypeOK
  <1>1. IInv => TypeOK
    BY DEF IInv
  <1>2. QED
    BY <1>1, SpecInv, PTL

\* run_baseline: one attempt at most goes to work, whatever the number of
\* runs, wherever they fail or are killed.
THEOREM OnlyOneAttempt == Spec => []OneAttempt
  <1>1. IInv => OneAttempt
    <2> SUFFICES ASSUME IInv, NEW p \in tries \cup Past, NEW q \in tries \cup Past
                 PROVE  p = q
      BY DEF OneAttempt
    <2>1. tries # {} => attempt[Old] = "none"
      BY DEF IInv, TypeOK, LeaseInv, Worker
    <2>2. QED
      BY <2>1 DEF IInv, TypeOK, LeaseInv, Worker, Past
  <1>2. QED
    BY <1>1, SpecInv, PTL

\* attempt_status: what it says of a finished task rests on a recorded session,
\* and that a task may run is never said once it is taken.
THEOREM ReportsAlwaysHold == Spec => []ReportsHold
  <1>1. IInv => ReportsHold
    BY DEF IInv, TypeOK, ReportsHold, ReportInv, EvidenceInv
  <1>2. QED
    BY <1>1, SpecInv, PTL

=============================================================================
