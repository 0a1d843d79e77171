------------------------- MODULE RepairSession_proofs -------------------------
(***************************************************************************)
(* Proofs about RepairSession, for every set of files and contents and     *)
(* every value of the limits.  Each tool call comes down to one of a few   *)
(* effects on the session (StepEffect); the invariants are proved effect   *)
(* by effect.                                                              *)
(***************************************************************************)
EXTENDS RepairSession, TLAPS

USE FilesAssumption, ContentsAssumption, LimitsAssumption, BoundAssumption

-----------------------------------------------------------------------------
(* The effects a tool call can have *)

Revised ==
    \E names \in SUBSET Files :
       names = Changed(tree') /\ (RecordPatch(names) \/ RecordRollback(names))

EditFailed == RecordPatchFailure /\ Unnoticed

Missed == UNCHANGED failures /\ Unnoticed

Judged ==
    /\ Unlocked
    /\ \E v \in Validators, passed \in BOOLEAN : RecordResult(v, passed)

Lifted ==
    /\ blocked' = FALSE
    /\ unread' = 0
    /\ UNCHANGED <<phase, revision, epoch, changedFiles, result, consecutive,
                   total, reopens, tree, raised, ghosts>>

Submitted ==
    /\ NothingMissing
    /\ ReadyToSubmit
    /\ phase' = "submitted"
    /\ UNCHANGED <<revision, epoch, changedFiles, result, failures, reopens,
                   tree, raised, ghosts>>

Effect ==
    \/ Revised \/ ProbeFails \/ Missed \/ Judged \/ Lifted \/ Submitted
    \/ PatchAllowed /\ EditFailed
    \/ phase = "ready_to_submit" /\ RecordReopen

\* Every tool call runs in a session that is not over, keeps the tree a
\* tree, and has one of the effects.
LEMMA StepEffect ==
    ASSUME TypeOK, Next
    PROVE  Running /\ tree' \in Trees /\ Effect
<1> USE DEF TypeOK, Running, Unlocked, PatchAllowed
<1>0. Changed(tree') \in SUBSET Files
  BY DEF Changed
<1>1. CASE PatchApplied
  BY <1>0, <1>1 DEF PatchApplied, Edits, SynchronizeEdit, Effect, Revised
<1>2. CASE PatchRefused
  BY <1>2 DEF PatchRefused, Effect, EditFailed
<1>3. CASE PatchInterrupted
  BY <1>3 DEF PatchInterrupted, Edits, Effect, EditFailed
<1>a. OneFileEdits \subseteq Trees
  BY DEF OneFileEdits, Trees, Files
<1>4. CASE TextReplaced
  BY <1>0, <1>a, <1>4 DEF TextReplaced, SynchronizeEdit, Effect, Revised
<1>5. CASE ReplaceNotRestored
  BY <1>a, <1>5 DEF ReplaceNotRestored, Effect, Missed
<1>6. CASE RolledBack
  BY <1>0, <1>6 DEF RolledBack, Effect, Revised, Trees, Files
<1>7. CASE RollbackFailed
  BY <1>0, <1>7 DEF RollbackFailed, Effect, Revised, Missed
<1>8. ASSUME NEW v \in {"targeted", "regression"}, RunPytest(v)
      PROVE  Running /\ tree' \in Trees /\ Effect
  BY <1>8 DEF RunPytest, Effect, Judged, Validators
<1>9. CASE RunRuff
  BY <1>9 DEF RunRuff, Effect, Judged, Validators
<1>10. CASE ReadFile \/ ShowGitDiff
  BY <1>10 DEF ReadFile, ShowGitDiff, LiftBlock, Effect, Lifted
<1>11. CASE Submit
  BY <1>11 DEF Submit, Effect, Submitted
<1>12. CASE Reopen
  BY <1>12 DEF Reopen, RecordReopen, ReadyToSubmit, Effect
<1>. QED
  BY <1>1, <1>2, <1>3, <1>4, <1>5, <1>6, <1>7, <1>8, <1>9, <1>10, <1>11,
     <1>12 DEF Next
-----------------------------------------------------------------------------
(* Types *)

\* A new epoch leaves no result that counts.
LEMMA ClearedGates ==
    ASSUME TypeOK, ClearValidation, revision' \in Nat
    PROVE  Good(result)' = {} /\ epoch' \in Nat /\ epoch' > epoch
BY DEF TypeOK, ClearValidation, Good, IsCurrent, NoResult

LEMMA TypeStep == TypeOK /\ [Next]_vars => TypeOK'
<1> SUFFICES ASSUME TypeOK, [Next]_vars PROVE TypeOK'
  OBVIOUS
<1>1. CASE UNCHANGED vars
  BY <1>1 DEF vars, failures, reopens, ghosts, TypeOK
<1>2. CASE Next
  <2>0. tree' \in Trees /\ Effect
    BY <1>2, StepEffect
  <2>a. Source(tree) \in [ToolFiles -> Contents]
    BY DEF TypeOK, Source, Trees, Files
  <2>1. CASE Revised
    <3>1. PICK names \in SUBSET Files :
             NewRevision(names) /\ phase' \in {PhaseOf(names, {}), "diagnosing"}
      BY <2>1 DEF Revised, RecordPatch, RecordRollback
    <3>2. phase' \in Phases
      BY <3>1 DEF PhaseOf, Phases
    <3>3. epoch' \in Nat /\ result' \in [Validators -> Results]
      BY <3>1 DEF NewRevision, ClearValidation, TypeOK, Results, NoResult
    <3>4. seen' \in [Validators -> [ToolFiles -> Contents]]
      BY <3>1 DEF NewRevision, ClearValidation, Unseen
    <3>5. blocked' \in BOOLEAN /\ unrecorded' \in BOOLEAN /\ raised' \in BOOLEAN
      BY <3>1 DEF NewRevision, TypeOK
    <3>6. reopenCount' \in Nat /\ reopenHistory' \in Seq(Entries)
      BY <3>1 DEF NewRevision, TypeOK, reopens
    <3>7. /\ revision' \in Nat /\ consecutive' \in Nat /\ total' \in Nat
          /\ unread' \in Nat
      BY <3>1 DEF NewRevision, TypeOK
    <3>8. changedFiles' \subseteq Files
      BY <3>1 DEF NewRevision
    <3>. QED
      BY <2>0, <3>2, <3>3, <3>4, <3>5, <3>6, <3>7, <3>8 DEF TypeOK
  <2>2. CASE ProbeFails
    BY <2>0, <2>2 DEF ProbeFails, TypeOK, failures, reopens
  <2>3. CASE PatchAllowed /\ EditFailed
    BY <2>0, <2>3 DEF EditFailed, RecordPatchFailure, Unnoticed, TypeOK, reopens
  <2>4. CASE Missed
    BY <2>0, <2>4 DEF Missed, Unnoticed, TypeOK, failures, reopens
  <2>5. CASE Judged
    <3>1. PICK v \in Validators, passed \in BOOLEAN : RecordResult(v, passed)
      BY <2>5 DEF Judged
    <3>2. result' \in [Validators -> Results]
      BY <3>1 DEF RecordResult, TypeOK, Results
    <3>3. phase' \in Phases
      BY <3>1 DEF RecordResult, PhaseOf, Phases
    <3>4. seen' \in [Validators -> [ToolFiles -> Contents]]
      BY <3>1, <2>a DEF RecordResult, TypeOK
    <3>. QED
      BY <2>0, <3>1, <3>2, <3>3, <3>4 DEF RecordResult, TypeOK, failures, reopens
  <2>6. CASE Lifted
    BY <2>0, <2>6 DEF Lifted, TypeOK, reopens, ghosts
  <2>7. CASE Submitted
    BY <2>0, <2>7 DEF Submitted, TypeOK, failures, reopens, ghosts, Phases
  <2>8. CASE phase = "ready_to_submit" /\ RecordReopen
    <3>1. epoch' \in Nat /\ result' \in [Validators -> Results]
      BY <2>8 DEF RecordReopen, ClearValidation, TypeOK, Results, NoResult
    <3>2. [count |-> reopenCount', revision |-> revision,
           before |-> epoch, after |-> epoch'] \in Entries
      BY <2>8, <3>1 DEF RecordReopen, Entries, TypeOK
    <3>3. reopenHistory' \in Seq(Entries)
      BY <2>8, <3>2 DEF RecordReopen, TypeOK
    <3>4. seen' \in [Validators -> [ToolFiles -> Contents]]
      BY <2>8 DEF RecordReopen, ClearValidation, Unseen
    <3>. QED
      BY <2>0, <2>8, <3>1, <3>3, <3>4
         DEF RecordReopen, TypeOK, Phases, failures
  <2>. QED
    BY <2>0, <2>1, <2>2, <2>3, <2>4, <2>5, <2>6, <2>7, <2>8 DEF Effect
<1>. QED
  BY <1>1, <1>2

\* Every variable keeps its type, for every set of files and every limit.
THEOREM SessionTypeOK == Spec => []TypeOK
<1>1. Init => TypeOK
  <2> SUFFICES ASSUME Init PROVE TypeOK
    OBVIOUS
  <2>1. result \in [Validators -> Results]
    BY DEF Init, Results, NoResult
  <2>2. tree \in Trees /\ seen \in [Validators -> [ToolFiles -> Contents]]
    BY DEF Init, Trees, Files, Unseen
  <2>3. reopenHistory \in Seq(Entries)
    BY DEF Init
  <2>4. blocked \in BOOLEAN /\ raised \in BOOLEAN /\ unrecorded \in BOOLEAN
    BY DEF Init
  <2>. QED
    BY <2>1, <2>2, <2>3, <2>4 DEF Init, TypeOK, Phases
<1>. QED
  BY <1>1, TypeStep, PTL DEF Spec

-----------------------------------------------------------------------------
(* The ready lock, the gates and the validated tree *)

\* A recorded result is about the sources the tree holds, unless an edit
\* escaped the session.
ResultsMatchTree ==
    \/ unrecorded
    \/ \A v \in Validators : IsCurrent(result[v]) => seen[v] = Source(tree)

\* A session an exception ended submits nothing.
RaisedEnds == raised => phase # "submitted"

GateInv == LockMatchesGates /\ NoStaleResult /\ ResultsMatchTree /\ RaisedEnds

LEMMA GateStep == TypeOK /\ GateInv /\ [Next]_vars => GateInv'
<1> SUFFICES ASSUME TypeOK, GateInv, [Next]_vars PROVE GateInv'
  OBVIOUS
<1>a. TypeOK'
  BY TypeStep
<1>1. CASE UNCHANGED vars
  BY <1>1 DEF GateInv, vars, LockMatchesGates, NoStaleResult, ResultsMatchTree,
     RaisedEnds, ReadyToSubmit, Good, IsCurrent, Source, ghosts
<1>2. CASE Next
  <2>0. Running /\ tree' \in Trees /\ Effect
    BY <1>2, StepEffect
  <2>1. ASSUME ClearValidation, phase' \in {"patched", "diagnosing"}
        PROVE  GateInv'
    <3>1. Good(result)' = {}
      BY <1>a, <2>1, ClearedGates DEF TypeOK
    <3>2. LockMatchesGates'
      BY <2>1, <3>1 DEF LockMatchesGates, ReadyToSubmit, Validators
    <3>3. NoStaleResult'
      BY <2>1 DEF ClearValidation, NoStaleResult
    <3>4. ResultsMatchTree'
      BY <1>a, <2>1
         DEF ClearValidation, ResultsMatchTree, IsCurrent, NoResult, TypeOK
    <3>5. RaisedEnds'
      BY <2>1 DEF RaisedEnds
    <3>. QED
      BY <3>2, <3>3, <3>4, <3>5 DEF GateInv
  <2>2. CASE Revised
    BY <2>1, <2>2
       DEF Revised, RecordPatch, RecordRollback, NewRevision, PhaseOf, Validators
  <2>3. CASE phase = "ready_to_submit" /\ RecordReopen
    BY <2>1, <2>3 DEF RecordReopen
  <2>4. ASSUME UNCHANGED <<phase, revision, epoch, changedFiles, result, seen>>,
               unrecorded' = (unrecorded \/ Source(tree') # Source(tree))
        PROVE  GateInv'
    BY <2>0, <2>4 DEF GateInv, LockMatchesGates, NoStaleResult, ResultsMatchTree,
       RaisedEnds, Running, ReadyToSubmit, Good, IsCurrent
  <2>5. CASE ProbeFails
    BY <2>4, <2>5 DEF ProbeFails
  <2>9. CASE Missed
    BY <2>4, <2>9 DEF Missed, Unnoticed
  <2>10. CASE PatchAllowed /\ EditFailed
    BY <2>4, <2>10 DEF EditFailed, Unnoticed
  <2>6. CASE Lifted
    BY <2>4, <2>6 DEF Lifted, ghosts, TypeOK
  <2>7. CASE Judged
    <3>1. PICK v \in Validators, passed \in BOOLEAN : RecordResult(v, passed)
      BY <2>7 DEF Judged
    <3>2. phase' = PhaseOf(changedFiles', Good(result)')
      BY <3>1 DEF RecordResult, Good, IsCurrent
    <3>3. LockMatchesGates'
      BY <3>2 DEF PhaseOf, LockMatchesGates, ReadyToSubmit, Validators
    <3>4. NoStaleResult'
      BY <3>1 DEF GateInv, RecordResult, NoStaleResult, IsCurrent, TypeOK
    <3>5. ResultsMatchTree'
      BY <3>1 DEF GateInv, RecordResult, ResultsMatchTree, IsCurrent, TypeOK
    <3>6. RaisedEnds'
      BY <3>2 DEF PhaseOf, RaisedEnds
    <3>. QED
      BY <3>3, <3>4, <3>5, <3>6 DEF GateInv
  <2>8. CASE Submitted
    BY <2>0, <2>8 DEF GateInv, Submitted, Running, LockMatchesGates, NoStaleResult,
       ResultsMatchTree, RaisedEnds, ReadyToSubmit, Good, IsCurrent, ghosts,
       Validators
  <2>. QED
    BY <2>0, <2>2, <2>3, <2>5, <2>6, <2>7, <2>8, <2>9, <2>10 DEF Effect
<1>. QED
  BY <1>1, <1>2

THEOREM SessionGates == Spec => []GateInv
<1>1. Init => GateInv
  BY DEF Init, GateInv, LockMatchesGates, NoStaleResult, ResultsMatchTree,
     RaisedEnds, ReadyToSubmit, Good, IsCurrent, NoResult, Validators
<1>. QED
  BY <1>1, GateStep, SessionTypeOK, PTL DEF Spec

\* The lock is on exactly when every gate is passed on the current revision
\* and epoch; in particular no legal reopening raises.
THEOREM LockIsSound == Spec => []LockMatchesGates
BY SessionGates, PTL DEF GateInv

\* No recorded result is ever stale.
THEOREM ResultsAreCurrent == Spec => []NoStaleResult
BY SessionGates, PTL DEF GateInv

\* Whatever the agent does, a session submits the very sources every validator
\* passed on, unless an edit slipped past it or a validator's own run rewrote
\* them; what a call left behind that raised is never submitted.
THEOREM SubmissionIsValidated == Spec => []RecordedSubmissionIsValidated
<1>1. GateInv => RecordedSubmissionIsValidated
  BY DEF GateInv, LockMatchesGates, ResultsMatchTree, RaisedEnds, ReadyToSubmit, Good,
     RecordedSubmissionIsValidated, SubmittedIsValidated
<1>. QED
  BY <1>1, SessionGates, PTL

-----------------------------------------------------------------------------
(* The patch breaker and the reopen audit *)

LEMMA BudgetStep == TypeOK /\ FailureBudget /\ [Next]_vars => FailureBudget'
<1> SUFFICES ASSUME TypeOK, FailureBudget, [Next]_vars PROVE FailureBudget'
  OBVIOUS
<1> USE DEF TypeOK, FailureBudget
<1>1. ASSUME UNCHANGED failures PROVE FailureBudget'
  BY <1>1 DEF failures
<1>2. CASE UNCHANGED vars
  BY <1>1, <1>2 DEF vars
<1>3. CASE Next
  <2>0. Effect
    BY <1>3, StepEffect
  <2>1. CASE Revised
    BY <2>1 DEF Revised, RecordPatch, RecordRollback, NewRevision
  <2>2. CASE PatchAllowed /\ EditFailed
    <3>1. /\ ~blocked /\ total < TotalLimit
          /\ consecutive' = consecutive + 1 /\ total' = total + 1
          /\ unread' = unread + 1
      BY <2>2 DEF PatchAllowed, EditFailed, RecordPatchFailure
    <3>2. blocked' <=> consecutive' >= ConsecutiveLimit
      <4>1. blocked' = (blocked \/ consecutive + 1 >= ConsecutiveLimit)
        BY <2>2 DEF EditFailed, RecordPatchFailure
      <4>. QED
        BY <3>1, <4>1, Zenon
    <3>3. unread = 0 \/ consecutive < ConsecutiveLimit
      BY <3>1
    <3>. QED
      BY <3>1, <3>2, <3>3
  <2>3. CASE Lifted
    BY <2>3 DEF Lifted
  <2>4. CASE ProbeFails
    BY <1>1, <2>4 DEF ProbeFails
  <2>5. CASE Missed
    BY <1>1, <2>5 DEF Missed
  <2>6. CASE Judged
    BY <1>1, <2>6 DEF Judged, RecordResult
  <2>7. CASE Submitted
    BY <1>1, <2>7 DEF Submitted
  <2>8. CASE phase = "ready_to_submit" /\ RecordReopen
    BY <1>1, <2>8 DEF RecordReopen
  <2>. QED
    BY <2>0, <2>1, <2>2, <2>3, <2>4, <2>5, <2>6, <2>7, <2>8 DEF Effect
<1>. QED
  BY <1>2, <1>3

\* Patches fail at most TotalLimit times in a session, and at most
\* ConsecutiveLimit times between two reads or recorded edits: the failure that
\* makes the row long enough, and every one after a read, blocks the patch tool.
THEOREM BreakerHolds == Spec => []FailureBudget
<1>1. Init => FailureBudget
  BY DEF Init, FailureBudget
<1>. QED
  BY <1>1, BudgetStep, SessionTypeOK, PTL DEF Spec

LEMMA AuditStep == TypeOK /\ AuditIsConsistent /\ [Next]_vars => AuditIsConsistent'
<1> SUFFICES ASSUME TypeOK, AuditIsConsistent, [Next]_vars
             PROVE  AuditIsConsistent'
  OBVIOUS
<1>e. \A i \in 1..Len(reopenHistory) : reopenHistory[i] \in Entries
  BY DEF TypeOK
<1>1. ASSUME UNCHANGED reopens, revision' >= revision, epoch' >= epoch,
             revision' \in Nat, epoch' \in Nat
      PROVE  AuditIsConsistent'
  <2>1. reopenHistory' = reopenHistory /\ reopenCount' = reopenCount
    BY <1>1 DEF reopens
  <2>2. \A i \in 1..Len(reopenHistory) :
           reopenHistory[i].after \in Nat /\ reopenHistory[i].revision \in Nat
    BY <1>e DEF Entries
  <2>3. \A i \in 1..Len(reopenHistory) :
           reopenHistory[i].after <= epoch' /\ reopenHistory[i].revision <= revision'
    BY <1>1, <2>2 DEF AuditIsConsistent, TypeOK
  <2>. QED
    BY <2>1, <2>3 DEF AuditIsConsistent
<1>2. ASSUME UNCHANGED <<reopens, revision, epoch>> PROVE AuditIsConsistent'
  BY <1>2 DEF AuditIsConsistent, reopens
<1>3. CASE UNCHANGED vars
  BY <1>2, <1>3 DEF vars
<1>4. CASE Next
  <2>0. Effect
    BY <1>4, StepEffect
  <2>1. CASE Revised
    BY <1>1, <2>1
       DEF Revised, RecordPatch, RecordRollback, NewRevision, ClearValidation, TypeOK
  <2>2. CASE PatchAllowed /\ EditFailed
    BY <1>2, <2>2 DEF EditFailed, Unnoticed
  <2>3. CASE Lifted
    BY <1>2, <2>3 DEF Lifted
  <2>4. CASE ProbeFails
    BY <1>2, <2>4 DEF ProbeFails
  <2>5. CASE Missed
    BY <1>2, <2>5 DEF Missed, Unnoticed
  <2>6. CASE Judged
    BY <1>2, <2>6 DEF Judged, RecordResult
  <2>7. CASE Submitted
    BY <1>2, <2>7 DEF Submitted
  <2>8. CASE phase = "ready_to_submit" /\ RecordReopen
    <3> DEFINE n == Len(reopenHistory)
               e == [count |-> reopenCount', revision |-> revision,
                     before |-> epoch, after |-> epoch']
    <3>0. n \in Nat /\ reopenCount' = n + 1 /\ epoch' = epoch + 1 /\ epoch \in Nat
          /\ revision' = revision /\ revision \in Nat
      BY <2>8 DEF RecordReopen, ClearValidation, AuditIsConsistent, TypeOK
    <3>1. reopenHistory' = Append(reopenHistory, e)
      BY <2>8 DEF RecordReopen
    <3>2. e \in Entries /\ reopenHistory \in Seq(Entries)
      BY <3>0 DEF TypeOK, Entries
    <3>3. Len(reopenHistory') = n + 1
      BY <3>1, <3>2
    <3>4. /\ reopenHistory'[n + 1] = e
          /\ \A i \in 1..n : reopenHistory'[i] = reopenHistory[i]
      BY <3>1, <3>2
    <3> HIDE DEF n
    <3>5. \A i \in 1..(n + 1) : i \in 1..n \/ i = n + 1
      BY <3>0
    <3>6. \A i \in 1..n : /\ reopenHistory[i].count = i
                          /\ reopenHistory[i].after = reopenHistory[i].before + 1
                          /\ reopenHistory[i].after <= epoch
                          /\ reopenHistory[i].revision <= revision
                          /\ reopenHistory[i].after \in Nat
      BY <1>e DEF n, AuditIsConsistent, Entries
    <3>7. \A i \in 1..n, j \in 1..n : i < j =>
             reopenHistory[i].after <= reopenHistory[j].before
      BY DEF n, AuditIsConsistent
    <3>8. reopenCount' = Len(reopenHistory')
      BY <3>0, <3>3
    <3>9. \A i \in 1..(n + 1) :
             /\ reopenHistory'[i].count = i
             /\ reopenHistory'[i].after = reopenHistory'[i].before + 1
             /\ reopenHistory'[i].after <= epoch'
             /\ reopenHistory'[i].revision <= revision'
      BY <3>0, <3>4, <3>5, <3>6
    <3>10. \A i \in 1..(n + 1), j \in 1..(n + 1) : i < j =>
              reopenHistory'[i].after <= reopenHistory'[j].before
      <4> SUFFICES ASSUME NEW i \in 1..(n + 1), NEW j \in 1..(n + 1), i < j
                   PROVE  reopenHistory'[i].after <= reopenHistory'[j].before
        OBVIOUS
      <4>1. i \in 1..n
        BY <3>0
      <4>2. CASE j \in 1..n
        BY <3>4, <3>7, <4>1, <4>2
      <4>3. CASE j = n + 1
        BY <3>4, <3>6, <4>1, <4>3
      <4>. QED
        BY <3>5, <4>2, <4>3
    <3>. QED
      BY <3>3, <3>8, <3>9, <3>10 DEF AuditIsConsistent
  <2>. QED
    BY <2>0, <2>1, <2>2, <2>3, <2>4, <2>5, <2>6, <2>7, <2>8 DEF Effect
<1>. QED
  BY <1>3, <1>4

\* The reopen history stays a complete and sequential audit trail.
THEOREM AuditHolds == Spec => []AuditIsConsistent
<1>1. Init => AuditIsConsistent
  BY DEF Init, AuditIsConsistent
<1>. QED
  BY <1>1, AuditStep, SessionTypeOK, PTL DEF Spec

-----------------------------------------------------------------------------
(* Action properties *)

\* Every noticed edit starts a new revision and drops the results.
THEOREM NoticedEditsInvalidate == Spec => EditsInvalidate
<1>1. TypeOK /\ [Next]_vars =>
        [Source(tree') # Source(tree) /\ ~unrecorded' =>
           revision' = revision + 1 /\ Good(result)' = {}]_vars
  <2> SUFFICES ASSUME TypeOK, Next, Source(tree') # Source(tree), ~unrecorded'
               PROVE  revision' = revision + 1 /\ Good(result)' = {}
    OBVIOUS
  <2>0. Effect /\ TypeOK'
    BY StepEffect, TypeStep
  <2>1. CASE Revised
    BY <2>0, <2>1, ClearedGates
       DEF Revised, RecordPatch, RecordRollback, NewRevision, TypeOK
  <2>2. ~ProbeFails /\ ~EditFailed /\ ~Missed
    BY DEF ProbeFails, EditFailed, Missed, Unnoticed
  <2>3. ~Judged /\ ~Lifted /\ ~Submitted /\ ~RecordReopen
    BY DEF Judged, RecordResult, Lifted, Submitted, RecordReopen
  <2>. QED
    BY <2>0, <2>1, <2>2, <2>3 DEF Effect
<1>. QED
  BY <1>1, SessionTypeOK, PTL DEF Spec, EditsInvalidate

\* Behind the ready lock no fresh edit, no fresh result: only a rollback,
\* a reopening and the submission itself are left.
THEOREM LockKeepsValidatedTree == Spec => ReadyLock
<1> DEFINE Kept ==
      /\ \A f \in Files : tree[f] = AtHead => tree'[f] = AtHead
      /\ \/ UNCHANGED <<result, epoch>>
         \/ epoch' = epoch + 1 /\ result' = [v \in Validators |-> NoResult]
      /\ phase' = "submitted" => UNCHANGED <<tree, result, changedFiles>>
<1>1. TypeOK /\ [Next]_vars => [phase = "ready_to_submit" => Kept]_vars
  <2> SUFFICES ASSUME TypeOK, Next, phase = "ready_to_submit" PROVE Kept
    OBVIOUS
  <2>0. ~Unlocked /\ ~PatchAllowed
    BY DEF Unlocked, PatchAllowed
  <2>1. ASSUME NEW names \in SUBSET Files, RecordPatch(names) \/ RecordRollback(names)
        PROVE  /\ epoch' = epoch + 1 /\ result' = [v \in Validators |-> NoResult]
               /\ phase' # "submitted"
    BY <2>1 DEF RecordPatch, RecordRollback, NewRevision, ClearValidation, PhaseOf
  <2>2. ASSUME ProbeFails \/ Unnoticed
        PROVE  UNCHANGED <<result, epoch>> /\ phase' # "submitted"
    BY <2>2 DEF ProbeFails, Unnoticed
  <2>3. Changed(tree') \in SUBSET Files
    BY DEF Changed
  <2>4. CASE RolledBack
    BY <2>1, <2>2, <2>3, <2>4 DEF RolledBack
  <2>5. CASE RollbackFailed
    <3>1. \A f \in Files : tree[f] = AtHead => tree'[f] = AtHead
      BY <2>5 DEF RollbackFailed
    <3>. QED
      BY <2>1, <2>2, <2>3, <2>5, <3>1 DEF RollbackFailed
  <2>6. CASE ShowGitDiff
    BY <2>6 DEF ShowGitDiff, LiftBlock
  <2>7. CASE Submit
    BY <2>2, <2>7 DEF Submit
  <2>8. CASE Reopen
    BY <2>8 DEF Reopen, RecordReopen, ClearValidation
  <2>9. /\ ~PatchApplied /\ ~PatchRefused /\ ~PatchInterrupted
        /\ ~TextReplaced /\ ~ReplaceNotRestored /\ ~RunRuff /\ ~ReadFile
        /\ ~RunPytest("targeted") /\ ~RunPytest("regression")
    BY <2>0 DEF PatchApplied, PatchRefused, PatchInterrupted, TextReplaced,
       ReplaceNotRestored, RunRuff, RunPytest, ReadFile, LiftBlock
  <2>. QED
    BY <2>4, <2>5, <2>6, <2>7, <2>8, <2>9 DEF Next
<1>. QED
  BY <1>1, SessionTypeOK, PTL DEF Spec, ReadyLock

-----------------------------------------------------------------------------
(* The session implements the abstract gate *)

\* Every step of a session is an edit, a slip, a reset, a verdict or the
\* handing in of the work, or nothing the gate can see.
LEMMA StepImplementsGate ==
    TypeOK /\ GateInv /\ [Next]_vars => [Gate!GateNext]_(Gate!gateVars)
<1> SUFFICES ASSUME TypeOK, GateInv, [Next]_vars
             PROVE  [Gate!GateNext]_(Gate!gateVars)
  OBVIOUS
<1> USE DEF Gate!gateVars, Gate!GateNext
<1>a. TypeOK'
  BY TypeStep
<1>b. Source(tree) \in [ToolFiles -> Contents]
      /\ Source(tree') \in [ToolFiles -> Contents]
  BY <1>a DEF TypeOK, Source, Trees, Files
<1>1. ASSUME UNCHANGED <<phase, revision, epoch, result, tree, unrecorded>>
      PROVE  UNCHANGED Gate!gateVars
  BY <1>1 DEF Source, Good, IsCurrent
<1>2. CASE UNCHANGED vars
  BY <1>1, <1>2 DEF vars, ghosts
<1>3. CASE Next
  <2>0. Running /\ Effect
    BY <1>3, StepEffect
  <2>1. phase # "submitted"
    BY <2>0 DEF Running
  <2>2. CASE Revised
    <3>1. PICK names \in SUBSET Files :
             NewRevision(names) /\ phase' \in {PhaseOf(names, {}), "diagnosing"}
      BY <2>2 DEF Revised, RecordPatch, RecordRollback
    <3>2. phase' # "submitted" /\ ~unrecorded'
      BY <3>1 DEF NewRevision, PhaseOf
    <3>3. Good(result)' = {}
      BY <1>a, <3>1, ClearedGates DEF NewRevision, TypeOK
    <3>. QED
      BY <1>b, <2>1, <3>2, <3>3 DEF Gate!Edit
  <2>3. ASSUME UNCHANGED <<phase, revision, epoch, result>>,
               unrecorded' = (unrecorded \/ Source(tree') # Source(tree))
        PROVE  [Gate!GateNext]_(Gate!gateVars)
    <3>0. Good(result)' = Good(result)
      BY <2>3 DEF Good, IsCurrent
    <3>1. CASE Source(tree') = Source(tree)
      BY <2>3, <3>0, <3>1 DEF TypeOK
    <3>2. CASE Source(tree') # Source(tree)
      BY <1>b, <2>1, <2>3, <3>0, <3>2 DEF Gate!Slip
    <3>. QED
      BY <3>1, <3>2
  <2>4. CASE ProbeFails
    BY <2>3, <2>4 DEF ProbeFails
  <2>5. CASE Missed
    BY <2>3, <2>5 DEF Missed, Unnoticed
  <2>6. CASE PatchAllowed /\ EditFailed
    BY <2>3, <2>6 DEF EditFailed, Unnoticed
  <2>7. CASE Lifted
    BY <1>1, <2>7 DEF Lifted, ghosts
  <2>8. CASE Judged
    <3>1. PICK v \in Validators, passed \in BOOLEAN : RecordResult(v, passed)
      BY <2>8 DEF Judged
    <3>2. Good(result)' \in {Good(result) \cup {v}, Good(result) \ {v}}
      BY <3>1 DEF RecordResult, Good, IsCurrent, TypeOK
    <3>3. phase' # "submitted"
      BY <3>1 DEF RecordResult, PhaseOf
    <3>4. unrecorded' = (unrecorded \/ Source(tree') # Source(tree))
      BY <3>1 DEF RecordResult
    <3>5. CASE Source(tree') = Source(tree)
      BY <2>1, <3>2, <3>3, <3>4, <3>5 DEF Gate!Judge, TypeOK
    <3>6. CASE Source(tree') # Source(tree)
      BY <1>b, <2>1, <3>2, <3>3, <3>4, <3>6 DEF Gate!Judge
    <3>. QED
      BY <3>5, <3>6
  <2>9. CASE Submitted
    <3>1. Good(result) = Validators /\ Good(result)' = Good(result)
      BY <2>9 DEF Submitted, NothingMissing, Good, IsCurrent
    <3>. QED
      BY <2>1, <2>9, <3>1 DEF Submitted, ghosts, Gate!HandIn
  <2>10. CASE phase = "ready_to_submit" /\ RecordReopen
    <3>1. Good(result)' = {}
      BY <1>a, <2>10, ClearedGates DEF RecordReopen, TypeOK
    <3>. QED
      BY <2>1, <2>10, <3>1 DEF RecordReopen, Gate!Reset
  <2>. QED
    BY <2>0, <2>2, <2>4, <2>5, <2>6, <2>7, <2>8, <2>9, <2>10 DEF Effect
<1>. QED
  BY <1>2, <1>3

\* Seen through its sources and its current passed results, a session is the
\* abstract gate of SubmissionGate.
THEOREM SessionImplementsGate == Spec => ImplementsGate
<1>1. Init => Gate!GateInit
  BY DEF Init, Gate!GateInit, Source, Good, IsCurrent, NoResult, Files
<1>. QED
  BY <1>1, StepImplementsGate, SessionTypeOK, SessionGates, PTL
     DEF Spec, ImplementsGate, Gate!GateSpec

-----------------------------------------------------------------------------
(* The session implements what the agent's tools work on *)

\* The stamp is current on every recorded result, so that the tools see the
\* gates as the session counts them.
LEMMA ToolGates ==
    ASSUME TypeOK, GateInv
    PROVE  /\ Tool!Ready <=> ReadyToSubmit
           /\ \A v \in Validators : ToolView.results[v] = "passed" <=> v \in Good(result)
<1>1. \A v \in Validators : ToolView.results[v] = "passed" <=> v \in Good(result)
  <2> SUFFICES ASSUME NEW v \in Validators
               PROVE  ToolView.results[v] = "passed" <=> v \in Good(result)
    OBVIOUS
  <2>1. ToolView.results[v] = Verdict(result[v])
    BY DEF ToolView
  <2>2. result[v] = NoResult \/ IsCurrent(result[v])
    BY DEF GateInv, NoStaleResult
  <2>3. ~NoResult.passed
    BY DEF NoResult
  <2>. QED
    BY <2>1, <2>2, <2>3 DEF Good, Verdict
<1>2. ToolView.changed <=> changedFiles # {}
  BY DEF ToolView, HasChanges
<1>3. Good(result) = Validators <=> \A v \in Validators : v \in Good(result)
  BY DEF Good
<1>. QED
  BY <1>1, <1>2, <1>3 DEF Tool!Ready, ReadyToSubmit

\* A session without results, seen by the tools.
LEMMA ToolCleared ==
    ASSUME TypeOK, ClearValidation
    PROVE  ToolView' = [revision |-> revision', epoch |-> epoch + 1,
                        changed |-> HasChanges', results |-> Tool!NoResults]
<1>1. result' = [v \in Validators |-> NoResult] /\ epoch' = epoch + 1
  BY DEF ClearValidation
<1>2. [v \in Validators |-> Verdict(result'[v])] = Tool!NoResults
  BY <1>1 DEF Tool!NoResults, Verdict
<1>. QED
  BY <1>1, <1>2 DEF ToolView

\* A tool that leaves the session as it is.
LEMMA ToolIdle ==
    ASSUME UNCHANGED <<phase, revision, epoch, changedFiles, result>>
    PROVE  UNCHANGED <<ToolView, phase = "submitted">>
BY DEF ToolView, HasChanges

\* One valid use of a tool is a step of the abstract session.
LEMMA ToolUsed ==
    ASSUME NEW tool \in Tool!Tools, NEW ok \in BOOLEAN,
           NEW about \in Tool!Subjects(tool),
           Tool!Effect([tool |-> tool, about |-> about], ok, ToolView'),
           phase # "submitted", phase' # "submitted"
    PROVE  Tool!SessionNext
BY DEF Tool!SessionNext, Tool!UseTool

LEMMA StepImplementsTool ==
    TypeOK /\ GateInv /\ [Next]_vars =>
        [Tool!SessionNext]_<<ToolView, phase = "submitted">>
<1> SUFFICES ASSUME TypeOK, GateInv, [Next]_vars
             PROVE  [Tool!SessionNext]_<<ToolView, phase = "submitted">>
  OBVIOUS
<1>1. CASE UNCHANGED vars
  BY <1>1, ToolIdle DEF vars
<1>2. CASE Next
  <2>0. Running /\ Effect
    BY <1>2, StepEffect
  <2>1. phase # "submitted"
    BY <2>0 DEF Running
  <2>2. CASE Revised
    <3>1. PICK names \in SUBSET Files :
             NewRevision(names) /\ phase' \in {PhaseOf(names, {}), "diagnosing"}
      BY <2>2 DEF Revised, RecordPatch, RecordRollback
    <3>2. phase' # "submitted"
      BY <3>1 DEF PhaseOf
    <3>3. ClearValidation /\ revision' = revision + 1
      BY <3>1 DEF NewRevision
    <3>4. ToolView' = Tool!Revised(HasChanges')
      BY <3>3, ToolCleared DEF Tool!Revised, Tool!Session, ToolView
    <3>5. Tool!Effect([tool |-> "rollback", about |-> "none"], TRUE, ToolView')
      BY <3>4 DEF Tool!Effect, Tool!Valid, HasChanges
    <3>. QED
      BY <2>1, <3>2, <3>5, ToolUsed DEF Tool!Tools, Tool!Subjects
  <2>3. CASE Judged
    <3>1. PICK v \in Validators, passed \in BOOLEAN : RecordResult(v, passed)
      BY <2>3 DEF Judged
    <3>2. phase' # "submitted"
      BY <3>1 DEF RecordResult, PhaseOf
    <3>3. ~Tool!Ready
      BY <2>1, <2>3, ToolGates DEF Judged, Unlocked, GateInv, LockMatchesGates
    <3>4. ToolView' = Tool!Judged(v, IF passed THEN "passed" ELSE "failed")
      <4>1. result' = [result EXCEPT ![v] =
                         [rev |-> revision, epoch |-> epoch, passed |-> passed]]
            /\ UNCHANGED <<revision, epoch, HasChanges>>
        BY <3>1 DEF RecordResult, HasChanges
      <4>2. [rev |-> revision, epoch |-> epoch, passed |-> passed] # NoResult
        BY DEF TypeOK, NoResult
      <4>3. \A w \in Validators : result'[w] =
               IF w = v THEN [rev |-> revision, epoch |-> epoch, passed |-> passed]
                        ELSE result[w]
        BY <4>1 DEF TypeOK
      <4> DEFINE said == IF passed THEN "passed" ELSE "failed"
      <4>4. Verdict(result'[v]) = said
        <5>1. result'[v] = [rev |-> revision, epoch |-> epoch, passed |-> passed]
          BY <4>3
        <5>2. result'[v] # NoResult /\ result'[v].passed = passed
          BY <4>2, <5>1
        <5>. QED
          BY <5>2, Zenon DEF Verdict
      <4>5. \A w \in Validators \ {v} : Verdict(result'[w]) = Verdict(result[w])
        BY <4>3
      <4>6. [w \in Validators |-> Verdict(result'[w])] =
               [[w \in Validators |-> Verdict(result[w])] EXCEPT ![v] = said]
        <5> HIDE DEF said
        <5>. QED
          BY <4>4, <4>5
      <4>7. ToolView.results = [w \in Validators |-> Verdict(result[w])]
        BY DEF ToolView
      <4>. QED
        BY <4>1, <4>6, <4>7 DEF ToolView, Tool!Judged, Tool!Session
    <3>5. Tool!Effect([tool |-> "validate", about |-> v], passed, ToolView')
      BY <3>3, <3>4 DEF Tool!Effect, Tool!Valid
    <3>. QED
      BY <2>1, <3>2, <3>5, ToolUsed DEF Tool!Tools, Tool!Subjects
  <2>4. CASE phase = "ready_to_submit" /\ RecordReopen
    <3>1. ClearValidation /\ phase' # "submitted" /\ UNCHANGED <<revision, changedFiles>>
      BY <2>4 DEF RecordReopen
    <3>2. Tool!Ready
      BY <2>4, ToolGates DEF RecordReopen
    <3>3. ToolView' = Tool!Reopened
      <4>1. UNCHANGED HasChanges
        BY <3>1 DEF HasChanges
      <4>. QED
        BY <3>1, <4>1, ToolCleared DEF Tool!Reopened, Tool!Session, ToolView
    <3>4. Tool!Effect([tool |-> "reopen", about |-> "none"], TRUE, ToolView')
      BY <3>2, <3>3 DEF Tool!Effect, Tool!Valid
    <3>. QED
      BY <2>1, <3>1, <3>4, ToolUsed DEF Tool!Tools, Tool!Subjects
  <2>5. CASE Submitted
    <3>1. Tool!Ready /\ phase' = "submitted"
      BY <2>5, ToolGates DEF Submitted
    <3>2. UNCHANGED ToolView
      BY <2>5 DEF Submitted, ToolView, HasChanges
    <3>. QED
      BY <2>1, <3>1, <3>2 DEF Tool!SessionNext, Tool!Accept
  <2>6. CASE ProbeFails
    BY <2>6, ToolIdle DEF ProbeFails
  <2>7. CASE Missed
    BY <2>7, ToolIdle DEF Missed, Unnoticed
  <2>8. CASE PatchAllowed /\ EditFailed
    BY <2>8, ToolIdle DEF EditFailed, Unnoticed
  <2>9. CASE Lifted
    BY <2>9, ToolIdle DEF Lifted
  <2>. QED
    BY <2>0, <2>2, <2>3, <2>4, <2>5, <2>6, <2>7, <2>8, <2>9 DEF Effect
<1>. QED
  BY <1>1, <1>2

\* Seen by the tools of the agent, a session is the one RepairAgent drives.
THEOREM SessionImplementsTools == Spec => ImplementsToolSession
<1>1. Init => Tool!SessionInit
  BY DEF Init, Tool!SessionInit, Tool!Fresh, Tool!Session, Tool!NoResults, ToolView, Verdict, HasChanges
<1>. QED
  BY <1>1, StepImplementsTool, SessionTypeOK, SessionGates, PTL
     DEF Spec, ImplementsToolSession, Tool!SessionSpec

=============================================================================
