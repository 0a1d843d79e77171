---------------------------- MODULE RepairSession ----------------------------
(***************************************************************************)
(* One repair session: the state machine of repair/state.py, driven by the *)
(* tool calls FastFixRepairEnvironment.execute dispatches, over the real   *)
(* working tree of the candidate that the editing and validation tools     *)
(* read and write.  A tool call is one action: the agent runs its tools    *)
(* one after the other, so nothing interleaves with a call.                *)
(*                                                                         *)
(* Calls that execute() answers without changing anything modelled here (a *)
(* locked tool, refused arguments, a refused submission, a replace_text    *)
(* that restored the file, searches) are stuttering steps.                 *)
(***************************************************************************)
EXTENDS Integers, Sequences

CONSTANTS ToolFiles,   \* tracked files under the allowed source paths
          SideFiles,   \* other tracked files
          TestFiles,   \* those of SideFiles under tests/
          Rewritten,   \* files the tests themselves may rewrite: any with the
                       \* local backend, none in Docker's read-only mount
          Contents,    \* what a file may hold
          AtHead,        \* the content every file has at HEAD
          ConsecutiveLimit, \* 3: failures in a row that block patches
          TotalLimit,       \* 6: failures in all that disable them
          MaxEpoch     \* bound on the validation epoch, hence on revisions

Files == ToolFiles \cup SideFiles
Trees == [Files -> Contents]
Validators == {"targeted", "regression", "ruff"}
Phases == {"diagnosing", "patched", "target_validated",
           "regression_validated", "ready_to_submit", "submitted"}

ASSUME FilesAssumption ==
    /\ ToolFiles # {}
    /\ ToolFiles \cap SideFiles = {}
    /\ TestFiles \subseteq SideFiles
    /\ Rewritten \subseteq Files
ASSUME ContentsAssumption == AtHead \in Contents
ASSUME LimitsAssumption == ConsecutiveLimit \in Nat \ {0} /\ TotalLimit \in Nat
ASSUME BoundAssumption == MaxEpoch \in Nat

VARIABLES phase,        \* RepairSessionState.phase
          revision,
          epoch,        \* validation_epoch
          changedFiles, \* changed_files, as last recorded
          result,       \* the three validation results with their revisions
          consecutive,  \* consecutive_patch_failures
          total,        \* total_patch_failures
          blocked,      \* patch_temporarily_blocked
          reopenCount,
          reopenHistory,
          tree,         \* the candidate's working tree
          raised,       \* an exception left execute(): the agent stops
          seen,         \* ghost: the sources each validator's result is about
          unrecorded,   \* ghost: the tree holds a change no revision accounts for
          unread        \* ghost: failed patches since a block was last lifted
                        \* or an edit recorded

failures == <<consecutive, total, blocked, unread>>
reopens == <<reopenCount, reopenHistory>>
ghosts == <<seen, unrecorded>>
vars == <<phase, revision, epoch, changedFiles, result, failures, reopens,
          tree, raised, ghosts>>

-----------------------------------------------------------------------------
(* Results, derived status and phase *)

Results == [rev : Int, epoch : Int, passed : BOOLEAN]

\* No result recorded: stamps no session has.
NoResult == [rev |-> -1, epoch |-> -1, passed |-> FALSE]

\* git diff --name-only HEAD
Changed(t) == {f \in Files : t[f] # AtHead}

\* What the source files hold in a tree.
Source(t) == [f \in ToolFiles |-> t[f]]

Unseen == [v \in Validators |-> [f \in ToolFiles |-> AtHead]]

IsCurrent(r) == r.rev = revision /\ r.epoch = epoch

\* Mutant: a validator that failed counts once it has run.
GoodOnceRun(results) == {v \in Validators : IsCurrent(results[v])}

Good(results) == {v \in Validators : IsCurrent(results[v]) /\ results[v].passed}

ReadyToSubmit == changedFiles # {} /\ Good(result) = Validators

\* The phase _refresh_phase derives from the recorded names and the
\* validators that passed on the current revision and epoch.
PhaseOf(names, good) ==
    IF names # {} /\ good = Validators THEN "ready_to_submit"
    ELSE IF {"targeted", "regression"} \subseteq good THEN "regression_validated"
    ELSE IF "targeted" \in good THEN "target_validated"
    ELSE IF names # {} THEN "patched"
    ELSE "diagnosing"

\* valid_repair_actions: nothing runs once submitted; the ready lock keeps
\* editing, reading and validation out.
Running == ~raised /\ phase # "submitted"
\* Mutant: the ready lock is only shown on the state card.
UnlockedUntilSubmitted == ~raised /\ phase # "submitted"

Unlocked == Running /\ phase # "ready_to_submit"

-----------------------------------------------------------------------------
(* The transitions of RepairSessionState *)

\* Mutant: only the epoch moves, the old results stay.
ClearEpochOnly ==
    /\ epoch < MaxEpoch
    /\ epoch' = epoch + 1
    /\ UNCHANGED <<result, seen>>

ClearValidation ==
    /\ epoch < MaxEpoch
    /\ epoch' = epoch + 1
    /\ result' = [v \in Validators |-> NoResult]
    /\ seen' = Unseen

NewRevision(names) ==
    /\ revision' = revision + 1
    /\ changedFiles' = names
    /\ consecutive' = 0
    /\ blocked' = FALSE
    /\ unread' = 0
    /\ ClearValidation
    /\ unrecorded' = FALSE
    /\ UNCHANGED <<total, reopens, raised>>

\* Mutant: a revision only when other files than before are changed.
RecordPatchOfNewNames(names) ==
    IF names = changedFiles
    THEN UNCHANGED <<phase, revision, epoch, changedFiles, result, failures,
                     reopens, raised, ghosts>>
    ELSE NewRevision(names) /\ phase' = PhaseOf(names, {})

RecordPatch(names) == NewRevision(names) /\ phase' = PhaseOf(names, {})

\* Mutant: a rollback takes the revision number back with the files.
RecordRollbackOfRevision(names) ==
    /\ revision' = revision - 1
    /\ changedFiles' = names
    /\ consecutive' = 0
    /\ blocked' = FALSE
    /\ unread' = 0
    /\ ClearValidation
    /\ unrecorded' = FALSE
    /\ phase' = "diagnosing"
    /\ UNCHANGED <<total, reopens, raised>>

RecordRollback(names) == NewRevision(names) /\ phase' = "diagnosing"

\* Mutant: failures are counted and block nothing.
RecordFailureOnly ==
    /\ consecutive' = consecutive + 1
    /\ total' = total + 1
    /\ unread' = unread + 1
    /\ UNCHANGED blocked

RecordPatchFailure ==
    /\ consecutive' = consecutive + 1
    /\ total' = total + 1
    /\ unread' = unread + 1
    /\ blocked' = (blocked \/ consecutive + 1 >= ConsecutiveLimit)

\* _changed_files itself fails (git missing, failing or timing out): the
\* exception leaves execute(), whatever the tool did to the tree.
ProbeFails ==
    /\ raised' = TRUE
    /\ unrecorded' = (unrecorded \/ Source(tree') # Source(tree))
    /\ UNCHANGED <<phase, revision, epoch, changedFiles, result, failures,
                   reopens, seen>>

\* The tree moved and the session state did not.
Unnoticed ==
    /\ unrecorded' = (unrecorded \/ Source(tree') # Source(tree))
    /\ UNCHANGED <<phase, revision, epoch, changedFiles, result, reopens,
                   raised, seen>>
-----------------------------------------------------------------------------
(* Tool calls *)

\* Trees an edit confined to the allowed paths can leave.
Edits == {t \in Trees : t # tree /\ \A f \in SideFiles : t[f] = tree[f]}

OneFileEdits ==
    {[tree EXCEPT ![f] = c] : f \in ToolFiles, c \in Contents} \ {tree}

\* _synchronize_edit_result: names are read from git, never from the tool.
SynchronizeEdit == RecordPatch(Changed(tree')) \/ ProbeFails

\* Mutant: only the temporary block is checked.
PatchAllowedUnlessBlocked == Unlocked /\ ~blocked

PatchAllowed == Unlocked /\ ~blocked /\ total < TotalLimit

\* git apply succeeded (its statistics may have timed out afterwards, which
\* the tool reports as diff_may_have_changed).
PatchApplied ==
    /\ PatchAllowed
    /\ tree' \in Edits
    /\ SynchronizeEdit

\* The patch was refused by the policy or by git apply --check.
PatchRefused ==
    /\ PatchAllowed
    /\ RecordPatchFailure
    /\ tree' = tree
    /\ Unnoticed

\* git apply was killed by its timeout, or failed, after it had written
\* files: the tool reports a failure and no possible change.
PatchInterrupted ==
    /\ PatchAllowed
    /\ tree' \in Edits
    /\ RecordPatchFailure
    /\ Unnoticed

TextReplaced ==
    /\ Unlocked
    /\ tree' \in OneFileEdits
    /\ SynchronizeEdit

\* The edit was written, its check failed and writing the original back
\* failed too: ToolRegistry.execute turns the exception into a failed call.
ReplaceNotRestored ==
    /\ Unlocked
    /\ tree' \in OneFileEdits
    /\ UNCHANGED failures
    /\ Unnoticed

RolledBack ==
    /\ Running
    /\ tree' = [f \in Files |-> IF f \in ToolFiles THEN AtHead ELSE tree[f]]
    /\ RecordRollback(Changed(tree')) \/ ProbeFails

\* git restore failed or was killed: it rewrites only files that differ from
\* HEAD, each of which may be restored, left alone or half written.
RollbackFailed ==
    /\ Running
    /\ tree' \in Trees
    /\ \A f \in Files : tree'[f] = tree[f] \/ (f \in ToolFiles /\ tree[f] # AtHead)
    /\ \/ Changed(tree') # changedFiles /\ RecordPatch(Changed(tree'))
       \/ Changed(tree') = changedFiles /\ UNCHANGED failures /\ Unnoticed
       \/ ProbeFails

\* record_pytest, record_ruff: the result is stamped with the revision and
\* the epoch of the session at the time the tool returns.  The validator was
\* started on the tree before the call; what its own run rewrote is noticed by
\* nobody, and the result counts for the tree it leaves.
RecordResult(v, passed) ==
    LET results == [result EXCEPT ![v] =
                      [rev |-> revision, epoch |-> epoch, passed |-> passed]]
    IN  /\ result' = results
        /\ phase' = PhaseOf(changedFiles, Good(results))
        /\ seen' = [seen EXCEPT ![v] = Source(tree)]
        /\ unrecorded' = (unrecorded \/ Source(tree') # Source(tree))
        /\ UNCHANGED <<revision, epoch, changedFiles, failures, reopens, raised>>

\* The local backend runs the project's own tests inside the candidate, where
\* nothing keeps them from writing to it.
RunPytest(v) ==
    /\ Unlocked
    /\ tree' \in Trees
    /\ \A f \in Files \ Rewritten : tree'[f] = tree[f]
    /\ \E passed \in BOOLEAN : RecordResult(v, passed)

RunRuff ==
    /\ Unlocked
    /\ tree' = tree
    /\ \E passed \in BOOLEAN : RecordResult("ruff", passed)

\* A successful read_file or show_git_diff lifts the temporary block, and
\* leaves the failure counters as they are.
LiftBlock(allowed) ==
    /\ allowed
    /\ blocked
    /\ total < TotalLimit
    /\ blocked' = FALSE
    /\ unread' = 0
    /\ UNCHANGED <<phase, revision, epoch, changedFiles, result, consecutive,
                   total, reopens, tree, raised, ghosts>>

ReadFile == LiftBlock(Unlocked)

ShowGitDiff == LiftBlock(Running)

\* _validation_missing is empty: the names git reports are those the session
\* recorded (and those of the submission), tests are untouched and every
\* validator passed on the current revision and epoch.
NothingMissing ==
    /\ Changed(tree) # {}
    /\ Good(result) = Validators
    /\ Changed(tree) \cap TestFiles = {}
    /\ Changed(tree) = changedFiles

Submit ==
    /\ Running
    /\ tree' = tree
    /\ \/ /\ NothingMissing
          /\ ReadyToSubmit
          /\ phase' = "submitted"
          /\ UNCHANGED <<revision, epoch, changedFiles, result, failures,
                         reopens, raised, ghosts>>
       \/ ProbeFails

\* Mutant: reopening lifts the lock and keeps the results.
RecordReopenKeepingResults ==
    /\ reopenCount' = reopenCount + 1
    /\ reopenHistory' = Append(reopenHistory,
          [count |-> reopenCount', revision |-> revision,
           before |-> epoch, after |-> epoch])
    /\ phase' = "patched"
    /\ UNCHANGED <<revision, epoch, changedFiles, result, failures, tree, raised,
                   ghosts>>

\* record_reopen raises, and the session with it, unless every gate is passed.
RecordReopen ==
    /\ ReadyToSubmit
    /\ reopenCount' = reopenCount + 1
    /\ ClearValidation
    /\ reopenHistory' = Append(reopenHistory,
          [count |-> reopenCount', revision |-> revision,
           before |-> epoch, after |-> epoch'])
    /\ phase' = "patched"
    /\ UNCHANGED <<revision, changedFiles, failures, tree, raised, unrecorded>>

Reopen == Running /\ phase = "ready_to_submit" /\ RecordReopen

\* WorkspaceGitTools refuses a workspace that is not clean.
Init ==
    /\ phase = "diagnosing"
    /\ revision = 0
    /\ epoch = 0
    /\ changedFiles = {}
    /\ result = [v \in Validators |-> NoResult]
    /\ consecutive = 0
    /\ total = 0
    /\ blocked = FALSE
    /\ reopenCount = 0
    /\ reopenHistory = <<>>
    /\ tree = [f \in Files |-> AtHead]
    /\ raised = FALSE
    /\ seen = Unseen
    /\ unrecorded = FALSE
    /\ unread = 0

Next ==
    \/ PatchApplied \/ PatchRefused \/ PatchInterrupted
    \/ TextReplaced \/ ReplaceNotRestored
    \/ RolledBack \/ RollbackFailed
    \/ RunPytest("targeted") \/ RunPytest("regression") \/ RunRuff
    \/ ReadFile \/ ShowGitDiff
    \/ Submit \/ Reopen

Spec == Init /\ [][Next]_vars

-----------------------------------------------------------------------------
(* Properties *)

Entries == [count : Nat, revision : Nat, before : Nat, after : Nat]

\* The values the session's variables may take.
TypeOK ==
    /\ phase \in Phases
    /\ revision \in Nat
    /\ epoch \in Nat
    /\ changedFiles \subseteq Files
    /\ result \in [Validators -> Results]
    /\ consecutive \in Nat
    /\ total \in Nat
    /\ blocked \in BOOLEAN
    /\ reopenCount \in Nat
    /\ reopenHistory \in Seq(Entries)
    /\ tree \in Trees
    /\ raised \in BOOLEAN
    /\ seen \in [Validators -> [ToolFiles -> Contents]]
    /\ unrecorded \in BOOLEAN
    /\ unread \in Nat

\* Every tree the session submits was, in its source files, the tree each of
\* the three validators passed on: "validate first, edit afterwards, submit
\* anyway" never happens (docs/architecture.md, section 6).
SubmittedIsValidated ==
    phase = "submitted" =>
        \A v \in Validators : result[v].passed /\ seen[v] = Source(tree)

\* The part of SubmittedIsValidated the code guarantees: it holds whenever
\* every change of the sources is accounted for by a revision of the session.
\* What a call left behind that raised needs no excuse: such a session submits
\* nothing any more.
RecordedSubmissionIsValidated == SubmittedIsValidated \/ (unrecorded /\ ~raised)

\* The phase never claims more, or less, than the recorded results support:
\* the ready lock is on exactly when every gate is passed, so a legal
\* reopen_repair or submit_repair never meets record_reopen's or
\* record_submission's ValueError.
LockMatchesGates ==
    /\ phase \in {"ready_to_submit", "submitted"} <=> ReadyToSubmit
    /\ phase \in {"regression_validated", "ready_to_submit", "submitted"} =>
          {"targeted", "regression"} \subseteq Good(result)
    /\ phase = "target_validated" => "targeted" \in Good(result)

\* No result outlives the revision or the epoch it was measured on: what is
\* recorded is current, so the package's separate checks of revision and
\* epoch agree with the session's gates.
NoStaleResult ==
    \A v \in Validators : result[v] = NoResult \/ IsCurrent(result[v])

\* The reopen history is the audit trail ValidationSummary accepts: complete,
\* sequential, one epoch per reopening, never newer than the session.
AuditIsConsistent ==
    /\ reopenCount = Len(reopenHistory)
    /\ \A i \in 1..Len(reopenHistory) :
          /\ reopenHistory[i].count = i
          /\ reopenHistory[i].after = reopenHistory[i].before + 1
          /\ reopenHistory[i].after <= epoch
          /\ reopenHistory[i].revision <= revision
    /\ \A i \in 1..Len(reopenHistory), j \in 1..Len(reopenHistory) :
          i < j => reopenHistory[i].after <= reopenHistory[j].before

\* The patch breaker: patches fail at most six times in all.  The failure that
\* makes three in a row blocks the patch tool, and so does every further one
\* after a read lifted the block: between two reads, or recorded edits, at most
\* three patches fail.  A block has no other reason.
FailureBudget ==
    /\ unread <= consecutive
    /\ consecutive <= total
    /\ total <= TotalLimit
    /\ unread <= ConsecutiveLimit
    /\ blocked <=> unread > 0 /\ consecutive >= ConsecutiveLimit

\* The session implements the abstract gate: its source files are the work,
\* the current passed results are the vouchers.
Gate == INSTANCE SubmissionGate WITH
    Gates <- Validators,
    Works <- [ToolFiles -> Contents],
    Start <- [f \in ToolFiles |-> AtHead],
    work <- Source(tree),
    vouched <- Good(result),
    slipped <- unrecorded,
    done <- phase = "submitted"

ImplementsGate == Gate!GateSpec

\* What the tools see of the session.
Verdict(r) == IF r = NoResult THEN "none" ELSE IF r.passed THEN "passed" ELSE "failed"

HasChanges == changedFiles # {}

ToolView ==
    [revision |-> revision, epoch |-> epoch, changed |-> HasChanges,
     results |-> [v \in Validators |-> Verdict(result[v])]]

Tool == INSTANCE ToolSession WITH
    Scopes <- Validators,
    session <- ToolView,
    submitted <- phase = "submitted"

\* Whatever a call of the agent does to tree, phase and results, the agent
\* meets a session that only advances: an edit or a rollback is a new revision
\* without results, a validation is run only on work that is not ready, and
\* what is submitted is ready without looking at phases or at stamps.
ImplementsToolSession == Tool!SessionSpec

\* The ready lock: no file that is as in HEAD is edited, no result is replaced
\* by another one, and results vanish only as a whole with a new epoch.  The
\* step that submits submits exactly the tree and results it found.
ReadyLock ==
    [][phase = "ready_to_submit" =>
         /\ \A f \in Files : tree[f] = AtHead => tree'[f] = AtHead
         /\ \/ UNCHANGED <<result, epoch>>
            \/ epoch' = epoch + 1 /\ result' = [v \in Validators |-> NoResult]
         /\ phase' = "submitted" => UNCHANGED <<tree, result, changedFiles>>]_vars

\* An edit of the sources that the session notices starts a new revision and
\* drops every validation result in the same step.
EditsInvalidate ==
    [][Source(tree') # Source(tree) /\ ~unrecorded' =>
         /\ revision' = revision + 1
         /\ Good(result)' = {}]_vars

=============================================================================
