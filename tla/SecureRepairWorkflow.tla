------------------------- MODULE SecureRepairWorkflow -------------------------
(***************************************************************************)
(* One session of SecureRepairWorkflow                                     *)
(* (src/fastfix/workflows/secure_repair.py): start makes a candidate, lets *)
(* the agent repair it and builds the package; decide, rollback, complete  *)
(* and cleanup are called afterwards, in any order and as often as one     *)
(* likes.                                                                  *)
(*                                                                         *)
(* The agent and its session are represented by what SubmissionGate        *)
(* promises of them, the action manager by what ApprovalActions says it    *)
(* may do.  Persons edit the source and the candidate meanwhile, and the   *)
(* process may be killed.                                                  *)
(***************************************************************************)
EXTENDS ApprovalPackage, Sequences

VARIABLES stage,           \* result.stage
          refused,         \* _transition raised invalid_transition
          holds,           \* session.candidate and session.approval_package
          approval,        \* result.approval_status
          application,     \* result.application_status
          rollback,        \* result.rollback_status
          cleanup,         \* result.cleanup_status
          failedIn         \* result.failure_stage

statuses == <<approval, application, rollback, cleanup, failedIn>>
workflow == <<stage, refused, holds, statuses>>
vars == <<workspaceVars, package, workflow>>

TransitionTable(afterApplied) == [
    created          |-> {"candidate_ready", "failed"},
    candidate_ready  |-> {"repair_finished", "failed"},
    repair_finished  |-> {"approval_pending", "failed"},
    approval_pending |-> {"approved", "rejected", "failed"},
    approved         |-> {"applied"},
    rejected         |-> {"completed"},
    applied          |-> afterApplied,
    rolled_back      |-> {"completed"},
    completed        |-> {},
    failed           |-> {}]

\* Mutant: a rollback cannot fail.
NoRollbackFailure == TransitionTable({"rolled_back", "completed"})

Transitions == TransitionTable({"rolled_back", "completed", "failed"})

Stages == DOMAIN Transitions

\* _transition, once for every stage of the path.
Legal(path) ==
    \A i \in 1..Len(path) :
        path[i] \in Transitions[IF i = 1 THEN stage ELSE path[i - 1]]

Move(path) ==
    IF Legal(path) THEN stage' = path[Len(path)] /\ UNCHANGED refused
    ELSE refused' = TRUE /\ UNCHANGED stage

Stay == UNCHANGED <<stage, refused>>

-----------------------------------------------------------------------------
(* start *)

Start ==
    /\ at = "idle"
    /\ stage = "created"
    /\ Goto("snapshot")
    /\ UNCHANGED <<source, snapshot, candidate, person, package, workflow>>

CandidateReady ==
    /\ at = "created"
    /\ Goto("agent")
    /\ holds' = holds \cup {"candidate"}
    /\ cleanup' = "pending"
    /\ Move(<<"candidate_ready">>)
    /\ UNCHANGED <<source, snapshot, candidate, person, package, approval,
                   application, rollback, failedIn>>

\* The agent leaves any tree.  What it submits was validated as it stands.
AgentRuns ==
    /\ at = "agent"
    /\ tree' \in Trees
    /\ extra' \in BOOLEAN
    /\ \/ /\ Names(tree') # {}
          /\ \E box \in BOOLEAN :
                session' = [validated |-> tree', changed |-> Names(tree'), sandboxed |-> box]
          /\ Goto("repositories")
          /\ Move(<<"repair_finished">>)
       \/ Raise("limits", "unsubmitted") /\ Move(<<"repair_finished">>) /\ UNCHANGED session
       \/ Raise("exception", "repairFailed") /\ Stay /\ UNCHANGED session
    /\ touched' = {} /\ touches' = 0
    /\ UNCHANGED <<source, snapshot, dir, edits, before, names, patch, place,
                   files, holds, statuses>>

\* start verifies the package once more.
Packaged ==
    /\ at = "packaged"
    /\ holds' = holds \cup {"package"}
    /\ \/ /\ Whole
          /\ Goto("idle")
          /\ approval' = "pending"
          /\ Move(<<"approval_pending">>)
       \/ Raise("package", "packageFailed") /\ Stay /\ UNCHANGED approval
    /\ UNCHANGED <<source, snapshot, candidate, person, package, application,
                   rollback, cleanup, failedIn>>

-----------------------------------------------------------------------------
(* Failing *)

\* _cleanup of the candidate the session holds.
CleansUp ==
    \/ "candidate" \notin holds /\ cleanup' = "not_created" /\ UNCHANGED dir
    \/ "candidate" \in holds /\ cleanup' = "cleaned" /\ Removed
    \/ "candidate" \in holds /\ cleanup' = "failed" /\ NotRemoved

FailMoving(path) ==
    /\ at \in {"createFailed", "repairFailed", "unsubmitted", "packageFailed", "actionFailed"}
    /\ Goto("idle")
    /\ failedIn' = at
    /\ CleansUp
    /\ IF path = <<>> THEN Stay ELSE Move(path)
    /\ UNCHANGED <<source, snapshot, tree, extra, person, package, holds,
                   approval, application, rollback>>

\* Mutant: _fail forgets the stage.
FailInPlace == FailMoving(<<>>)

\* _fail
Fail == FailMoving(<<"failed">>)

-----------------------------------------------------------------------------
(* decide and the calls after it *)

Awaits == at = "idle" /\ stage = "approval_pending" /\ {"candidate", "package"} \subseteq holds

\* The source as it was, or with the patch in it that could not be taken back.
SourceMayDiffer == source' \in {source, [source EXCEPT !.clean = FALSE]}

\* The action manager refuses, or fails.
DecisionFails ==
    /\ Awaits
    /\ Raise("action", "actionFailed")
    /\ SourceMayDiffer
    /\ UNCHANGED <<snapshot, candidate, person, package, workflow>>

\* Another exception, Ctrl-C among them, leaves decide with the work of the
\* action manager done in part or whole and the session as it was.
DecisionEscapes ==
    /\ Awaits
    /\ SourceMayDiffer
    /\ UNCHANGED dir \/ Removed \/ NotRemoved
    /\ UNCHANGED <<at, snapshot, tree, extra, failure, person, package, workflow>>

\* It wants an intact package, the source as it was cloned and a candidate.
Acts ==
    /\ Awaits /\ Whole
    /\ source = snapshot
    /\ dir # "none"
    /\ \/ Removed /\ cleanup' = "cleaned"
       \/ NotRemoved /\ cleanup' = "failed"
    /\ Goto("idle")
    /\ UNCHANGED <<snapshot, tree, extra, person, package, holds, rollback, failedIn>>

Approve ==
    /\ Acts
    /\ source' = [source EXCEPT !.clean = FALSE]
    /\ approval' = "approved"
    /\ application' = "applied"
    /\ Move(<<"approved", "applied">>)

RejectAs(status) ==
    /\ Acts
    /\ UNCHANGED <<source, application>>
    /\ approval' = status
    /\ Move(<<"rejected", "completed">>)

\* Mutant: the decision is stored where its status belongs.
RejectVerbatim == RejectAs("reject")

Reject == RejectAs("rejected")

Applied == at = "idle" /\ stage = "applied"

Complete ==
    /\ Applied
    /\ Move(<<"completed">>)
    /\ UNCHANGED <<workspaceVars, package, holds, statuses>>

\* A rollback that does not succeed may have undone the patch all the same.  An
\* exception other than the action manager's own leaves the session as it was.
Rollback ==
    /\ Applied
    /\ source' \in {source, [source EXCEPT !.clean = TRUE]}
    /\ \/ /\ ~source.clean /\ source'.clean
          /\ rollback' = "rolled_back"
          /\ Move(<<"rolled_back", "completed">>)
          /\ UNCHANGED <<failedIn, failure>>
       \/ /\ rollback' = "failed"
          /\ failedIn' = "rollback"
          /\ failure' = "action"
          /\ Move(<<"failed">>)
       \/ Stay /\ UNCHANGED <<rollback, failedIn, failure>>
    /\ UNCHANGED <<at, snapshot, candidate, person, package, holds, approval,
                   application, cleanup>>

\* cleanup may be called at any stage, also of a session that awaits a decision.
CleanupAgain ==
    /\ at = "idle"
    /\ stage # "created"
    /\ CleansUp
    /\ UNCHANGED <<at, source, snapshot, tree, extra, failure, person, package,
                   stage, refused, holds, approval, application, rollback, failedIn>>

\* The process is killed, or an exception other than the managers' own leaves
\* start: either way the session is lost.
Kill ==
    /\ at # "idle"
    /\ Goto("dead")
    /\ UNCHANGED <<source, snapshot, candidate, person, package, workflow>>

Init ==
    /\ WorkspaceInit
    /\ PackageInit
    /\ stage = "created"
    /\ refused = FALSE
    /\ holds = {}
    /\ approval = "not_created"
    /\ application = "not_applied"
    /\ rollback = "not_requested"
    /\ cleanup = "not_created"
    /\ failedIn = "none"

Next ==
    \/ Create /\ UNCHANGED <<package, workflow>>
    \/ Build /\ UNCHANGED workflow
    \/ Start \/ CandidateReady \/ AgentRuns \/ Packaged \/ Fail
    \/ DecisionFails \/ DecisionEscapes \/ Approve \/ Reject \/ Complete \/ Rollback \/ CleanupAgain
    \/ Person /\ UNCHANGED <<package, workflow>>
    \/ Kill

Spec == Init /\ [][Next]_vars

-----------------------------------------------------------------------------
(* Properties *)

\* The values the variables may take.
TypeOK ==
    /\ source \in Sources /\ snapshot \in Sources
    /\ dir \in {"none", "partial", "whole"}
    /\ tree \in Trees /\ patch \in Trees /\ session.validated \in Trees
    /\ extra \in BOOLEAN
    /\ edits \in 0..MaxEdits
    /\ touches \in 0..edits
    /\ touched \subseteq Files /\ names \subseteq Files
    /\ place \in {"none", "temporary", "final", "torn"}
    /\ files \in 0..FileCount
    /\ stage \in Stages
    /\ holds \subseteq {"candidate", "package"}
    /\ approval \in {"not_created", "pending", "approved", "rejected"}
    /\ application \in {"not_applied", "applied"}
    /\ rollback \in {"not_requested", "rolled_back", "failed"}
    /\ cleanup \in {"not_created", "pending", "cleaned", "failed"}

\* No call finds the table of transitions against it half-way, when the
\* package, the source or the candidate has changed already.
NoRefusedTransition == ~refused

\* Outside a call a session is new, pending, decided or failed, never in
\* between; a pending session has an intact package and no failure behind it,
\* and a decided one says how it was decided.  (The candidate of a pending
\* session may be gone after cleanup() or after a decision that escaped.)
RestsDecidable ==
    at = "idle" =>
        /\ stage \notin {"candidate_ready", "repair_finished", "approved", "rejected", "rolled_back"}
        /\ stage = "approval_pending" => Whole /\ approval = "pending" /\ failure = "none"
        /\ stage \in {"applied", "completed"} => approval \in {"approved", "rejected"}

\* A candidate that outlives its session is reported: as a cleanup that
\* failed, or by the code of the failed creation.
LeftoversAreReported ==
    at = "idle" /\ stage \in {"failed", "applied", "completed"} /\ dir # "none" =>
        cleanup = "failed" \/ (failedIn = "createFailed" /\ failure = "cleanup_failed")

\* The patch a person decides about was validated in the sandbox and is, off
\* the files persons changed in the candidate since, the tree that was
\* validated; and a single such change cannot add a file to the patch that the
\* validated tree left alone, or take one out.
PackageIsWhatWasValidated ==
    stage = "approval_pending" =>
        /\ session.sandboxed
        /\ \A f \in Files : patch[f] # session.validated[f] => f \in touched
        /\ touches < 2 => Names(patch) = session.changed /\ Names(patch) \subseteq Allowed

\* Where packages are looked for there is a complete one or none, unless the
\* removal of a refused one failed; also after a kill.
PlacedIsWhole == place = "final" => files = FileCount

\* The session as its user sees it: one whose call was refused a transition
\* half-way is in no phase that it could go on from.
PhaseOf == [
    created          |-> "working",
    candidate_ready  |-> "working",
    repair_finished  |-> "working",
    approval_pending |-> "offered",
    approved         |-> "decided",
    rejected         |-> "decided",
    applied          |-> "applied",
    rolled_back      |-> "decided",
    completed        |-> "closed",
    failed           |-> "failed"]

Phase == IF refused THEN "stuck" ELSE PhaseOf[stage]
OfferedPatch == IF approval = "not_created" THEN {} ELSE {patch}
Report == [approval |-> approval, application |-> application, rollback |-> rollback]

Review ==
    INSTANCE ReviewedRepair WITH
        Repairs <- Trees, phase <- Phase, offer <- OfferedPatch, report <- Report

\* Stage, statuses and package always tell one story, whatever fails and in
\* whichever order the calls come: one offer that stays as it is, one decision
\* about it, a rollback only of what was applied, nothing after the end, and no
\* call that the table of transitions stops half-way.
ImplementsReview == Review!ReviewSpec

=============================================================================
