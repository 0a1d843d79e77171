--------------------------- MODULE ApprovalActions ---------------------------
(***************************************************************************)
(* Deciding about one approval request and rolling the decision back:      *)
(* decide_session and rollback_session of run_fastfix_secure.py over       *)
(* ApprovalActionManager.decide, _approve and rollback.                    *)
(*                                                                         *)
(* Each command runs in a process of its own.  A step is one git command   *)
(* or one access to a file; the processes share the source repository, the *)
(* action directory of the request, the candidate and session.json, take   *)
(* no lock, and may be killed between any two steps.  A step may also fail *)
(* with an exception the handlers do not expect (a path policy error, git  *)
(* that cannot be started, Ctrl-C): where a handler lets it pass, the      *)
(* command ends there.  A human may edit the source meanwhile.  The        *)
(* package is immutable and its HEAD never moves: a commit shows as files  *)
(* that differ from the approved state.                                    *)
(***************************************************************************)
EXTENDS Naturals, FiniteSets

CONSTANTS Reviewers,   \* the processes
          PatchFiles,  \* files of the source the approved patch changes
          OtherFiles,  \* further files of the source
          MaxCalls,    \* bound on the commands started
          MaxEdits,    \* bound on the human's edits
          MaxCrashes   \* bound on processes killed

ASSUME FilesAssumption == PatchFiles # {} /\ PatchFiles \cap OtherFiles = {}
ASSUME BoundsAssumption == MaxCalls \in Nat /\ MaxEdits \in Nat /\ MaxCrashes \in Nat

Files == PatchFiles \cup OtherFiles

\* A file is as in HEAD, as the patch leaves it, or anything else (edited by
\* the human, or torn by a git apply that was killed while writing).
States == {"head", "patched", "other"}
Sources == [Files -> States]

Clean == [f \in Files |-> "head"]
Patched == [f \in Files |-> IF f \in PatchFiles THEN "patched" ELSE "head"]

Commands == {"approve", "reject", "rollback"}
Steps == {"idle", "load", "recover", "gate", "clean",
          "check", "apply", "applyFailed", "verify", "reverse", "publish",
          "restore", "restoreCheck", "cleanup", "save",
          "audit", "match", "rbCheck", "rbApply", "rbClean", "rbStamp",
          "rbWrite", "rbAbsent", "rbReplace", "rbRepair", "rbReapply",
          "rbCompare", "rbSave"}

VARIABLES source,      \* the source repository's worktree
          decision,    \* decision.json: none, approve or reject
          reverse,     \* reverse.patch: the source it undoes
          rollbacks,   \* how often rollback.json was put in place
          stray,       \* a temporary rollback file left in the action directory
          candidate,   \* the candidate's directory: whole, partial or gone
          status,      \* session.json
          command,     \* per process, what it runs
          at,          \* per process, its next step
          diff,        \* per process, the reverse patch it read
          calls, edits, crashes,  \* bounds
          mine,        \* ghost: the files the human wrote last
          untold,      \* ghost: a command ended after it had recorded a
                       \* decision or a rollback, and did not save the session
          damage       \* ghost: the kinds of ends that may leave the source
                       \* and the audit apart, and overlap for commands that
                       \* ran at the same time

audit == <<decision, reverse, rollbacks, stray>>
bounds == <<calls, edits, crashes>>
vars == <<source, audit, candidate, status, command, at, diff, bounds, mine,
          untold, damage>>

Damages == {"unattempted", "unrestored", "withdrawn", "crash", "overlap"}

\* Mutant: the session is asked, not the action directory.
rolledBackBySession == status = "rolled_back"

\* rollback.json exists.
rolledBack == rollbacks > 0

-----------------------------------------------------------------------------
(* Steps of a process *)

Goto(r, step) == at' = [at EXCEPT ![r] = step]

\* The command returns, or raises an error that claims nothing about the source.
End(r) ==
    /\ Goto(r, "idle")
    /\ UNCHANGED damage

\* The command raises and leaves the source in an unknown state.
EndDamaged(r, kind) ==
    /\ Goto(r, "idle")
    /\ damage' = damage \cup {kind}

\* A step that only looks at something.
Looks(r) ==
    UNCHANGED <<source, audit, candidate, status, command, bounds, mine, untold>>

\* A step of the process that writes the source.
Writes(r) ==
    /\ mine' = {f \in mine : source'[f] = source[f]}
    /\ UNCHANGED <<audit, candidate, status, command, diff, bounds, untold>>

\* A step of the process in the action directory.
Records(r) == UNCHANGED <<source, candidate, status, command, diff, bounds, mine>>

CanApply(from) == \A f \in PatchFiles : source[f] = from[f]
Applied(to) == source' = [f \in Files |-> IF f \in PatchFiles THEN to[f] ELSE source[f]]
Torn == source' \in Sources /\ \A f \in OtherFiles : source'[f] = source[f]

\* git apply writes all files.
ApplyPatch(from, to) == CanApply(from) /\ Applied(to)

\* It failed, or never ran: a patch that does not apply is not written, and one
\* that does may stop anywhere when the timeout kills git.
ApplyFails(from) == Torn /\ (CanApply(from) \/ UNCHANGED source)

Start(r, c) ==
    /\ at[r] = "idle"
    /\ calls < MaxCalls
    /\ calls' = calls + 1
    /\ command' = [command EXCEPT ![r] = c]
    /\ Goto(r, "load")
    /\ damage' = IF \E q \in Reviewers : at[q] # "idle"
                 THEN damage \cup {"overlap"} ELSE damage
    /\ UNCHANGED <<source, audit, candidate, status, diff, edits, crashes, mine,
                   untold>>

\* The guards before the first write: a guard that fails, or a git command that
\* fails or times out, ends the command.
Passes(r, step, guard, next) ==
    /\ at[r] = step
    /\ Looks(r)
    /\ UNCHANGED diff
    /\ \/ guard /\ Goto(r, next) /\ UNCHANGED damage
       \/ End(r)

\* Mutant: rollback_session does not look at the session's stage.
LoadAnyStage(r) ==
    \/ command[r] # "rollback" /\ Passes(r, "load", status = "pending", "recover")
    \/ command[r] = "rollback" /\ Passes(r, "load", TRUE, "audit")

Load(r) ==
    \/ command[r] # "rollback" /\ Passes(r, "load", status = "pending", "recover")
    \/ command[r] = "rollback" /\ Passes(r, "load", status = "applied", "audit")

\* CandidateWorkspaceManager.recover: a clean source, a valid candidate.
Recover(r) == Passes(r, "recover", source = Clean /\ candidate = "whole", "gate")

\* _ensure_new_action and _check_candidate
Gate(r) == Passes(r, "gate", decision = "none" /\ candidate # "gone", "clean")

CleanSource(r) ==
    Passes(r, "clean", source = Clean,
           IF command[r] = "reject" THEN "publish" ELSE "check")

Check(r) == Passes(r, "check", CanApply(Clean), "apply")

\* What is no ApprovalActionError, raised before git ran, is not handled.
Apply(r) ==
    /\ at[r] = "apply"
    /\ \/ ApplyPatch(Clean, Patched) /\ Goto(r, "verify") /\ UNCHANGED damage
       \/ ApplyFails(Clean) /\ Goto(r, "applyFailed") /\ UNCHANGED damage
       \/ UNCHANGED source /\ End(r)
    /\ Writes(r)

\* The handler asks for the live patch; when git fails here the error leaves
\* the handler before anything is restored.
ApplyFailed(r) ==
    /\ at[r] = "applyFailed"
    /\ Looks(r)
    /\ UNCHANGED diff
    /\ \/ source # Clean /\ Goto(r, "restore") /\ UNCHANGED damage
       \/ source = Clean /\ End(r)
       \/ source # Clean /\ EndDamaged(r, "unattempted")

\* The applied patch is restored after an ApprovalActionError, and stays after
\* any other exception.
Verify(r) ==
    /\ at[r] = "verify"
    /\ Looks(r)
    /\ UNCHANGED diff
    /\ \/ source = Patched /\ Goto(r, "reverse") /\ UNCHANGED damage
       \/ Goto(r, "restore") /\ UNCHANGED damage
       \/ EndDamaged(r, "unattempted")

\* git diff -R of the source as it is by now, checked by git apply --check,
\* which resolves every path of the patch first.
Reverse(r) ==
    /\ at[r] = "reverse"
    /\ Looks(r)
    /\ \/ /\ source # Clean
          /\ diff' = [diff EXCEPT ![r] = source]
          /\ Goto(r, "publish")
          /\ UNCHANGED damage
       \/ UNCHANGED diff /\ Goto(r, "restore") /\ UNCHANGED damage
       \/ UNCHANGED diff /\ EndDamaged(r, "unattempted")

\* A patch that cannot be taken back is reported without looking further.
Restore(r) ==
    /\ at[r] = "restore"
    /\ \/ ApplyPatch(Patched, Clean) /\ Goto(r, "restoreCheck") /\ UNCHANGED damage
       \/ ApplyFails(Patched) /\ EndDamaged(r, "unrestored")
    /\ Writes(r)

\* Only a source that is clean again counts as restored.
RestoreCheck(r) ==
    /\ at[r] = "restoreCheck"
    /\ Looks(r)
    /\ UNCHANGED diff
    /\ \/ source = Clean /\ End(r)
       \/ EndDamaged(r, "unrestored")

Publishes(r) == decision' = command[r] /\ reverse' = diff[r]

\* The action directory is in place and the command fails all the same, in
\* closing the files to writing: the handler takes the published approval out
\* of the source, and nobody saves the session.
FailsLate(r) ==
    /\ untold' = TRUE
    /\ damage' = IF command[r] = "reject" THEN damage ELSE damage \cup {"withdrawn"}

PublishIf(r, allowed, onFailure) ==
    /\ at[r] = "publish"
    /\ \/ /\ allowed /\ Publishes(r)
          /\ Goto(r, "cleanup")
          /\ UNCHANGED <<untold, damage>>
       \/ /\ UNCHANGED <<decision, reverse>>
          /\ Goto(r, onFailure)
          /\ UNCHANGED <<untold, damage>>
       \/ /\ allowed /\ Publishes(r)
          /\ Goto(r, onFailure)
          /\ FailsLate(r)
    /\ Records(r)
    /\ UNCHANGED <<rollbacks, stray>>

Unpublished(r) == IF command[r] = "approve" THEN "restore" ELSE "idle"

\* Mutant: a rejection that could not be published is only a warning.
PublishLeniently(r) ==
    PublishIf(r, decision = "none",
              IF command[r] = "approve" THEN "restore" ELSE "cleanup")

\* Mutant: the action directory of an earlier decision is replaced.
PublishOverwriting(r) == PublishIf(r, TRUE, Unpublished(r))

\* Mutant: an application that could not be published is left in the source.
PublishWithoutRestore(r) == PublishIf(r, decision = "none", "idle")

\* _publish_action: an action directory that exists is never replaced.
Publish(r) == PublishIf(r, decision = "none", Unpublished(r))

\* Removing the candidate may fail part-way.
CleanupOutcomes ==
    IF candidate = "whole" THEN {"whole", "partial", "gone"}
    ELSE IF candidate = "partial" THEN {"partial", "gone"}
    ELSE {"gone"}

\* Mutant: a clean-up that failed is an error, not a warning.
CleanupOrStop(r) ==
    /\ at[r] = "cleanup"
    /\ candidate' \in CleanupOutcomes
    /\ Goto(r, IF candidate' = "gone" THEN "save" ELSE "idle")
    /\ UNCHANGED <<source, audit, status, command, diff, bounds, mine, untold,
                   damage>>

\* A failed removal is only a warning; Ctrl-C meanwhile ends the command.
Cleanup(r) ==
    /\ at[r] = "cleanup"
    /\ candidate' \in CleanupOutcomes
    /\ \/ Goto(r, "save") /\ UNCHANGED untold
       \/ Goto(r, "idle") /\ untold' = TRUE
    /\ UNCHANGED <<source, audit, status, command, diff, bounds, mine, damage>>

RetryCleanup(r) ==
    /\ at[r] = "idle"
    /\ decision # "none"
    /\ candidate # "gone"
    /\ candidate' \in CleanupOutcomes
    /\ UNCHANGED <<source, audit, status, command, at, diff, bounds, mine,
                   untold, damage>>

\* Mutant: the decision is stored where the stage belongs.
SaveDecision(r) ==
    /\ at[r] = "save"
    /\ status' = command[r]
    /\ End(r)
    /\ UNCHANGED <<source, audit, candidate, command, diff, bounds, mine, untold>>

\* write_runtime_session, which may raise before session.json is replaced.
SaveAs(r, step, stage) ==
    /\ at[r] = step
    /\ \/ status' = stage /\ UNCHANGED untold
       \/ UNCHANGED status /\ untold' = TRUE
    /\ End(r)
    /\ UNCHANGED <<source, audit, candidate, command, diff, bounds, mine>>

Save(r) ==
    SaveAs(r, "save", IF command[r] = "approve" THEN "applied" ELSE "rejected")

-----------------------------------------------------------------------------
(* Rollback *)

\* The temporary rollback file of a process that is about to put it in place.
Unplaced(r) == at[r] \in {"rbAbsent", "rbReplace"}

\* _read_audit refuses an action directory with a file it does not know.
Audit(r) ==
    /\ at[r] = "audit"
    /\ Looks(r)
    /\ \/ /\ decision = "approve" /\ ~rolledBack
          /\ ~stray /\ \A q \in Reviewers : ~Unplaced(q)
          /\ diff' = [diff EXCEPT ![r] = reverse]
          /\ Goto(r, "match")
          /\ UNCHANGED damage
       \/ UNCHANGED diff /\ End(r)

Match(r) == Passes(r, "match", source = Patched, "rbCheck")

\* The recorded reverse patch applies where every file it changes is as
\* recorded.
Reversible(r) == \A f \in Files : diff[r][f] # "head" => source[f] = diff[r][f]
Reversed(r) ==
    source' = [f \in Files |-> IF diff[r][f] # "head" THEN "head" ELSE source[f]]

\* As in Apply, what is no ApprovalActionError ends the rollback here; the
\* source is still the approved one.
RbCheck(r) ==
    /\ at[r] = "rbCheck"
    /\ Looks(r)
    /\ UNCHANGED <<diff, damage>>
    /\ \/ Reversible(r) /\ Goto(r, "rbApply")
       \/ Goto(r, "rbRepair")
       \/ Goto(r, "idle")

RbApply(r) ==
    /\ at[r] = "rbApply"
    /\ \/ Reversible(r) /\ Reversed(r) /\ Goto(r, "rbClean")
       \/ /\ Reversible(r) /\ source' \in Sources
          /\ \A f \in Files : diff[r][f] = "head" => source'[f] = source[f]
          /\ Goto(r, "rbRepair")
       \/ ~Reversible(r) /\ UNCHANGED source /\ Goto(r, "rbRepair")
       \/ UNCHANGED source /\ Goto(r, "idle")
    /\ Writes(r)
    /\ UNCHANGED damage

RbClean(r) ==
    /\ at[r] = "rbClean"
    /\ Looks(r)
    /\ UNCHANGED diff
    /\ \/ source = Clean /\ Goto(r, "rbStamp") /\ UNCHANGED damage
       \/ Goto(r, "rbRepair") /\ UNCHANGED damage
       \/ EndDamaged(r, "unattempted")

\* source_head_after is read outside the handlers: when git fails here the
\* source stays reversed and nothing is recorded.
RbStamp(r) ==
    /\ at[r] = "rbStamp"
    /\ Looks(r)
    /\ UNCHANGED diff
    /\ \/ Goto(r, "rbWrite") /\ UNCHANGED damage
       \/ EndDamaged(r, "unattempted")

\* The temporary file gets its name before it is written and is known to the
\* handler only when it is complete.
RbWrite(r) ==
    /\ at[r] = "rbWrite"
    /\ \/ Goto(r, "rbAbsent") /\ UNCHANGED stray
       \/ Goto(r, "rbReapply") /\ stray' \in {stray, TRUE}
    /\ Records(r)
    /\ UNCHANGED <<decision, reverse, rollbacks, untold, damage>>

\* The temporary file is removed before the patch is applied again; when it
\* cannot be removed, the handler gets no further.
Unplace(r) ==
    \/ Goto(r, "rbReapply") /\ UNCHANGED <<stray, damage>>
    \/ EndDamaged(r, "unattempted") /\ stray' = TRUE

\* The look for a rollback.json, and the os.replace that would overwrite one.
RbAbsent(r) ==
    /\ at[r] = "rbAbsent"
    /\ \/ ~rolledBack /\ Goto(r, "rbReplace") /\ UNCHANGED <<stray, damage>>
       \/ Unplace(r)
    /\ Records(r)
    /\ UNCHANGED <<decision, reverse, rollbacks, untold>>

RbReplace(r) ==
    /\ at[r] = "rbReplace"
    /\ \/ /\ rollbacks' = rollbacks + 1
          /\ Goto(r, "rbSave")
          /\ UNCHANGED <<stray, untold, damage>>
       \/ /\ UNCHANGED <<rollbacks, untold>>
          /\ Unplace(r)
       \/ /\ rollbacks' = rollbacks + 1
          /\ Goto(r, "rbReapply")
          /\ UNCHANGED stray
          /\ FailsLate(r)
    /\ Records(r)
    /\ UNCHANGED <<decision, reverse>>

\* A reverse patch that failed: the patch is applied again if the source is
\* no longer the approved one.
RbRepair(r) ==
    /\ at[r] = "rbRepair"
    /\ \/ source = Patched /\ UNCHANGED source /\ Goto(r, "rbCompare") /\ UNCHANGED damage
       \/ /\ source # Patched /\ ApplyPatch(Clean, Patched)
          /\ Goto(r, "rbCompare") /\ UNCHANGED damage
       \/ source # Patched /\ ApplyFails(Clean) /\ EndDamaged(r, "unrestored")
    /\ Writes(r)

\* An audit that failed: the patch is applied again in any case.
RbReapply(r) ==
    /\ at[r] = "rbReapply"
    /\ \/ ApplyPatch(Clean, Patched) /\ Goto(r, "rbCompare") /\ UNCHANGED damage
       \/ ApplyFails(Clean) /\ EndDamaged(r, "unrestored")
    /\ Writes(r)

RbCompare(r) ==
    /\ at[r] = "rbCompare"
    /\ Looks(r)
    /\ UNCHANGED diff
    /\ \/ source = Patched /\ End(r)
       \/ EndDamaged(r, "unrestored")

RbSave(r) == SaveAs(r, "rbSave", "rolled_back")

-----------------------------------------------------------------------------
(* The environment *)

\* The steps before which a killed process has changed the source and not yet
\* settled what that means.
Exposed == {"applyFailed", "verify", "reverse", "publish", "restore",
            "restoreCheck", "rbClean", "rbStamp", "rbWrite", "rbAbsent",
            "rbReplace", "rbRepair", "rbReapply", "rbCompare"}

\* Killed while it publishes a rollback, a process leaves its temporary file;
\* killed between the record and the session, it leaves the session behind.
Crash(r) ==
    /\ at[r] # "idle"
    /\ crashes < MaxCrashes
    /\ crashes' = crashes + 1
    /\ IF at[r] \in Exposed /\ command[r] # "reject"
       THEN EndDamaged(r, "crash") ELSE End(r)
    /\ stray' \in {stray \/ Unplaced(r), stray \/ Unplaced(r) \/ at[r] = "rbWrite"}
    /\ untold' = (untold \/ at[r] \in {"cleanup", "save", "rbSave"})
    /\ UNCHANGED <<source, decision, reverse, rollbacks, candidate, status,
                   command, diff, calls, edits, mine>>

HumanEdit(f) ==
    /\ edits < MaxEdits
    /\ edits' = edits + 1
    /\ source' \in {[source EXCEPT ![f] = s] : s \in {"head", "other"}}
    /\ mine' = mine \cup {f}
    /\ UNCHANGED <<audit, candidate, status, command, at, diff, calls, crashes,
                   untold, damage>>

\* prepare() leaves a pending session, a clean source and a whole candidate.
Init ==
    /\ source = Clean
    /\ decision = "none"
    /\ reverse = Clean
    /\ rollbacks = 0
    /\ stray = FALSE
    /\ candidate = "whole"
    /\ status = "pending"
    /\ command = [r \in Reviewers |-> "approve"]
    /\ at = [r \in Reviewers |-> "idle"]
    /\ diff = [r \in Reviewers |-> Clean]
    /\ calls = 0
    /\ edits = 0
    /\ crashes = 0
    /\ mine = {}
    /\ untold = FALSE
    /\ damage = {}

Decide(r) ==
    \/ Recover(r) \/ Gate(r) \/ CleanSource(r) \/ Check(r) \/ Apply(r)
    \/ ApplyFailed(r) \/ Verify(r) \/ Reverse(r) \/ Restore(r)
    \/ RestoreCheck(r) \/ Publish(r) \/ Cleanup(r) \/ Save(r)

Rollback(r) ==
    \/ Audit(r) \/ Match(r) \/ RbCheck(r) \/ RbApply(r) \/ RbClean(r)
    \/ RbStamp(r) \/ RbWrite(r) \/ RbAbsent(r) \/ RbReplace(r)
    \/ RbRepair(r) \/ RbReapply(r) \/ RbCompare(r) \/ RbSave(r)

Next ==
    \/ \E r \in Reviewers :
          \/ \E c \in Commands : Start(r, c)
          \/ Load(r) \/ Decide(r) \/ Rollback(r) \/ RetryCleanup(r) \/ Crash(r)
    \/ \E f \in Files : HumanEdit(f)

Spec == Init /\ [][Next]_vars

-----------------------------------------------------------------------------
(* Properties *)

\* The values the variables may take.
TypeOK ==
    /\ source \in Sources
    /\ decision \in {"none", "approve", "reject"}
    /\ reverse \in Sources
    /\ rollbacks \in Nat
    /\ stray \in BOOLEAN
    /\ candidate \in {"whole", "partial", "gone"}
    /\ status \in {"pending", "applied", "rejected", "rolled_back"}
    /\ command \in [Reviewers -> Commands]
    /\ at \in [Reviewers -> Steps]
    /\ diff \in [Reviewers -> Sources]
    /\ calls \in 0..MaxCalls
    /\ edits \in 0..MaxEdits
    /\ crashes \in 0..MaxCrashes
    /\ mine \subseteq Files
    /\ untold \in BOOLEAN
    /\ damage \subseteq Damages

Quiet == \A r \in Reviewers : at[r] = "idle"

\* What the audit says of the source.
Audited == IF decision = "approve" /\ ~rolledBack THEN Patched ELSE Clean

Agrees == \A f \in Files \ mine : source[f] = Audited[f]

\* Between commands the source is what the audit says it is, file by file, but
\* for the human's own edits: a partial state is never reported as success
\* (docs/architecture.md, section 10).  What is excused are the commands that
\* raised without having settled it (nothing was restored, the restoring
\* failed, or a published record was taken out of the source), those killed
\* with the source in their hands, and those that ran while another one did.
AuditMatchesSource == Quiet /\ damage = {} => Agrees

\* The same of commands that overlap: nothing in the code or its documents
\* asks for one at a time.
AuditMatchesSourceAlways == Quiet /\ damage \subseteq {"overlap"} => Agrees

\* session.json never runs ahead of the audit, whoever is killed when.
StatusFollowsAudit ==
    /\ status = "applied" => decision = "approve"
    /\ status = "rejected" => decision = "reject"
    /\ status = "rolled_back" => decision = "approve" /\ rolledBack

\* Nothing of the candidate is removed before the request is decided.
CandidateKeptForDecision == decision = "none" => candidate = "whole"

\* What session.json should say of the audit.
Recorded ==
    IF decision = "none" THEN "pending"
    ELSE IF decision = "reject" THEN "rejected"
    ELSE IF rolledBack THEN "rolled_back" ELSE "applied"

\* When no command runs, session.json has caught up with the audit, unless one
\* ended between the record and the session: it was killed or interrupted
\* there, the saving itself failed, or the publishing failed after its last
\* write.  Nothing else does it: no clean-up that gave up, no kill earlier on, no
\* command that came too late or overlapped keeps a decision or a rollback from
\* being told.
SessionMatchesAudit == Quiet /\ ~untold => status = Recorded

\* An applied patch whose source nobody touched since can be rolled back
\* (README.md, step 8 of the workflow).
AppliedCanBeRolledBack ==
    Quiet /\ decision = "approve" /\ ~rolledBack /\ source = Patched =>
        status = "applied"

\* A decision is final, and so is its reverse patch.  rollback.json is written
\* again only where commands overlapped.
DecisionsAreFinal ==
    [][/\ decision # "none" => UNCHANGED <<decision, reverse>>
       /\ rollbacks' # rollbacks =>
             /\ rollbacks' = rollbacks + 1
             /\ rollbacks = 0 \/ "overlap" \in damage]_vars

\* The way back of an approval.
Back == IF decision = "approve" THEN {reverse} ELSE {}

Record == INSTANCE DecidedRequest WITH
    WaysBack <- Sources \ {Clean}, verdict <- decision, back <- Back,
    undone <- rollbacks, told <- status, remains <- candidate

\* However the commands of several processes interleave, fail and are killed,
\* action directory, session.json and candidate are one record: decided once,
\* with a way back that changes something, told of afterwards and never taken
\* back to an earlier state; no rollback of what session.json does not call
\* applied, or rolled back by then.
ImplementsRecord == Record!RecordSpec

=============================================================================
