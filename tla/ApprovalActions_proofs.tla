------------------------ MODULE ApprovalActions_proofs ------------------------
(***************************************************************************)
(* Proofs about ApprovalActions, for any number of processes, files,       *)
(* commands, edits and crashes: what the audit, the session file and the   *)
(* candidate promise one another holds however the processes interleave.   *)
(***************************************************************************)
EXTENDS ApprovalActions, TLAPS

USE FilesAssumption, BoundsAssumption DEF rolledBack

-----------------------------------------------------------------------------
(* What being at a step means *)

DecideSteps == {"recover", "gate", "clean", "check", "apply", "applyFailed",
                "verify", "reverse", "publish", "restore", "restoreCheck",
                "cleanup", "save"}

RollbackSteps == {"match", "rbCheck", "rbApply", "rbClean", "rbStamp",
                  "rbWrite", "rbAbsent", "rbReplace", "rbRepair", "rbReapply",
                  "rbCompare", "rbSave"}

\* Process r may be at this step, given its command and the audit.
Fits(r, step) ==
    /\ step \in DecideSteps => command[r] # "rollback"
    /\ step \in {"cleanup", "save"} => decision = command[r]
    /\ step \in RollbackSteps => decision = "approve"
    /\ step = "rbSave" => rolledBack

AuditTypes ==
    /\ decision \in {"none", "approve", "reject"}
    /\ rollbacks \in Nat
    /\ command \in [Reviewers -> Commands]
    /\ at \in [Reviewers -> Steps]

AuditInv ==
    /\ StatusFollowsAudit
    /\ CandidateKeptForDecision
    /\ rolledBack => decision = "approve"
    /\ \A r \in Reviewers : Fits(r, at[r])

\* The step of a process that leaves audit, session file and candidate alone.
Moves(r) ==
    /\ UNCHANGED <<decision, reverse, rollbacks, candidate, status, command>>
    /\ \E step \in Steps : Goto(r, step) /\ Fits(r, step)

-----------------------------------------------------------------------------
(* Most steps only move on *)

LEMMA LooksMoves ==
    ASSUME NEW r \in Reviewers, Looks(r), NEW step \in Steps, Goto(r, step),
           Fits(r, step)
    PROVE  Moves(r)
BY DEF Looks, Moves, audit

LEMMA WritesMoves ==
    ASSUME NEW r \in Reviewers, Writes(r), NEW step \in Steps, Goto(r, step),
           Fits(r, step)
    PROVE  Moves(r)
BY DEF Writes, Moves, audit

LEMMA IdleFits == \A r \in Reviewers : Fits(r, "idle")
BY DEF Fits, DecideSteps, RollbackSteps

\* The steps that neither publish, clean up nor save.
Quietly(r) ==
    \/ Load(r) \/ Recover(r) \/ Gate(r) \/ CleanSource(r) \/ Check(r) \/ Apply(r)
    \/ ApplyFailed(r) \/ Verify(r) \/ Reverse(r) \/ Restore(r) \/ RestoreCheck(r)
    \/ Audit(r) \/ Match(r) \/ RbCheck(r) \/ RbApply(r) \/ RbClean(r)
    \/ RbStamp(r) \/ RbWrite(r) \/ RbAbsent(r) \/ RbRepair(r) \/ RbReapply(r)
    \/ RbCompare(r)

LEMMA QuietlyMoves ==
    ASSUME AuditTypes, AuditInv, NEW r \in Reviewers, Quietly(r)
    PROVE  Moves(r)
<1>0. Fits(r, "idle") /\ Fits(r, at[r]) /\ command[r] \in Commands
  BY IdleFits DEF AuditInv, AuditTypes
<1>1. ASSUME NEW from \in Steps, NEW guard, NEW next \in Steps,
             Passes(r, from, guard, next),
             at[r] = from /\ guard => Fits(r, next)
      PROVE  Moves(r)
  BY <1>0, <1>1, LooksMoves DEF Passes, End, Steps
<1>2. ASSUME NEW step \in Steps, Records(r), Goto(r, step), Fits(r, step),
             UNCHANGED <<decision, reverse, rollbacks>>
      PROVE  Moves(r)
  BY <1>2 DEF Records, Moves
<1> USE DEF Steps, DecideSteps, RollbackSteps
<1>3. CASE Load(r)
  <2>1. CASE command[r] # "rollback" /\ Passes(r, "load", status = "pending", "recover")
    BY <1>1, <2>1 DEF Fits
  <2>2. CASE command[r] = "rollback" /\ Passes(r, "load", status = "applied", "audit")
    BY <1>1, <2>2 DEF Fits
  <2>. QED
    BY <1>3, <2>1, <2>2 DEF Load
<1>4. CASE Recover(r)
  BY <1>0, <1>1, <1>4 DEF Recover, Fits
<1>5. CASE Gate(r)
  BY <1>0, <1>1, <1>5 DEF Gate, Fits
<1>6. CASE CleanSource(r)
  BY <1>0, <1>1, <1>6 DEF CleanSource, Fits
<1>7. CASE Check(r)
  BY <1>0, <1>1, <1>7 DEF Check, Fits
<1>8. CASE Apply(r)
  BY <1>0, <1>8, WritesMoves DEF Apply, End, Fits
<1>9. CASE ApplyFailed(r)
  BY <1>0, <1>9, LooksMoves DEF ApplyFailed, End, EndDamaged, Fits
<1>10. CASE Verify(r)
  BY <1>0, <1>10, LooksMoves DEF Verify, EndDamaged, Fits
<1>11. CASE Reverse(r)
  BY <1>0, <1>11, LooksMoves DEF Reverse, EndDamaged, Fits
<1>12. CASE Restore(r)
  BY <1>0, <1>12, WritesMoves DEF Restore, EndDamaged, Fits
<1>13. CASE RestoreCheck(r)
  BY <1>0, <1>13, LooksMoves DEF RestoreCheck, End, EndDamaged
<1>14. CASE Audit(r)
  BY <1>0, <1>14, LooksMoves DEF Audit, End, Fits
<1>15. CASE Match(r)
  BY <1>0, <1>1, <1>15 DEF Match, Fits
<1>16. CASE RbCheck(r)
  BY <1>0, <1>16, LooksMoves DEF RbCheck, Fits
<1>17. CASE RbApply(r)
  BY <1>0, <1>17, WritesMoves DEF RbApply, Fits
<1>18. CASE RbClean(r)
  BY <1>0, <1>18, LooksMoves DEF RbClean, EndDamaged, Fits
<1>19. CASE RbStamp(r)
  BY <1>0, <1>19, LooksMoves DEF RbStamp, EndDamaged, Fits
<1>20. CASE RbRepair(r)
  BY <1>0, <1>20, WritesMoves DEF RbRepair, EndDamaged, Fits
<1>21. CASE RbReapply(r)
  BY <1>0, <1>21, WritesMoves DEF RbReapply, EndDamaged, Fits
<1>22. CASE RbCompare(r)
  BY <1>0, <1>22, LooksMoves DEF RbCompare, End, EndDamaged
<1>23. CASE RbWrite(r)
  BY <1>0, <1>2, <1>23 DEF RbWrite, Fits
<1>24. CASE RbAbsent(r)
  BY <1>0, <1>2, <1>24 DEF RbAbsent, Unplace, EndDamaged, Fits
<1>. QED
  BY <1>3, <1>4, <1>5, <1>6, <1>7, <1>8, <1>9, <1>10, <1>11, <1>12, <1>13,
     <1>14, <1>15, <1>16, <1>17, <1>18, <1>19, <1>20, <1>21, <1>22, <1>23, <1>24
     DEF Quietly

-----------------------------------------------------------------------------
(* The invariant of the audit *)

LEMMA AuditStep ==
    AuditTypes /\ AuditInv /\ [Next]_vars => AuditTypes' /\ AuditInv'
<1> SUFFICES ASSUME AuditTypes, AuditInv, [Next]_vars
             PROVE  AuditTypes' /\ AuditInv'
  OBVIOUS
<1>s. \A r \in Reviewers : Fits(r, at[r]) /\ at[r] \in Steps /\ command[r] \in Commands
  BY DEF AuditInv, AuditTypes
<1>a. ASSUME UNCHANGED <<decision, rollbacks, candidate, status, command, at>>
      PROVE  AuditTypes' /\ AuditInv'
  BY <1>a DEF AuditTypes, AuditInv, StatusFollowsAudit, CandidateKeptForDecision,
     Fits
<1>b. ASSUME NEW r \in Reviewers, Moves(r)
      PROVE  AuditTypes' /\ AuditInv'
  BY <1>b DEF Moves, Goto, AuditTypes, AuditInv, StatusFollowsAudit,
     CandidateKeptForDecision, Fits
<1>1. CASE UNCHANGED vars
  BY <1>a, <1>1 DEF vars, audit
<1>2. ASSUME NEW r \in Reviewers, NEW c \in Commands, Start(r, c)
      PROVE  AuditTypes' /\ AuditInv'
  BY <1>2 DEF Start, Goto, audit, AuditTypes, AuditInv, StatusFollowsAudit,
     CandidateKeptForDecision, Fits, Steps, DecideSteps, RollbackSteps
<1>3. ASSUME NEW r \in Reviewers, Publish(r)
      PROVE  AuditTypes' /\ AuditInv'
  <2>1. CASE UNCHANGED <<decision, reverse>> /\ Goto(r, Unpublished(r))
    <3>0. Fits(r, Unpublished(r)) /\ Unpublished(r) \in Steps
      BY IdleFits DEF Unpublished, Fits, Steps, RollbackSteps
    <3>1. Moves(r)
      BY <1>3, <2>1, <3>0 DEF Publish, PublishIf, Records, Moves
    <3>. QED
      BY <1>b, <3>1
  <2>2. ASSUME decision = "none", decision' = command[r],
               NEW step \in {"cleanup", Unpublished(r)}, Goto(r, step)
        PROVE  AuditTypes' /\ AuditInv'
    <3>1. command[r] \in {"approve", "reject"}
      BY <1>3, <1>s DEF Publish, PublishIf, Fits, DecideSteps, Commands
    <3>2. UNCHANGED <<rollbacks, candidate, status, command>> /\ ~rolledBack
      BY <1>3, <2>2 DEF Publish, PublishIf, Records, AuditInv
    <3>a. step \in {"cleanup", "restore", "idle"} /\ (step = "restore" => command[r] # "rollback")
      BY <2>2 DEF Unpublished
    <3>3. \A q \in Reviewers : q # r => Fits(q, at[q])'
      BY <1>s, <2>2, <3>2 DEF Goto, Fits, AuditTypes, DecideSteps, Commands
    <3>4. Fits(r, at[r])'
      BY <2>2, <3>1, <3>2, <3>a DEF Goto, Fits, AuditTypes, RollbackSteps
    <3>5. AuditTypes'
      BY <2>2, <3>1, <3>2, <3>a DEF Goto, AuditTypes, Steps
    <3>. QED
      BY <2>2, <3>1, <3>2, <3>3, <3>4, <3>5
         DEF AuditInv, StatusFollowsAudit, CandidateKeptForDecision
  <2>. QED
    BY <1>3, <2>1, <2>2 DEF Publish, PublishIf, Publishes
<1>4. ASSUME NEW r \in Reviewers, Cleanup(r)
      PROVE  AuditTypes' /\ AuditInv'
  <2>1. decision # "none"
    BY <1>4, <1>s DEF Cleanup, Fits, Commands
  <2>. QED
    BY <1>4, <1>s, <2>1 DEF Cleanup, Goto, audit, AuditTypes, AuditInv,
       StatusFollowsAudit, CandidateKeptForDecision, Fits, Steps, DecideSteps,
       RollbackSteps
<1>5. ASSUME NEW r \in Reviewers, RetryCleanup(r)
      PROVE  AuditTypes' /\ AuditInv'
  BY <1>5 DEF RetryCleanup, audit, AuditTypes, AuditInv, StatusFollowsAudit,
     CandidateKeptForDecision, Fits
<1>6. ASSUME NEW r \in Reviewers, Save(r)
      PROVE  AuditTypes' /\ AuditInv'
  <2>1. command[r] # "rollback" /\ decision = command[r]
    BY <1>6, <1>s DEF Save, SaveAs, Fits, DecideSteps
  <2>. QED
    BY <1>6, <1>s, <2>1, IdleFits DEF Save, SaveAs, End, Goto, audit, AuditTypes, AuditInv,
       StatusFollowsAudit, CandidateKeptForDecision, Fits, Steps, DecideSteps,
       RollbackSteps, Commands
<1>7. ASSUME NEW r \in Reviewers, RbReplace(r)
      PROVE  AuditTypes' /\ AuditInv'
  <2>1. decision = "approve" /\ command[r] \in Commands /\ rollbacks \in Nat
    BY <1>7, <1>s DEF RbReplace, Fits, RollbackSteps, AuditTypes
  <2>2. UNCHANGED <<decision, reverse, candidate, status, command>>
    BY <1>7 DEF RbReplace, Records
  <2>3. CASE UNCHANGED rollbacks /\ Unplace(r)
    <3>1. Moves(r)
      BY <2>1, <2>2, <2>3 DEF Unplace, EndDamaged, Moves, Fits, Steps, DecideSteps,
         RollbackSteps
    <3>. QED
      BY <1>b, <3>1
  <2>4. ASSUME rollbacks' = rollbacks + 1, NEW step \in {"rbSave", "rbReapply"}, Goto(r, step)
        PROVE  AuditTypes' /\ AuditInv'
    <3>1. rollbacks' > 0 /\ rollbacks' \in Nat
      BY <2>1, <2>4
    <3>2. \A q \in Reviewers : Fits(q, at[q])'
      BY <1>s, <2>1, <2>2, <2>4, <3>1 DEF Goto, Fits, AuditTypes, DecideSteps, RollbackSteps
    <3>. QED
      BY <2>1, <2>2, <2>4, <3>1, <3>2 DEF Goto, AuditTypes, AuditInv, StatusFollowsAudit,
         CandidateKeptForDecision, Steps
  <2>. QED
    BY <1>7, <2>3, <2>4 DEF RbReplace
<1>8. ASSUME NEW r \in Reviewers, RbSave(r)
      PROVE  AuditTypes' /\ AuditInv'
  <2>1. decision = "approve" /\ rolledBack
    BY <1>8, <1>s DEF RbSave, SaveAs, Fits, RollbackSteps
  <2>. QED
    BY <1>8, <1>s, <2>1 DEF RbSave, SaveAs, End, Goto, audit, AuditTypes, AuditInv,
       StatusFollowsAudit, CandidateKeptForDecision, Fits, Steps, DecideSteps,
       RollbackSteps
<1>9. ASSUME NEW r \in Reviewers, Crash(r)
      PROVE  AuditTypes' /\ AuditInv'
  <2>1. Moves(r)
    BY <1>9, IdleFits DEF Crash, End, EndDamaged, Moves, Steps
  <2>. QED
    BY <1>b, <2>1
<1>10. ASSUME NEW f \in Files, HumanEdit(f)
       PROVE  AuditTypes' /\ AuditInv'
  BY <1>a, <1>10 DEF HumanEdit, audit
<1>11. ASSUME NEW r \in Reviewers, Quietly(r)
       PROVE  AuditTypes' /\ AuditInv'
  BY <1>11, <1>b, QuietlyMoves
<1>. QED
  BY <1>1, <1>2, <1>3, <1>4, <1>5, <1>6, <1>7, <1>8, <1>9, <1>10, <1>11
     DEF Next, Decide, Rollback, Quietly

LEMMA AuditInvariant == Spec => [](AuditTypes /\ AuditInv)
<1>1. Init => AuditTypes /\ AuditInv
  BY DEF Init, AuditTypes, AuditInv, StatusFollowsAudit, CandidateKeptForDecision,
     Fits, Commands, Steps, DecideSteps, RollbackSteps
<1>. QED
  BY <1>1, AuditStep, PTL DEF Spec

\* Whatever process is killed when, session.json never claims more than the
\* audit records.
THEOREM SessionFollowsAudit == Spec => []StatusFollowsAudit
BY AuditInvariant, PTL DEF AuditInv

\* The candidate of an undecided request is never touched.
THEOREM CandidateIsKept == Spec => []CandidateKeptForDecision
BY AuditInvariant, PTL DEF AuditInv

-----------------------------------------------------------------------------
(* Decisions are final *)

\* Between reading the audit and putting rollback.json in place.
Replacing == {"match", "rbCheck", "rbApply", "rbClean", "rbStamp", "rbWrite",
              "rbAbsent", "rbReplace"}

\* As long as commands do not overlap, the one that rolls back is the first.
OnceInv ==
    "overlap" \notin damage =>
        \A r \in Reviewers : at[r] # "idle" =>
            /\ \A q \in Reviewers : at[q] # "idle" => q = r
            /\ at[r] \in Replacing => ~rolledBack

\* The command at r goes on, and meets what it read in the audit.
Onward(r) ==
    /\ at[r] # "idle"
    /\ damage \subseteq damage'
    /\ \E step \in Steps :
          /\ Goto(r, step)
          /\ step \in Replacing =>
                UNCHANGED rollbacks /\ (at[r] \in Replacing \/ ~rolledBack)

LEMMA StepsOnward ==
    ASSUME AuditTypes, NEW r \in Reviewers,
           Load(r) \/ Decide(r) \/ Rollback(r) \/ Crash(r)
    PROVE  Onward(r)
<1> USE DEF Replacing, Steps, End, EndDamaged
<1>1. CASE Load(r) \/ Recover(r) \/ Gate(r) \/ CleanSource(r) \/ Check(r)
  BY <1>1 DEF Load, Recover, Gate, CleanSource, Check, Passes, Onward
<1>2. CASE Match(r)
  BY <1>2 DEF Match, Passes, Looks, audit, Onward
<1>3. CASE Apply(r) \/ ApplyFailed(r) \/ Verify(r) \/ Reverse(r) \/ Restore(r) \/ RestoreCheck(r)
  BY <1>3 DEF Apply, ApplyFailed, Verify, Reverse, Restore, RestoreCheck, Onward
<1>4. CASE Publish(r)
  <2>1. PICK step \in {"cleanup", Unpublished(r)} : Goto(r, step)
    BY <1>4 DEF Publish, PublishIf
  <2>2. step \in Steps \ Replacing
    BY <2>1 DEF Unpublished
  <2>3. at[r] # "idle" /\ damage \subseteq damage'
    BY <1>4 DEF Publish, PublishIf, FailsLate
  <2>. QED
    BY <2>1, <2>2, <2>3 DEF Onward
<1>5. CASE Cleanup(r) \/ Save(r) \/ RbSave(r)
  BY <1>5 DEF Cleanup, Save, RbSave, SaveAs, Onward
<1>6. CASE Audit(r) \/ RbCheck(r) \/ RbClean(r) \/ RbStamp(r) \/ RbCompare(r)
  BY <1>6 DEF Audit, RbCheck, RbClean, RbStamp, RbCompare, Looks, audit, Onward
<1>7. CASE RbApply(r) \/ RbRepair(r) \/ RbReapply(r)
  BY <1>7 DEF RbApply, RbRepair, RbReapply, Writes, audit, Onward
<1>8. CASE RbWrite(r) \/ RbAbsent(r) \/ RbReplace(r)
  BY <1>8 DEF RbWrite, RbAbsent, RbReplace, Unplace, FailsLate, Onward
<1>9. CASE Crash(r)
  BY <1>9 DEF Crash, Onward
<1>. QED
  BY <1>1, <1>2, <1>3, <1>4, <1>5, <1>6, <1>7, <1>8, <1>9 DEF Decide, Rollback

LEMMA OnceStep == AuditTypes /\ OnceInv /\ [Next]_vars => OnceInv'
<1> SUFFICES ASSUME AuditTypes, OnceInv, [Next]_vars PROVE OnceInv'
  OBVIOUS
<1>1. CASE UNCHANGED <<rollbacks, at, damage>>
  BY <1>1 DEF OnceInv
<1>2. ASSUME NEW r \in Reviewers, NEW c \in Commands, Start(r, c)
      PROVE  OnceInv'
  BY <1>2 DEF Start, Goto, AuditTypes, OnceInv, Replacing
<1>3. ASSUME NEW r \in Reviewers, Load(r) \/ Decide(r) \/ Rollback(r) \/ Crash(r)
      PROVE  OnceInv'
  <2>1. Onward(r)
    BY <1>3, StepsOnward
  <2>. QED
    BY <2>1 DEF Onward, Goto, AuditTypes, OnceInv
<1>4. ASSUME NEW r \in Reviewers, RetryCleanup(r)
      PROVE  OnceInv'
  BY <1>1, <1>4 DEF RetryCleanup, audit
<1>5. ASSUME NEW f \in Files, HumanEdit(f)
      PROVE  OnceInv'
  BY <1>1, <1>5 DEF HumanEdit, audit
<1>. QED
  BY <1>1, <1>2, <1>3, <1>4, <1>5 DEF Next, vars, audit

\* No process, however many there are, replaces a decision another one made,
\* or its reverse patch; and the record of a rollback is written over only
\* where commands overlapped.
THEOREM FinalDecisions == Spec => DecisionsAreFinal
<1> DEFINE Final ==
      /\ decision # "none" => UNCHANGED <<decision, reverse>>
      /\ rollbacks' # rollbacks =>
            /\ rollbacks' = rollbacks + 1
            /\ rollbacks = 0 \/ "overlap" \in damage
<1>1. AuditTypes /\ AuditInv /\ OnceInv /\ [Next]_vars => [Final]_vars
  <2> SUFFICES ASSUME AuditTypes, AuditInv, OnceInv, Next PROVE Final
    OBVIOUS
  <2>1. ASSUME NEW r \in Reviewers, Quietly(r)
        PROVE  UNCHANGED <<decision, reverse, rollbacks>>
    BY <2>1, QuietlyMoves DEF Moves
  <2>2. ASSUME NEW r \in Reviewers, Publish(r)
        PROVE  Final
    BY <2>2 DEF Publish, PublishIf
  <2>3. ASSUME NEW r \in Reviewers, RbReplace(r)
        PROVE  Final
    BY <2>3 DEF RbReplace, OnceInv, Replacing, AuditTypes
  <2>4. ASSUME NEW r \in Reviewers, NEW c \in Commands,
               \/ Start(r, c) \/ Cleanup(r) \/ RetryCleanup(r) \/ Save(r)
               \/ RbSave(r) \/ Crash(r)
        PROVE  UNCHANGED <<decision, reverse, rollbacks>>
    BY <2>4 DEF Start, Cleanup, RetryCleanup, Save, RbSave, SaveAs, Crash, audit
  <2>5. ASSUME NEW f \in Files, HumanEdit(f)
        PROVE  UNCHANGED <<decision, reverse, rollbacks>>
    BY <2>5 DEF HumanEdit, audit
  <2>. QED
    BY <2>1, <2>2, <2>3, <2>4, <2>5 DEF Next, Decide, Rollback, Quietly, Commands
<1>2. Init => OnceInv
  BY DEF Init, OnceInv
<1>. QED
  BY <1>1, <1>2, AuditInvariant, OnceStep, PTL DEF Spec, DecisionsAreFinal

-----------------------------------------------------------------------------
(* Types *)

\* What TypeOK says beyond AuditTypes.
FileTypes ==
    /\ source \in Sources
    /\ reverse \in Sources
    /\ stray \in BOOLEAN
    /\ candidate \in {"whole", "partial", "gone"}
    /\ status \in {"pending", "applied", "rejected", "rolled_back"}
    /\ diff \in [Reviewers -> Sources]
    /\ calls \in 0..MaxCalls
    /\ edits \in 0..MaxEdits
    /\ crashes \in 0..MaxCrashes
    /\ mine \subseteq Files
    /\ untold \in BOOLEAN
    /\ damage \subseteq Damages

LEMMA ConstantSources == Clean \in Sources /\ Patched \in Sources
BY DEF Clean, Patched, Sources, States

\* Writing a source keeps the types if the source is one afterwards.
LEMMA WritesTypes ==
    ASSUME FileTypes, NEW r \in Reviewers, Writes(r), source' \in Sources,
           damage' \subseteq Damages
    PROVE  FileTypes'
BY DEF FileTypes, Writes, audit, bounds

LEMMA LooksTypes ==
    ASSUME FileTypes, NEW r \in Reviewers, Looks(r),
           diff' \in [Reviewers -> Sources],
           damage' \subseteq Damages
    PROVE  FileTypes'
BY DEF FileTypes, Looks, audit, bounds

LEMMA ApplyPatchTypes ==
    ASSUME FileTypes, NEW r \in Reviewers, NEW from \in Sources, NEW to \in Sources,
           Writes(r), damage' \subseteq Damages,
           ApplyPatch(from, to) \/ ApplyFails(from) \/ UNCHANGED source
    PROVE  FileTypes'
<1>1. source' \in Sources
  BY DEF FileTypes, ApplyPatch, ApplyFails, Applied, Torn, Sources
<1>. QED
  BY <1>1, WritesTypes

LEMMA QuietlyTypes ==
    ASSUME FileTypes, NEW r \in Reviewers, Quietly(r)
    PROVE  FileTypes'
<1>0. /\ source \in Sources /\ reverse \in Sources /\ diff \in [Reviewers -> Sources]
      /\ damage \subseteq Damages
  BY DEF FileTypes
<1>1. ASSUME NEW from, NEW guard, NEW next, Passes(r, from, guard, next)
      PROVE  FileTypes'
  BY <1>0, <1>1, LooksTypes DEF Passes, End
<1>2. CASE Load(r) \/ Recover(r) \/ Gate(r) \/ CleanSource(r) \/ Check(r) \/ Match(r)
  BY <1>1, <1>2 DEF Load, Recover, Gate, CleanSource, Check, Match
<1>3. CASE Apply(r) \/ Restore(r) \/ RbReapply(r) \/ RbRepair(r)
  <2>1. damage' \subseteq Damages /\ Writes(r)
    BY <1>0, <1>3 DEF Apply, Restore, RbReapply, RbRepair, End, EndDamaged, Damages
  <2>. QED
    BY <1>3, <2>1, ApplyPatchTypes, ConstantSources DEF Apply, Restore, RbReapply, RbRepair
<1>4. CASE ApplyFailed(r) \/ Verify(r) \/ RestoreCheck(r)
  BY <1>0, <1>4, LooksTypes DEF ApplyFailed, Verify, RestoreCheck, End, EndDamaged, Damages
<1>5. CASE RbCheck(r) \/ RbClean(r) \/ RbStamp(r) \/ RbCompare(r)
  BY <1>0, <1>5, LooksTypes
     DEF RbCheck, RbClean, RbStamp, RbCompare, End, EndDamaged, Damages
<1>6. CASE Reverse(r) \/ Audit(r)
  BY <1>0, <1>6, LooksTypes DEF Reverse, Audit, End, EndDamaged, Damages
<1>7. CASE RbApply(r)
  <2>1. source' \in Sources
    BY <1>0, <1>7 DEF RbApply, Reversed, Sources, States
  <2>. QED
    BY <1>0, <1>7, <2>1, WritesTypes DEF RbApply
<1>8. CASE RbWrite(r) \/ RbAbsent(r)
  BY <1>8 DEF FileTypes, RbWrite, RbAbsent, Unplace, Records, EndDamaged, Damages, bounds
<1>. QED
  BY <1>2, <1>3, <1>4, <1>5, <1>6, <1>7, <1>8 DEF Quietly

LEMMA TypesStep ==
    AuditTypes /\ AuditInv /\ FileTypes /\ [Next]_vars => FileTypes'
<1> SUFFICES ASSUME AuditTypes, AuditInv, FileTypes, [Next]_vars
             PROVE  FileTypes'
  OBVIOUS
<1>1. CASE UNCHANGED vars
  BY <1>1 DEF FileTypes, vars, audit, bounds
<1>2. ASSUME NEW r \in Reviewers, NEW c \in Commands, Start(r, c)
      PROVE  FileTypes'
  BY <1>2 DEF FileTypes, Start, audit, Damages
<1>3. ASSUME NEW r \in Reviewers, Quietly(r)
      PROVE  FileTypes'
  BY <1>3, QuietlyTypes
<1>4. ASSUME NEW r \in Reviewers, Publish(r) \/ RbReplace(r)
      PROVE  FileTypes'
  BY <1>4 DEF FileTypes, Publish, PublishIf, Publishes, RbReplace, Unplace, FailsLate,
     Records, EndDamaged, Damages, bounds
<1>5. ASSUME NEW r \in Reviewers, Cleanup(r) \/ RetryCleanup(r)
      PROVE  FileTypes'
  BY <1>5 DEF FileTypes, Cleanup, RetryCleanup, CleanupOutcomes, audit, bounds
<1>6. ASSUME NEW r \in Reviewers, Save(r) \/ RbSave(r)
      PROVE  FileTypes'
  BY <1>6 DEF FileTypes, Save, RbSave, SaveAs, End, audit, bounds
<1>7. ASSUME NEW r \in Reviewers, Crash(r)
      PROVE  FileTypes'
  <2>1. damage' \subseteq Damages
    BY <1>7 DEF FileTypes, Crash, End, EndDamaged, Damages
  <2>2. stray' \in BOOLEAN /\ untold' \in BOOLEAN
    BY <1>7, Zenon DEF FileTypes, Crash, Unplaced
  <2>3. crashes' \in 0..MaxCrashes
    BY <1>7 DEF FileTypes, Crash
  <2>. QED
    BY <1>7, <2>1, <2>2, <2>3 DEF FileTypes, Crash
<1>8. ASSUME NEW f \in Files, HumanEdit(f)
      PROVE  FileTypes'
  BY <1>8 DEF FileTypes, HumanEdit, Sources, States, audit
<1>. QED
  BY <1>1, <1>2, <1>3, <1>4, <1>5, <1>6, <1>7, <1>8
     DEF Next, Decide, Rollback, Quietly

\* The variables of the actions keep their ranges.
THEOREM ActionsTypeOK == Spec => []TypeOK
<1>1. Init => FileTypes
  <2> SUFFICES ASSUME Init PROVE FileTypes
    OBVIOUS
  <2>1. diff \in [Reviewers -> Sources]
    BY ConstantSources DEF Init
  <2>2. calls \in 0..MaxCalls /\ edits \in 0..MaxEdits /\ crashes \in 0..MaxCrashes
    BY DEF Init
  <2>. QED
    BY <2>1, <2>2, ConstantSources DEF Init, FileTypes
<1>2. AuditTypes /\ FileTypes => TypeOK
  BY DEF AuditTypes, FileTypes, TypeOK
<1>. QED
  BY <1>1, <1>2, AuditInvariant, TypesStep, PTL DEF Spec

-----------------------------------------------------------------------------
(* The source is what the audit says it is *)

ApproveSteps == {"check", "apply", "applyFailed", "verify", "reverse", "restore",
                 "restoreCheck"}
UndecidedSteps == ApproveSteps \cup {"clean", "publish"}
AgreeingSteps == {"load", "recover", "gate", "clean", "check", "apply", "cleanup", "save",
                  "audit", "match", "rbCheck", "rbApply", "rbSave"}

\* But for the human's edits the source is t.
OffMine(t) == \A f \in Files \ mine : source[f] = t[f]

\* What holds at a step of a process that works alone, nothing having gone
\* wrong so far.
Holds(r, step) ==
    /\ step \in ApproveSteps => command[r] = "approve"
    /\ step \in RollbackSteps \cup {"audit"} => command[r] = "rollback"
    /\ step \in UndecidedSteps => decision = "none"
    /\ step \in RollbackSteps \ {"rbSave"} => ~rolledBack
    /\ step \in AgreeingSteps => Agrees
    /\ step = "reverse" \/ (step = "publish" /\ command[r] = "approve") => OffMine(Patched)
    /\ step = "publish" /\ command[r] = "reject" => OffMine(Clean)
    /\ step \in {"rbStamp", "rbWrite", "rbAbsent", "rbReplace"} => OffMine(Clean)

\* Nothing went wrong and nobody overlapped: one process works at most.
SerialInv ==
    damage = {} =>
        /\ Quiet => Agrees
        /\ \A r \in Reviewers : at[r] # "idle" =>
              /\ \A q \in Reviewers : at[q] # "idle" => q = r
              /\ Holds(r, at[r])

\* The process at work takes a step.
LEMMA OneMoves ==
    ASSUME AuditTypes, NEW r \in Reviewers, NEW step,
           \A q \in Reviewers : at[q] # "idle" => q = r,
           Goto(r, step),
           step = "idle" => Agrees',
           step # "idle" => Holds(r, step)'
    PROVE  SerialInv'
<1>1. at'[r] = step /\ \A q \in Reviewers : q # r => at'[q] = "idle"
  BY DEF Goto, AuditTypes
<1>. QED
  BY <1>1 DEF SerialInv, Quiet

\* Sources that are equal to what the audit says agree with it.
LEMMA EqualAgrees ==
    /\ source = Clean => OffMine(Clean)
    /\ source = Patched => OffMine(Patched)
    /\ decision # "approve" \/ rolledBack => (Agrees <=> OffMine(Clean))
    /\ decision = "approve" /\ ~rolledBack => (Agrees <=> OffMine(Patched))
BY DEF OffMine, Agrees, Audited

\* An edit by the human hides the file it touches and leaves the others.
LEMMA EditKeepsSerial ==
    ASSUME FileTypes, SerialInv, NEW f \in Files, HumanEdit(f)
    PROVE  SerialInv'
<1>1. /\ \A g \in Files \ mine' : g \notin mine /\ source'[g] = source[g]
      /\ UNCHANGED <<decision, rollbacks, command, at, damage>>
  BY DEF HumanEdit, FileTypes, Sources, audit
<1>2. Agrees => Agrees'
  BY <1>1 DEF Agrees, Audited
<1>3. /\ OffMine(Clean) => OffMine(Clean)'
      /\ OffMine(Patched) => OffMine(Patched)'
  BY <1>1 DEF OffMine, Clean, Patched
<1>. QED
  BY <1>1, <1>2, <1>3 DEF SerialInv, Quiet, Holds

\* A process that only looks leaves what it knows as it is.
LEMMA LooksKeeps ==
    ASSUME NEW r \in Reviewers, Looks(r)
    PROVE  /\ UNCHANGED <<decision, rollbacks, command, source, mine>>
           /\ Agrees' = Agrees
           /\ OffMine(Clean)' = OffMine(Clean)
           /\ OffMine(Patched)' = OffMine(Patched)
BY DEF Looks, audit, Agrees, Audited, OffMine, Clean, Patched

\* The process r works alone and nothing has gone wrong, this step included.
Alone(r) ==
    /\ damage = {} /\ damage' = {}
    /\ \A q \in Reviewers : at[q] # "idle" => q = r
    /\ Holds(r, at[r]) /\ Fits(r, at[r])
    /\ command[r] \in Commands

\* The steps of a decision that only look.
LEMMA DecidingKeepsSerial ==
    ASSUME AuditTypes, AuditInv, NEW r \in Reviewers, Alone(r),
           \/ Load(r) \/ Recover(r) \/ Gate(r) \/ CleanSource(r) \/ Check(r)
           \/ ApplyFailed(r) \/ Verify(r) \/ Reverse(r) \/ RestoreCheck(r)
    PROVE  SerialInv'
<1> USE DEF ApproveSteps, UndecidedSteps, AgreeingSteps, RollbackSteps, DecideSteps
<1>1. Looks(r)
  BY DEF Load, Recover, Gate, CleanSource, Check, ApplyFailed, Verify, Reverse,
     RestoreCheck, Passes
<1>2. /\ UNCHANGED <<decision, rollbacks, command, source, mine>>
      /\ Agrees' = Agrees
      /\ OffMine(Clean)' = OffMine(Clean) /\ OffMine(Patched)' = OffMine(Patched)
  BY <1>1, LooksKeeps
<1>3. \A q \in Reviewers : at[q] # "idle" => q = r
  BY DEF Alone
<1>4. rolledBack => decision = "approve"
  BY DEF AuditInv
<1>5. ASSUME NEW from, NEW guard, NEW next, Passes(r, from, guard, next),
             from \in AgreeingSteps,
             guard => Holds(r, next)'
      PROVE  SerialInv'
  <2>1. Agrees'
    BY <1>2, <1>5 DEF Passes, Alone, Holds
  <2>2. PICK step : Goto(r, step) /\ (step = "idle" \/ Holds(r, step)')
    BY <1>5 DEF Passes, End
  <2>. QED
    BY <1>3, <2>1, <2>2, OneMoves
<1>6. CASE Load(r)
  <2>1. at[r] = "load" /\ Agrees
    BY <1>6 DEF Load, Passes, Alone, Holds
  <2>2. Holds(r, "recover")' /\ (command[r] = "rollback" => Holds(r, "audit")')
    BY <1>2, <2>1 DEF Holds
  <2>. QED
    BY <1>5, <1>6, <2>2 DEF Load
<1>7. CASE Recover(r) \/ Gate(r) \/ CleanSource(r) \/ Check(r)
  <2>0. /\ Holds(r, at[r]) /\ Fits(r, at[r]) /\ command[r] \in Commands
    BY DEF Alone
  <2>1. CASE Recover(r)
    BY <1>2, <1>5, <2>0, <2>1 DEF Recover, Passes, Holds
  <2>2. CASE Gate(r)
    BY <1>2, <1>5, <2>0, <2>2 DEF Gate, Passes, Holds
  <2>3. CASE CleanSource(r)
    <3>1. CASE command[r] = "reject"
      <4>1. source = Clean => Holds(r, "publish")'
        BY <1>2, <2>0, <2>3, <3>1, EqualAgrees DEF CleanSource, Passes, Holds
      <4>. QED
        BY <1>5, <2>3, <3>1, <4>1 DEF CleanSource
    <3>2. CASE command[r] = "approve"
      <4>1. Holds(r, "check")'
        BY <1>2, <2>0, <2>3, <3>2 DEF CleanSource, Passes, Holds
      <4>. QED
        BY <1>5, <2>3, <3>2, <4>1 DEF CleanSource
    <3>. QED
      BY <2>0, <2>3, <3>1, <3>2 DEF CleanSource, Passes, Fits, Commands
  <2>4. CASE Check(r)
    BY <1>2, <1>5, <2>0, <2>4 DEF Check, Passes, Holds
  <2>. QED
    BY <1>7, <2>1, <2>2, <2>3, <2>4
<1>8. CASE ApplyFailed(r)
  BY <1>2, <1>3, <1>4, <1>8, OneMoves, EqualAgrees DEF ApplyFailed, Holds, Alone, End, EndDamaged
<1>9. CASE Verify(r) \/ Reverse(r)
  BY <1>2, <1>3, <1>9, OneMoves, EqualAgrees DEF Verify, Reverse, EndDamaged, Holds, Alone
<1>10. CASE RestoreCheck(r)
  BY <1>2, <1>3, <1>4, <1>10, OneMoves, EqualAgrees DEF RestoreCheck, Holds, Alone, End, EndDamaged
<1>. QED
  BY <1>6, <1>7, <1>8, <1>9, <1>10

\* The steps of a rollback that only look.
LEMMA RollingBackKeepsSerial ==
    ASSUME AuditTypes, AuditInv, NEW r \in Reviewers, Alone(r),
           \/ Audit(r) \/ Match(r) \/ RbCheck(r) \/ RbClean(r) \/ RbStamp(r) \/ RbCompare(r)
    PROVE  SerialInv'
<1> USE DEF ApproveSteps, UndecidedSteps, AgreeingSteps, RollbackSteps, DecideSteps
<1>1. Looks(r)
  BY DEF Audit, Match, RbCheck, RbClean, RbStamp, RbCompare, Passes
<1>2. /\ UNCHANGED <<decision, rollbacks, command, source, mine>>
      /\ Agrees' = Agrees
      /\ OffMine(Clean)' = OffMine(Clean) /\ OffMine(Patched)' = OffMine(Patched)
  BY <1>1, LooksKeeps
<1>3. \A q \in Reviewers : at[q] # "idle" => q = r
  BY DEF Alone
<1>4. Holds(r, at[r]) /\ Fits(r, at[r]) /\ damage = {} /\ damage' = {}
  BY DEF Alone
<1>5. CASE Audit(r) \/ Match(r)
  <2>1. Agrees /\ (Audit(r) => command[r] = "rollback")
    BY <1>4, <1>5 DEF Audit, Match, Passes, Holds, Fits
  <2>. QED
    BY <1>2, <1>3, <1>4, <1>5, <2>1, OneMoves DEF Audit, Match, Passes, End, Holds
<1>6. CASE RbCheck(r) \/ RbClean(r)
  BY <1>2, <1>3, <1>4, <1>6, OneMoves, EqualAgrees DEF RbCheck, RbClean, EndDamaged, Holds
<1>7. CASE RbStamp(r)
  BY <1>2, <1>3, <1>4, <1>7, OneMoves DEF RbStamp, EndDamaged, Holds
<1>8. CASE RbCompare(r)
  <2>1. source = Patched /\ Goto(r, "idle")
    BY <1>4, <1>8 DEF RbCompare, End, EndDamaged
  <2>2. Agrees
    BY <1>4, <1>8, <2>1, EqualAgrees DEF RbCompare, Holds, Fits
  <2>. QED
    BY <1>2, <1>3, <2>1, <2>2, OneMoves
<1>. QED
  BY <1>5, <1>6, <1>7, <1>8

\* The steps that write the source.
LEMMA WritingKeepsSerial ==
    ASSUME AuditTypes, AuditInv, NEW r \in Reviewers, Alone(r),
           \/ Apply(r) \/ Restore(r) \/ RbApply(r) \/ RbRepair(r) \/ RbReapply(r)
    PROVE  SerialInv'
<1> USE DEF ApproveSteps, UndecidedSteps, AgreeingSteps, RollbackSteps, DecideSteps
<1>1. \A q \in Reviewers : at[q] # "idle" => q = r
  BY DEF Alone
<1>2. Holds(r, at[r]) /\ Fits(r, at[r]) /\ damage = {} /\ damage' = {}
  BY DEF Alone
<1>3. ASSUME Writes(r), NEW step \in {"applyFailed", "verify", "restoreCheck", "rbClean",
                                      "rbRepair", "rbCompare"},
             Goto(r, step), Holds(r, step)
      PROVE  SerialInv'
  <2>1. UNCHANGED <<decision, rollbacks, command>>
    BY <1>3 DEF Writes, audit
  <2>2. Holds(r, step)'
    BY <1>3, <2>1 DEF Holds
  <2>. QED
    BY <1>1, <1>3, <2>2, OneMoves
<1>a. ASSUME Writes(r), UNCHANGED source, Goto(r, "idle"), Agrees
      PROVE  SerialInv'
  <2>1. Agrees'
    BY <1>a DEF Writes, audit, Agrees, Audited, Clean, Patched
  <2>. QED
    BY <1>1, <1>a, <2>1, OneMoves
<1>4. CASE Apply(r)
  BY <1>2, <1>3, <1>a, <1>4 DEF Apply, End, Holds
<1>5. CASE Restore(r)
  BY <1>2, <1>3, <1>5 DEF Restore, EndDamaged, Holds
<1>6. CASE RbApply(r)
  BY <1>2, <1>3, <1>a, <1>6 DEF RbApply, Holds
<1>7. CASE RbReapply(r)
  BY <1>2, <1>3, <1>7 DEF RbReapply, EndDamaged, Holds
<1>8. CASE RbRepair(r)
  BY <1>2, <1>3, <1>8 DEF RbRepair, EndDamaged, Holds
<1>. QED
  BY <1>4, <1>5, <1>6, <1>7, <1>8

\* The steps that write the audit, the candidate or session.json.
LEMMA RecordingKeepsSerial ==
    ASSUME AuditTypes, AuditInv, NEW r \in Reviewers, Alone(r),
           \/ Publish(r) \/ RbWrite(r) \/ RbAbsent(r) \/ RbReplace(r)
           \/ Cleanup(r) \/ Save(r) \/ RbSave(r)
    PROVE  SerialInv'
<1> USE DEF ApproveSteps, UndecidedSteps, AgreeingSteps, RollbackSteps, DecideSteps
<1>1. \A q \in Reviewers : at[q] # "idle" => q = r
  BY DEF Alone
<1>2. /\ Holds(r, at[r]) /\ Fits(r, at[r]) /\ damage = {} /\ damage' = {}
      /\ command[r] \in Commands
  BY DEF Alone
<1>3. rolledBack => decision = "approve"
  BY DEF AuditInv
<1>4. CASE Publish(r)
  <2>1. /\ decision = "none" /\ ~rolledBack /\ command[r] # "rollback" /\ at[r] = "publish"
        /\ UNCHANGED <<source, mine, rollbacks, command>>
    BY <1>2, <1>3, <1>4 DEF Publish, PublishIf, Records, Holds, Fits
  <2>2. CASE Goto(r, "cleanup") /\ decision' = command[r]
    <3>1. Agrees'
      BY <1>2, <2>1, <2>2 DEF Holds, OffMine, Agrees, Audited, Commands
    <3>2. Holds(r, "cleanup")'
      BY <3>1 DEF Holds
    <3>. QED
      BY <1>1, <2>2, <3>2, OneMoves
  <2>3. CASE Goto(r, Unpublished(r)) /\ UNCHANGED decision
    <3>1. CASE command[r] = "approve"
      BY <1>1, <2>1, <2>3, <3>1, OneMoves DEF Unpublished, Holds
    <3>2. CASE command[r] = "reject"
      <4>1. Agrees'
        BY <1>2, <2>1, <2>3, <3>2 DEF Holds, OffMine, Agrees, Audited, Clean
      <4>. QED
        BY <1>1, <2>3, <3>2, <4>1, OneMoves DEF Unpublished
    <3>. QED
      BY <1>2, <2>1, <3>1, <3>2 DEF Commands
  <2>4. CASE decision' = command[r] /\ FailsLate(r) /\ Goto(r, Unpublished(r))
    <3>1. command[r] = "reject"
      BY <1>2, <2>4 DEF FailsLate
    <3>2. Agrees'
      BY <1>2, <2>1, <2>4, <3>1 DEF Holds, OffMine, Agrees, Audited, Clean
    <3>. QED
      BY <1>1, <2>4, <3>1, <3>2, OneMoves DEF Unpublished
  <2>. QED
    BY <1>4, <2>1, <2>2, <2>3, <2>4 DEF Publish, PublishIf, Publishes
<1>5. CASE RbWrite(r) \/ RbAbsent(r) \/ RbReplace(r)
  <2>1. /\ command[r] = "rollback" /\ OffMine(Clean) /\ ~rolledBack
        /\ UNCHANGED <<source, mine, decision, command>>
    BY <1>2, <1>5 DEF RbWrite, RbAbsent, RbReplace, Records, Holds
  <2>2. CASE rollbacks' = rollbacks + 1 /\ Goto(r, "rbSave")
    <3>1. rollbacks' > 0
      BY <2>2 DEF AuditTypes
    <3>2. Agrees'
      BY <2>1, <3>1 DEF OffMine, Agrees, Audited, Clean
    <3>. QED
      BY <1>1, <2>1, <2>2, <3>2, OneMoves DEF Holds
  <2>3. ASSUME UNCHANGED rollbacks, NEW step \in {"rbAbsent", "rbReplace", "rbReapply"},
               Goto(r, step)
        PROVE  SerialInv'
    <3>1. OffMine(Clean)'
      BY <2>1 DEF OffMine, Clean
    <3>2. Holds(r, step)'
      BY <2>1, <2>3, <3>1 DEF Holds
    <3>. QED
      BY <1>1, <2>3, <3>2, OneMoves
  <2>. QED
    BY <1>2, <1>5, <2>2, <2>3
       DEF RbWrite, RbAbsent, RbReplace, Unplace, EndDamaged, FailsLate, Commands, Holds
<1>6. CASE Cleanup(r) \/ Save(r) \/ RbSave(r)
  <2>1. UNCHANGED <<source, mine, decision, rollbacks, command>> /\ Agrees
    BY <1>2, <1>6 DEF Cleanup, Save, RbSave, SaveAs, Holds, audit
  <2>2. Agrees'
    BY <2>1 DEF Agrees, Audited, Clean, Patched
  <2>. QED
    BY <1>1, <1>6, <2>2, OneMoves DEF Cleanup, Save, RbSave, SaveAs, End, Holds
<1>. QED
  BY <1>4, <1>5, <1>6

LEMMA SerialStep ==
    AuditTypes /\ AuditInv /\ FileTypes /\ SerialInv /\ [Next]_vars => SerialInv'
<1> SUFFICES ASSUME AuditTypes, AuditInv, FileTypes, SerialInv, [Next]_vars, damage' = {}
             PROVE  SerialInv'
  BY DEF SerialInv
<1>0. /\ \A r \in Reviewers : Fits(r, at[r]) /\ command[r] \in Commands
      /\ rolledBack => decision = "approve"
  BY DEF AuditInv, AuditTypes
<1>a. ASSUME damage = {}, NEW r \in Reviewers, at[r] # "idle"
      PROVE  Alone(r)
  BY <1>0, <1>a DEF SerialInv, Alone
<1>1. CASE UNCHANGED vars
  BY <1>1 DEF vars, audit, bounds, SerialInv, Quiet, Holds, Agrees, Audited, OffMine
<1>2. ASSUME NEW r \in Reviewers, NEW c \in Commands, Start(r, c)
      PROVE  SerialInv'
  <2>1. damage = {} /\ Quiet /\ Goto(r, "load")
    BY <1>2 DEF Start, Quiet
  <2>2. Agrees'
    BY <1>2, <2>1 DEF Start, SerialInv, Agrees, Audited, Clean, Patched, audit
  <2>. QED
    BY <2>1, <2>2, OneMoves DEF Quiet, Holds, ApproveSteps, UndecidedSteps, AgreeingSteps,
       RollbackSteps
<1>3. ASSUME NEW r \in Reviewers, RetryCleanup(r)
      PROVE  SerialInv'
  BY <1>3 DEF RetryCleanup, SerialInv, Quiet, Holds, Agrees, Audited, OffMine, Clean, Patched,
     audit
<1>4. ASSUME NEW r \in Reviewers, Crash(r)
      PROVE  SerialInv'
  <2>1. damage = {} /\ at[r] # "idle" /\ Goto(r, "idle") /\ (at[r] \in Exposed => command[r] = "reject")
    BY <1>4 DEF Crash, End, EndDamaged
  <2>2. Alone(r)
    BY <1>a, <2>1
  <2>3. Agrees
    <3>1. CASE at[r] \in AgreeingSteps
      BY <2>2, <3>1 DEF Alone, Holds
    <3>2. CASE at[r] \notin AgreeingSteps
      <4>1. at[r] \in Exposed
        BY <2>1, <3>2 DEF AuditTypes, Steps, AgreeingSteps, Exposed
      <4>2. at[r] = "publish" /\ command[r] = "reject"
        BY <2>1, <2>2, <4>1 DEF Alone, Holds, Exposed, ApproveSteps, RollbackSteps
      <4>. QED
        BY <1>0, <2>2, <4>2, EqualAgrees DEF Alone, Holds, UndecidedSteps
    <3>. QED
      BY <3>1, <3>2
  <2>4. Agrees'
    BY <1>4, <2>3 DEF Crash, Agrees, Audited, Clean, Patched
  <2>. QED
    BY <2>1, <2>2, <2>4, OneMoves DEF Alone
<1>5. ASSUME NEW f \in Files, HumanEdit(f)
      PROVE  SerialInv'
  BY <1>5, EditKeepsSerial
<1>6. ASSUME NEW r \in Reviewers, Load(r) \/ Decide(r) \/ Rollback(r)
      PROVE  SerialInv'
  <2>1. at[r] # "idle"
    BY <1>6 DEF Load, Decide, Rollback, Passes, Recover, Gate, CleanSource, Check, Apply,
       ApplyFailed, Verify, Reverse, Restore, RestoreCheck, Publish, PublishIf, Cleanup, Save,
       Audit, Match, RbCheck, RbApply, RbClean, RbStamp, RbWrite, RbAbsent, RbReplace,
       RbRepair, RbReapply, RbCompare, RbSave, SaveAs
  <2>2. damage = {}
    BY <1>6 DEF Load, Decide, Rollback, Passes, Recover, Gate, CleanSource, Check, Apply,
       ApplyFailed, Verify, Reverse, Restore, RestoreCheck, Publish, PublishIf, Cleanup, Save,
       Audit, Match, RbCheck, RbApply, RbClean, RbStamp, RbWrite, RbAbsent, RbReplace,
       Unplace, FailsLate, RbRepair, RbReapply, RbCompare, RbSave, SaveAs, End, EndDamaged
  <2>3. Alone(r)
    BY <1>a, <2>1, <2>2
  <2>. QED
    BY <1>6, <2>3, DecidingKeepsSerial, RollingBackKeepsSerial, WritingKeepsSerial,
       RecordingKeepsSerial DEF Decide, Rollback
<1>. QED
  BY <1>1, <1>2, <1>3, <1>4, <1>5, <1>6 DEF Next

\* decide and rollback: whoever edits meanwhile, between commands the source is
\* what the audit says, unless a command raised without having settled that,
\* was killed with the source in its hands or met another one.
THEOREM SourceMatchesAudit == Spec => []AuditMatchesSource
<1>1. Init => SerialInv
  BY DEF Init, SerialInv, Agrees, Audited, Clean
<1>2. SerialInv => AuditMatchesSource
  BY DEF SerialInv, AuditMatchesSource
<1>3. Spec => []FileTypes
  <2>1. TypeOK => FileTypes
    BY DEF TypeOK, FileTypes
  <2>. QED
    BY <2>1, ActionsTypeOK, PTL
<1>. QED
  BY <1>1, <1>2, <1>3, AuditInvariant, SerialStep, PTL DEF Spec

-----------------------------------------------------------------------------
(* One record of the request *)

Settling == {"cleanup", "save"}

\* What process r relies on at this step besides the audit (Fits): nobody told
\* of the decision it has just made, what it rolls back was told of, and the
\* approval it publishes has a way back.
Relies(r, step) ==
    /\ step \in Settling => status = "pending"
    /\ step \in RollbackSteps \cup {"audit"} => status \in {"applied", "rolled_back"}
    /\ step = "publish" /\ command[r] = "approve" => diff[r] # Clean

RecordInv ==
    /\ \A r \in Reviewers : Relies(r, at[r])
    /\ \A p, q \in Reviewers : at[p] \in Settling /\ at[q] \in Settling => p = q
    /\ decision = "approve" => reverse # Clean
    /\ rolledBack => status \in {"applied", "rolled_back"}

record == <<decision, Back, rollbacks, status, candidate>>
RecordStep == [Record!RecordNext]_record

\* Process r goes to a step at which it settles nothing, and records
\* nothing.
Passing(r) ==
    /\ UNCHANGED <<decision, reverse, rollbacks, candidate, status, command>>
    /\ \E step \in Steps \ Settling : Goto(r, step) /\ Relies(r, step)'
    /\ \A q \in Reviewers \ {r} : diff'[q] = diff[q]

LEMMA PassingKeepsRecord ==
    ASSUME AuditTypes, RecordInv, NEW r \in Reviewers, Passing(r)
    PROVE  RecordInv' /\ RecordStep
<1>1. RecordStep
  BY DEF Passing, RecordStep, record, Back
<1>2. PICK step \in Steps \ Settling : Goto(r, step) /\ Relies(r, step)'
  BY DEF Passing
<1>3. at'[r] = step /\ \A q \in Reviewers \ {r} : at'[q] = at[q]
  BY <1>2 DEF Goto, AuditTypes
<1>4. ASSUME NEW q \in Reviewers
      PROVE  Relies(q, at[q])'
  <2>1. CASE q = r
    BY <1>2, <1>3, <2>1
  <2>2. CASE q # r
    BY <1>3, <2>2 DEF Passing, RecordInv, Relies
  <2>. QED
    BY <2>1, <2>2
<1>5. ASSUME NEW p \in Reviewers, NEW q \in Reviewers,
             at'[p] \in Settling, at'[q] \in Settling
      PROVE  p = q
  BY <1>2, <1>3, <1>5 DEF RecordInv
<1>. QED
  BY <1>1, <1>4, <1>5 DEF RecordInv, Passing

LEMMA QuietlyPasses ==
    ASSUME AuditTypes, AuditInv, FileTypes, RecordInv, NEW r \in Reviewers, Quietly(r)
    PROVE  Passing(r)
<1>0. Relies(r, at[r]) /\ command[r] \in Commands /\ diff \in [Reviewers -> Sources]
  BY DEF RecordInv, AuditTypes, FileTypes
<1>1. UNCHANGED <<decision, reverse, rollbacks, candidate, status, command>>
  BY QuietlyMoves DEF Moves
<1>2. \A q \in Reviewers \ {r} : diff'[q] = diff[q]
  BY <1>0 DEF Quietly, Load, Recover, Gate, CleanSource, Check, Apply, ApplyFailed, Verify,
     Reverse, Restore, RestoreCheck, Audit, Match, RbCheck, RbApply, RbClean, RbStamp,
     RbWrite, RbAbsent, RbRepair, RbReapply, RbCompare, Passes, Writes, Records
<1> DEFINE Free == Steps \ Settling
<1>3. ASSUME NEW step \in Free, Goto(r, step), Relies(r, step)'
      PROVE  Passing(r)
  BY <1>1, <1>2, <1>3 DEF Passing
<1>4. Relies(r, "idle")'
  BY DEF Relies, Settling, RollbackSteps
<1>5. ASSUME NEW step \in Free, Goto(r, step), step # "publish",
             step \in RollbackSteps \cup {"audit"} => status \in {"applied", "rolled_back"}
      PROVE  Passing(r)
  BY <1>1, <1>3, <1>5 DEF Relies
<1> USE DEF Steps, Settling, RollbackSteps
<1>6. CASE Load(r) \/ Recover(r) \/ Gate(r) \/ Check(r)
  BY <1>5, <1>6 DEF Load, Recover, Gate, Check, Passes, End
<1>7. CASE CleanSource(r)
  <2>1. CASE Goto(r, "publish") /\ command[r] = "reject"
    BY <1>1, <1>3, <2>1 DEF Relies
  <2>2. CASE Goto(r, "check") \/ Goto(r, "idle")
    BY <1>5, <2>2
  <2>. QED
    BY <1>7, <2>1, <2>2 DEF CleanSource, Passes, End
<1>8. CASE Apply(r) \/ ApplyFailed(r) \/ Verify(r) \/ Restore(r) \/ RestoreCheck(r)
  BY <1>5, <1>8 DEF Apply, ApplyFailed, Verify, Restore, RestoreCheck, End, EndDamaged
<1>9. CASE Reverse(r)
  <2>1. CASE diff' = [diff EXCEPT ![r] = source] /\ source # Clean /\ Goto(r, "publish")
    <3>1. diff'[r] # Clean
      BY <1>0, <2>1
    <3>. QED
      BY <1>3, <2>1, <3>1 DEF Relies
  <2>2. CASE Goto(r, "restore") \/ Goto(r, "idle")
    BY <1>5, <2>2
  <2>. QED
    BY <1>9, <2>1, <2>2 DEF Reverse, EndDamaged
<1>10. ASSUME at[r] \in RollbackSteps \cup {"audit"}, NEW step \in Free, Goto(r, step),
              step # "publish"
       PROVE  Passing(r)
  BY <1>0, <1>5, <1>10 DEF Relies
<1>11. CASE Audit(r) \/ Match(r) \/ RbCheck(r) \/ RbApply(r) \/ RbClean(r)
  BY <1>10, <1>11 DEF Audit, Match, RbCheck, RbApply, RbClean, Passes, End, EndDamaged
<1>12. CASE RbStamp(r) \/ RbWrite(r) \/ RbAbsent(r) \/ RbRepair(r) \/ RbReapply(r) \/ RbCompare(r)
  BY <1>10, <1>12 DEF RbStamp, RbWrite, RbAbsent, Unplace, RbRepair, RbReapply, RbCompare,
     End, EndDamaged
<1>. QED
  BY <1>6, <1>7, <1>8, <1>9, <1>11, <1>12 DEF Quietly

\* A command begins or is killed.
LEMMA ComingAndGoing ==
    ASSUME AuditTypes, RecordInv, NEW r \in Reviewers,
           Crash(r) \/ \E c \in Commands : Start(r, c)
    PROVE  RecordInv' /\ RecordStep
<1>1. CASE Crash(r)
  <2>1. Relies(r, "idle")'
    BY DEF Relies, Settling, RollbackSteps
  <2>2. Passing(r)
    BY <1>1, <2>1 DEF Crash, End, EndDamaged, Passing, Steps, Settling
  <2>. QED
    BY <2>2, PassingKeepsRecord
<1>2. ASSUME NEW c \in Commands, Start(r, c)
      PROVE  RecordInv' /\ RecordStep
  <2>1. /\ UNCHANGED <<decision, reverse, rollbacks, candidate, status, diff>>
        /\ at'[r] = "load" /\ \A q \in Reviewers \ {r} : at'[q] = at[q] /\ command'[q] = command[q]
    BY <1>2 DEF Start, Goto, audit, AuditTypes
  <2>2. \A q \in Reviewers : Relies(q, at[q])'
    BY <2>1 DEF RecordInv, Relies, Settling, RollbackSteps
  <2>3. RecordStep
    BY <2>1 DEF RecordStep, record, Back
  <2>. QED
    BY <2>1, <2>2, <2>3 DEF RecordInv, Settling
<1>. QED
  BY <1>1, <1>2

\* Publishing is deciding, or nothing at all.
LEMMA PublishDecides ==
    ASSUME AuditTypes, AuditInv, FileTypes, RecordInv, NEW r \in Reviewers, Publish(r)
    PROVE  RecordInv' /\ RecordStep
<1>0. /\ UNCHANGED <<rollbacks, candidate, status, command, diff>> /\ at[r] = "publish"
      /\ Relies(r, "publish") /\ command[r] \in {"approve", "reject"}
  BY DEF Publish, PublishIf, Records, RecordInv, AuditInv, AuditTypes, Fits, DecideSteps,
     Commands
<1>1. CASE UNCHANGED <<decision, reverse>> /\ Goto(r, Unpublished(r))
  <2>1. ASSUME NEW step \in {"restore", "idle"}, Goto(r, step)
        PROVE  Passing(r)
    <3>1. Relies(r, step)'
      BY <2>1 DEF Relies, Settling, RollbackSteps
    <3>. QED
      BY <1>0, <1>1, <2>1, <3>1 DEF Passing, Steps, Settling
  <2>2. Passing(r)
    BY <1>1, <2>1 DEF Unpublished
  <2>. QED
    BY <2>2, PassingKeepsRecord
<1>2. ASSUME decision = "none", decision' = command[r], reverse' = diff[r],
             NEW step \in {"cleanup", Unpublished(r)}, Goto(r, step)
      PROVE  RecordInv' /\ RecordStep
  <2>0. step \in {"cleanup", "restore", "idle"}
    BY <1>2 DEF Unpublished
  <2>1. status = "pending" /\ ~rolledBack
    BY <1>2 DEF AuditInv, StatusFollowsAudit, FileTypes
  <2>2. \A q \in Reviewers : at[q] \notin Settling \cup RollbackSteps \cup {"audit"}
    BY <1>2, <2>1 DEF AuditInv, AuditTypes, Fits, Settling, RecordInv, Relies, Commands
  <2>3. at'[r] = step /\ \A q \in Reviewers \ {r} : at'[q] = at[q]
    BY <1>2 DEF Goto, AuditTypes
  <2>4. \A q \in Reviewers : Relies(q, at[q])'
    BY <1>0, <2>0, <2>1, <2>2, <2>3 DEF RecordInv, Relies, Settling, RollbackSteps
  <2>5. RecordInv'
    BY <1>0, <1>2, <2>0, <2>1, <2>2, <2>3, <2>4 DEF RecordInv, Relies, Settling, RollbackSteps
  <2>6. CASE command[r] = "approve"
    <3>1. diff[r] \in Sources \ {Clean}
      BY <1>0, <2>6 DEF Relies, FileTypes
    <3>2. Record!Approve(diff[r])
      BY <1>0, <1>2, <2>6 DEF Record!Approve, Back
    <3>. QED
      BY <2>5, <3>1, <3>2 DEF RecordStep, Record!RecordNext
  <2>7. CASE command[r] = "reject"
    <3>1. Record!Reject
      BY <1>0, <1>2, <2>7 DEF Record!Reject, Back
    <3>. QED
      BY <2>5, <3>1 DEF RecordStep, Record!RecordNext
  <2>. QED
    BY <1>0, <2>6, <2>7
<1>. QED
  BY <1>1, <1>2 DEF Publish, PublishIf, Publishes

\* Only a decided request loses its candidate.
LEMMA CleanupRemoves ==
    ASSUME AuditTypes, AuditInv, FileTypes, RecordInv, NEW r \in Reviewers,
           Cleanup(r) \/ RetryCleanup(r)
    PROVE  RecordInv' /\ RecordStep
<1>1. /\ decision # "none" /\ candidate' \in CleanupOutcomes
      /\ UNCHANGED <<decision, reverse, rollbacks, status, command, diff>>
  BY DEF Cleanup, RetryCleanup, audit, AuditInv, AuditTypes, Fits, Commands
<1>2. RecordStep
  <2>1. CASE candidate' = candidate
    BY <1>1, <2>1 DEF RecordStep, record, Back
  <2>2. CASE candidate' # candidate
    <3>1. Record!Remove
      BY <1>1, <2>2 DEF Record!Remove, CleanupOutcomes, FileTypes, Back
    <3>. QED
      BY <3>1 DEF RecordStep, Record!RecordNext
  <2>. QED
    BY <2>1, <2>2
<1>3. CASE RetryCleanup(r)
  BY <1>1, <1>2, <1>3 DEF RetryCleanup, RecordInv, Relies
<1>4. CASE Cleanup(r)
  <2>1. /\ at[r] = "cleanup" /\ at'[r] \in {"save", "idle"}
        /\ \A q \in Reviewers \ {r} : at'[q] = at[q]
    BY <1>4 DEF Cleanup, Goto, AuditTypes
  <2>. QED
    BY <1>1, <1>2, <2>1 DEF RecordInv, Relies, Settling, RollbackSteps
<1>. QED
  BY <1>2, <1>3, <1>4

\* The one process that decided saves the session, and so does every one that
\* rolled back, or they fail to.
LEMMA SaveTells ==
    ASSUME AuditTypes, AuditInv, RecordInv, NEW r \in Reviewers, Save(r) \/ RbSave(r)
    PROVE  RecordInv' /\ RecordStep
<1>1. /\ UNCHANGED <<decision, reverse, rollbacks, candidate, command, diff>>
      /\ at'[r] = "idle" /\ \A q \in Reviewers \ {r} : at'[q] = at[q]
  BY DEF Save, RbSave, SaveAs, End, Goto, audit, AuditTypes
<1>2. Fits(r, at[r]) /\ Relies(r, at[r])
  BY DEF AuditInv, RecordInv
<1>3. CASE UNCHANGED status
  <2>1. RecordInv'
    BY <1>1, <1>3 DEF RecordInv, Relies, Settling, RollbackSteps
  <2>. QED
    BY <1>1, <1>3, <2>1 DEF RecordStep, record, Back
<1>4. CASE Save(r) /\ status' # status
  <2>1. /\ at[r] = "save" /\ status = "pending" /\ decision = command[r]
        /\ command[r] \in {"approve", "reject"}
        /\ status' = IF command[r] = "approve" THEN "applied" ELSE "rejected"
    BY <1>2, <1>4 DEF Save, SaveAs, Fits, Relies, Settling, DecideSteps, AuditTypes, Commands
  <2>2. \A q \in Reviewers \ {r} : at[q] \notin Settling \cup RollbackSteps \cup {"audit"}
    BY <2>1 DEF RecordInv, Relies, Settling
  <2>3. RecordInv'
    BY <1>1, <2>1, <2>2 DEF RecordInv, Relies, Settling, RollbackSteps
  <2>4. Record!Tell
    BY <1>1, <2>1 DEF Record!Tell, Record!Tells, Back
  <2>. QED
    BY <2>3, <2>4 DEF RecordStep, Record!RecordNext
<1>5. CASE RbSave(r) /\ status' # status
  <2>1. /\ at[r] = "rbSave" /\ status = "applied" /\ rolledBack /\ decision = "approve"
        /\ status' = "rolled_back"
    BY <1>2, <1>5 DEF RbSave, SaveAs, Fits, Relies, RollbackSteps
  <2>2. \A q \in Reviewers \ {r} : at[q] \notin Settling
    BY <2>1 DEF RecordInv, Relies
  <2>3. RecordInv'
    BY <1>1, <2>1, <2>2 DEF RecordInv, Relies, Settling, RollbackSteps
  <2>4. Record!Tell
    BY <1>1, <2>1 DEF Record!Tell, Record!Tells, Back
  <2>. QED
    BY <2>3, <2>4 DEF RecordStep, Record!RecordNext
<1>. QED
  BY <1>3, <1>4, <1>5

\* rollback.json is put in place for an approval the session told of.
LEMMA RbReplaceUndoes ==
    ASSUME AuditTypes, AuditInv, RecordInv, NEW r \in Reviewers, RbReplace(r)
    PROVE  RecordInv' /\ RecordStep
<1>1. /\ UNCHANGED <<decision, reverse, candidate, status, command, diff>>
      /\ at[r] = "rbReplace" /\ status \in {"applied", "rolled_back"}
  BY DEF RbReplace, Records, RecordInv, Relies, RollbackSteps
<1>2. CASE UNCHANGED rollbacks /\ Unplace(r)
  <2>1. Relies(r, "rbReapply")' /\ Relies(r, "idle")'
    BY <1>1 DEF Relies, Settling, RollbackSteps
  <2>2. Passing(r)
    BY <1>1, <1>2, <2>1 DEF Unplace, EndDamaged, Passing, Steps, Settling
  <2>. QED
    BY <2>2, PassingKeepsRecord
<1>3. ASSUME rollbacks' = rollbacks + 1, NEW step \in {"rbSave", "rbReapply"}, Goto(r, step)
      PROVE  RecordInv' /\ RecordStep
  <2>1. at'[r] = step /\ \A q \in Reviewers \ {r} : at'[q] = at[q]
    BY <1>3 DEF Goto, AuditTypes
  <2>2. RecordInv'
    BY <1>1, <1>3, <2>1 DEF RecordInv, Relies, Settling, RollbackSteps
  <2>3. Record!Undo
    BY <1>1, <1>3 DEF Record!Undo, Back
  <2>. QED
    BY <2>2, <2>3 DEF RecordStep, Record!RecordNext
<1>. QED
  BY <1>2, <1>3 DEF RbReplace

LEMMA RecordKept ==
    AuditTypes /\ AuditInv /\ FileTypes /\ RecordInv /\ [Next]_vars => RecordInv' /\ RecordStep
<1> SUFFICES ASSUME AuditTypes, AuditInv, FileTypes, RecordInv, [Next]_vars
             PROVE  RecordInv' /\ RecordStep
  OBVIOUS
<1>1. CASE UNCHANGED <<audit, candidate, status, command, at, diff>>
  BY <1>1 DEF audit, RecordInv, Relies, RecordStep, record, Back
<1>2. ASSUME NEW r \in Reviewers, Quietly(r)
      PROVE  RecordInv' /\ RecordStep
  BY <1>2, QuietlyPasses, PassingKeepsRecord
<1>3. ASSUME NEW f \in Files, HumanEdit(f)
      PROVE  RecordInv' /\ RecordStep
  BY <1>1, <1>3 DEF HumanEdit
<1>. QED
  BY <1>1, <1>2, <1>3, ComingAndGoing, PublishDecides, CleanupRemoves, SaveTells,
     RbReplaceUndoes DEF Next, Decide, Rollback, Quietly, vars

\* decide and rollback in any number of processes: action directory,
\* session.json and candidate are one record, decided once, told of after the
\* fact and never ahead of it, in one order; a rollback may be recorded twice.
THEOREM RequestIsOneRecord == Spec => ImplementsRecord
<1>1. Init => RecordInv
  BY DEF Init, RecordInv, Relies, Settling, RollbackSteps
<1>2. Init => Record!RecordInit
  BY DEF Init, Record!RecordInit, Back
<1>3. TypeOK => FileTypes
  BY DEF TypeOK, FileTypes
<1>4. RecordStep <=> [Record!RecordNext]_<<decision, Back, rollbacks, status, candidate>>
  BY DEF RecordStep, record
<1>. QED
  BY <1>1, <1>2, <1>3, <1>4, AuditInvariant, ActionsTypeOK, RecordKept, PTL
     DEF Spec, ImplementsRecord, Record!RecordSpec, Record!recordVars

-----------------------------------------------------------------------------
(* What is recorded is told *)

\* A decision or a rollback that was not told of yet has a process on its way
\* to tell it.
TellInv ==
    ~untold =>
        /\ decision # "none" /\ status = "pending" =>
              \E r \in Reviewers : at[r] \in Settling
        /\ rolledBack /\ status = "applied" => \E r \in Reviewers : at[r] = "rbSave"

\* Only saving, or ending untold, takes a process from where it has to tell.
LEMMA TellKept ==
    AuditTypes /\ AuditInv /\ FileTypes /\ RecordInv /\ TellInv /\ [Next]_vars => TellInv'
<1> SUFFICES ASSUME AuditTypes, AuditInv, FileTypes, RecordInv, TellInv, [Next]_vars, ~untold'
             PROVE  TellInv'
  BY DEF TellInv
<1> USE DEF Settling
<1>1. CASE UNCHANGED <<decision, rollbacks, status, at, untold>>
  BY <1>1 DEF TellInv
<1>2. ASSUME UNCHANGED <<decision, rollbacks, status>>, ~untold,
             NEW r \in Reviewers, at[r] \notin Settling \cup {"rbSave"},
             NEW step, Goto(r, step)
      PROVE  TellInv'
  BY <1>2 DEF TellInv, Goto, AuditTypes
<1>3. ASSUME NEW r \in Reviewers, Quietly(r)
      PROVE  TellInv'
  <2>1. PICK step \in Steps : Goto(r, step)
    BY <1>3, QuietlyMoves DEF Moves
  <2>2. UNCHANGED <<decision, rollbacks, status>>
    BY <1>3, QuietlyMoves DEF Moves
  <2>3. UNCHANGED untold /\ at[r] \notin Settling \cup {"rbSave"}
    BY <1>3 DEF Quietly, Load, Recover, Gate, CleanSource, Check, Apply, ApplyFailed, Verify,
       Reverse, Restore, RestoreCheck, Audit, Match, RbCheck, RbApply, RbClean, RbStamp,
       RbWrite, RbAbsent, RbRepair, RbReapply, RbCompare, Passes, Writes, Looks
  <2>. QED
    BY <1>2, <2>1, <2>2, <2>3
<1>4. ASSUME NEW r \in Reviewers, NEW c \in Commands, Start(r, c)
      PROVE  TellInv'
  BY <1>2, <1>4 DEF Start, audit
<1>5. ASSUME NEW r \in Reviewers, Publish(r) \/ RbReplace(r)
      PROVE  TellInv'
  <2>1. UNCHANGED <<status, untold>> /\ at[r] \notin Settling \cup {"rbSave"}
    BY <1>5 DEF Publish, PublishIf, RbReplace, Records, FailsLate
  <2>2. CASE UNCHANGED <<decision, rollbacks>>
    <3>1. \E step : Goto(r, step)
      BY <1>5 DEF Publish, PublishIf, RbReplace, Unplace, EndDamaged
    <3>. QED
      BY <1>2, <2>1, <2>2, <3>1
  <2>3. CASE Publish(r) /\ decision' = command[r] /\ Goto(r, "cleanup")
    BY <2>1, <2>3 DEF Publish, PublishIf, TellInv, Goto, AuditTypes
  <2>4. CASE RbReplace(r) /\ Goto(r, "rbSave")
    BY <2>1, <2>4 DEF RbReplace, TellInv, Goto, AuditTypes
  <2>. QED
    BY <1>5, <2>2, <2>3, <2>4 DEF Publish, PublishIf, Publishes, RbReplace, FailsLate
<1>6. ASSUME NEW r \in Reviewers, Cleanup(r)
      PROVE  TellInv'
  BY <1>6 DEF Cleanup, audit, TellInv, Goto, AuditTypes
<1>7. ASSUME NEW r \in Reviewers, Save(r) \/ RbSave(r)
      PROVE  TellInv'
  <2>1. Fits(r, at[r]) /\ UNCHANGED <<decision, rollbacks, untold>>
    BY <1>7 DEF AuditInv, Save, RbSave, SaveAs, audit
  <2>2. CASE Save(r)
    <3>1. status' # "pending" /\ ~rolledBack
      BY <2>2 DEF Save, SaveAs, RecordInv, Relies
    <3>. QED
      BY <2>1, <2>2, <3>1 DEF TellInv
  <2>3. CASE RbSave(r)
    BY <2>1, <2>3 DEF RbSave, SaveAs, TellInv
  <2>. QED
    BY <1>7, <2>2, <2>3
<1>8. ASSUME NEW r \in Reviewers, Crash(r)
      PROVE  TellInv'
  <2>1. ~untold /\ at[r] \notin Settling \cup {"rbSave"}
    BY <1>8, Zenon DEF Crash
  <2>2. UNCHANGED <<decision, rollbacks, status>> /\ Goto(r, "idle")
    BY <1>8 DEF Crash, End, EndDamaged
  <2>. QED
    BY <1>2, <2>1, <2>2
<1>9. ASSUME NEW r \in Reviewers, RetryCleanup(r)
      PROVE  TellInv'
  BY <1>1, <1>9 DEF RetryCleanup, audit
<1>10. ASSUME NEW f \in Files, HumanEdit(f)
       PROVE  TellInv'
  BY <1>1, <1>10 DEF HumanEdit, audit
<1>. QED
  BY <1>1, <1>3, <1>4, <1>5, <1>6, <1>7, <1>8, <1>9, <1>10
     DEF Next, Decide, Rollback, Quietly, vars, audit

\* decide_session and rollback_session: however many commands run at once, when
\* they have returned session.json says what the audit says, unless one of them
\* ended between its record and the session, killed, failing to save or failing
\* after its last write.
THEOREM SessionCatchesUp == Spec => []SessionMatchesAudit
<1>1. Init => RecordInv /\ TellInv
  BY DEF Init, RecordInv, Relies, Settling, RollbackSteps, TellInv
<1>2. TypeOK => FileTypes
  BY DEF TypeOK, FileTypes
<1>3. AuditTypes /\ AuditInv /\ FileTypes /\ RecordInv /\ TellInv => SessionMatchesAudit
  BY DEF AuditTypes, AuditInv, StatusFollowsAudit, FileTypes, RecordInv, TellInv, Settling,
     SessionMatchesAudit, Quiet, Recorded
<1>. QED
  BY <1>1, <1>2, <1>3, AuditInvariant, ActionsTypeOK, RecordKept, TellKept, PTL DEF Spec

=============================================================================
