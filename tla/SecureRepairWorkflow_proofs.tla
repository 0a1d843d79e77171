---------------------- MODULE SecureRepairWorkflow_proofs ----------------------
(***************************************************************************)
(* Proofs about SecureRepairWorkflow, for any files and any number of      *)
(* edits by persons: no stage change is ever refused, a session rests only *)
(* where it can be continued, what it leaves behind is reported, where     *)
(* packages are looked for there is a complete one or none, and a package  *)
(* that is offered for a decision holds what was validated.                *)
(***************************************************************************)
EXTENDS SecureRepairWorkflow, TLAPS

Creating == {"snapshot", "clone", "checkout", "validate", "recheck", "undo",
             "created", "createFailed"}
Repairing == {"agent", "repairFailed"}
Listing == {"repositories", "names", "measure", "export", "validation"}
Checking == {"again", "verify", "packaged"}
Packaging == Listing \cup Checking \cup
             {"write", "place", "abandon", "discard", "packageFailed", "unsubmitted"}
Resting == {"created", "approval_pending", "applied", "completed", "failed"}

\* The stage follows from where the process is.
StageInv ==
    /\ ~refused
    /\ at \in Creating \cup Repairing \cup Packaging \cup {"actionFailed", "idle", "dead"}
    /\ at \in Creating => stage = "created"
    /\ at \in Repairing => stage = "candidate_ready"
    /\ at \in Packaging => stage = "repair_finished"
    /\ at = "actionFailed" => stage = "approval_pending"
    /\ at = "idle" => stage \in Resting

\* An error is on its way up only where one is handled.
FailureInv ==
    /\ at \in {"idle"} /\ stage \in {"created", "approval_pending"} => failure = "none"
    /\ at \in Listing \cup Checking \cup {"write", "place"} => failure = "none"
    /\ at \in {"snapshot", "clone", "checkout", "validate", "recheck", "created", "agent"} =>
          failure = "none"
    /\ at = "discard" => place \in {"final", "torn"}

\* The package directory, by the step that works on it.
PlaceInv ==
    /\ files \in 0..FileCount
    /\ place = "final" => files = FileCount
    /\ at \in Creating \cup Repairing \cup Listing \/ (at = "idle" /\ stage = "created") =>
          place = "none" /\ files = 0
    /\ at = "write" => files < FileCount /\ place # "final"
    /\ at = "place" => files = FileCount /\ place # "final"
    /\ at = "abandon" => place # "final"
    /\ at \in Checking => place = "final"

\* What a session that rests has decided, and what it decides about.
DecisionInv ==
    at = "idle" /\ stage \in {"approval_pending", "applied", "completed"} =>
        /\ stage = "approval_pending" => approval = "pending" /\ place = "final"
        /\ stage # "approval_pending" => approval \in {"approved", "rejected"}

\* Who answers for the candidate's directory.
CandidateInv ==
    /\ at = "idle" /\ stage = "created" => dir = "none" /\ holds = {}
    /\ at \in Creating => holds = {}
    /\ at = "snapshot" => dir = "none"
    /\ at = "createFailed" /\ dir # "none" => failure = "cleanup_failed"
    /\ at # "dead" /\ stage \notin {"created", "failed"} => "candidate" \in holds
    /\ at = "idle" /\ stage \in {"failed", "applied", "completed"} =>
          \/ "candidate" \in holds /\ (dir # "none" => cleanup = "failed")
          \/ /\ "candidate" \notin holds /\ failedIn = "createFailed"
             /\ dir # "none" => failure = "cleanup_failed"
             /\ stage = "failed"

IInv == StageInv /\ FailureInv /\ PlaceInv /\ DecisionInv /\ CandidateInv

USE DEF Creating, Repairing, Listing, Checking, Packaging, Resting

\* The table of transitions, path by path.
LEMMA LegalPaths ==
  /\ stage = "created" => Legal(<<"candidate_ready">>) /\ Legal(<<"failed">>)
  /\ stage = "candidate_ready" => Legal(<<"repair_finished">>) /\ Legal(<<"failed">>)
  /\ stage = "repair_finished" => Legal(<<"approval_pending">>) /\ Legal(<<"failed">>)
  /\ stage = "approval_pending" =>
        /\ Legal(<<"approved", "applied">>)
        /\ Legal(<<"rejected", "completed">>)
        /\ Legal(<<"failed">>)
  /\ stage = "applied" =>
        /\ Legal(<<"completed">>) /\ Legal(<<"failed">>)
        /\ Legal(<<"rolled_back", "completed">>)
  BY DEF Legal, Transitions, TransitionTable

LEMMA InitInv == Init => IInv
  BY DEF Init, WorkspaceInit, PackageInit, IInv, StageInv, FailureInv, PlaceInv, DecisionInv,
     CandidateInv, FileCount

\* Making the candidate.
LEMMA CreateKeepsInv ==
  ASSUME IInv, Create, UNCHANGED <<package, workflow>>
  PROVE  IInv'
  <1> USE DEF IInv, Create, SnapshotSource, Clone, Checkout, Validate, Recheck, Undo,
              UndoReporting, Looks, Goto, Raise, Removed, NotRemoved, package, workflow, statuses,
              candidate
  <1>1. at \in Creating /\ at' \in Creating
    OBVIOUS
  <1>2. StageInv'
    BY <1>1 DEF StageInv
  <1>3. FailureInv'
    BY DEF FailureInv
  <1>4. PlaceInv' /\ DecisionInv'
    BY <1>1 DEF PlaceInv, DecisionInv
  <1>5. CandidateInv'
    BY DEF CandidateInv, StageInv
  <1>6. QED
    BY <1>2, <1>3, <1>4, <1>5

\* Building the package.
LEMMA BuildKeepsInv ==
  ASSUME IInv, Build, UNCHANGED workflow
  PROVE  IInv'
  <1> USE DEF IInv, Looks, Goto, Raise, workflow, statuses, candidate, Outside, Fails, FileCount
  <1>1. /\ at \in Packaging /\ at' \in Packaging
        /\ at \notin {"unsubmitted", "packageFailed"}
        /\ UNCHANGED <<dir, stage, refused, holds, approval, cleanup, failedIn>>
    BY DEF Build, ValidateRepositories, ListNames, Measure, Export, CheckValidation, Refusing,
       Write, WriteTo, Place, Abandon, Again, LookAgain, Verify, Discard
  <1>2. StageInv' /\ DecisionInv' /\ CandidateInv'
    BY <1>1 DEF StageInv, DecisionInv, CandidateInv
  <1>3. FailureInv' /\ PlaceInv'
    <2>1. CASE ValidateRepositories \/ ListNames \/ Measure \/ Export \/ CheckValidation
      BY <2>1 DEF ValidateRepositories, ListNames, Measure, Export, CheckValidation, Refusing,
         FailureInv, PlaceInv, package
    <2>2. CASE Write
      <3>1. files' \in 0..FileCount /\ place' \in {place, "temporary"}
        BY <2>2 DEF Write, WriteTo, PlaceInv
      <3>2. \/ at' = "abandon" /\ UNCHANGED <<place, files>>
            \/ at' = "place" /\ files' = FileCount /\ place' = "temporary" /\ UNCHANGED failure
            \/ at' = "write" /\ files' < FileCount /\ place' = "temporary" /\ UNCHANGED failure
        BY <2>2 DEF Write, WriteTo, PlaceInv
      <3>3. at = "write"
        BY <2>2 DEF Write, WriteTo
      <3>4. QED
        BY <3>1, <3>2, <3>3 DEF FailureInv, PlaceInv
    <2>3. CASE Place \/ Abandon
      BY <2>3 DEF Place, Abandon, FailureInv, PlaceInv
    <2>4. CASE Again \/ Verify
      BY <2>4 DEF Again, LookAgain, Verify, FailureInv, PlaceInv, package
    <2>5. CASE Discard
      BY <2>5 DEF Discard, FailureInv, PlaceInv
    <2>6. QED
      BY <2>1, <2>2, <2>3, <2>4, <2>5 DEF Build
  <1>4. QED
    BY <1>2, <1>3

\* The steps of start between its parts.
LEMMA StartKeepsInv ==
  ASSUME IInv, Start \/ CandidateReady \/ AgentRuns \/ Packaged
  PROVE  IInv'
  <1> USE LegalPaths DEF IInv, Move, Stay, Goto, Raise, workflow, statuses, candidate, package
  <1>1. CASE Start
    BY <1>1 DEF Start, StageInv, FailureInv, PlaceInv, DecisionInv, CandidateInv
  <1>2. CASE CandidateReady
    BY <1>2 DEF CandidateReady, StageInv, FailureInv, PlaceInv, DecisionInv, CandidateInv
  <1>3. CASE AgentRuns
    BY <1>3 DEF AgentRuns, StageInv, FailureInv, PlaceInv, DecisionInv, CandidateInv
  <1>4. CASE Packaged
    BY <1>4 DEF Packaged, StageInv, FailureInv, PlaceInv, DecisionInv, CandidateInv
  <1>5. QED
    BY <1>1, <1>2, <1>3, <1>4

LEMMA FailKeepsInv ==
  ASSUME IInv, Fail
  PROVE  IInv'
  <1> USE LegalPaths DEF IInv, Fail, FailMoving, CleansUp, Removed, NotRemoved, Move, Goto, package
  <1>1. /\ at' = "idle" /\ stage' = "failed" /\ ~refused'
        /\ UNCHANGED <<failure, holds, place, files>> /\ failedIn' = at
    BY DEF StageInv
  <1>2. StageInv' /\ FailureInv' /\ PlaceInv' /\ DecisionInv'
    BY <1>1 DEF StageInv, FailureInv, PlaceInv, DecisionInv
  <1>3. CandidateInv'
    BY <1>1 DEF StageInv, CandidateInv
  <1>4. QED
    BY <1>2, <1>3

\* The calls on a session that rests.
LEMMA CallsKeepInv ==
  ASSUME IInv,
         \/ DecisionFails \/ DecisionEscapes \/ Approve \/ Reject \/ Complete \/ Rollback
         \/ CleanupAgain
  PROVE  IInv'
  <1> USE LegalPaths DEF IInv, Awaits, Applied, Acts, Removed, NotRemoved, CleansUp, Move, Goto,
              Raise, workflow, statuses, candidate, package, workspaceVars
  <1>1. CASE DecisionFails \/ DecisionEscapes
    BY <1>1 DEF DecisionFails, DecisionEscapes, StageInv, FailureInv, PlaceInv, DecisionInv,
       CandidateInv
  <1>2. CASE Approve
    BY <1>2 DEF Approve, StageInv, FailureInv, PlaceInv, DecisionInv, CandidateInv
  <1>3. CASE Reject
    BY <1>3 DEF Reject, RejectAs, StageInv, FailureInv, PlaceInv, DecisionInv, CandidateInv
  <1>4. CASE Complete
    BY <1>4 DEF Complete, StageInv, FailureInv, PlaceInv, DecisionInv, CandidateInv
  <1>5. CASE Rollback
    <2>1. /\ UNCHANGED <<at, dir, approval, place, files, holds, cleanup>>
          /\ at = "idle" /\ stage = "applied"
      BY <1>5, Zenon DEF Rollback
    <2>2. \/ UNCHANGED <<stage, refused, failure, failedIn>>
          \/ Move(<<"failed">>) /\ failedIn' = "rollback" /\ failure' = "action"
          \/ Move(<<"rolled_back", "completed">>) /\ UNCHANGED <<failedIn, failure>>
      BY <1>5, Zenon DEF Rollback, Stay
    <2>3. QED
      BY <2>1, <2>2 DEF StageInv, FailureInv, PlaceInv, DecisionInv, CandidateInv
  <1>6. CASE CleanupAgain
    BY <1>6 DEF CleanupAgain, StageInv, FailureInv, PlaceInv, DecisionInv, CandidateInv
  <1>7. QED
    BY <1>1, <1>2, <1>3, <1>4, <1>5, <1>6

\* Persons and the operating system.
LEMMA OthersKeepInv ==
  ASSUME IInv, (Person /\ UNCHANGED <<package, workflow>>) \/ Kill
  PROVE  IInv'
  <1>1. CASE Person /\ UNCHANGED <<package, workflow>>
    <2>1. UNCHANGED <<at, dir, failure, package, workflow>>
      BY <1>1 DEF Person, EditSource, EditExtra, EditCandidate, candidate
    <2>2. QED
      BY <2>1 DEF IInv, StageInv, FailureInv, PlaceInv, DecisionInv, CandidateInv, package,
         workflow, statuses
  <1>2. CASE Kill
    BY <1>2 DEF Kill, Goto, IInv, StageInv, FailureInv, PlaceInv, DecisionInv, CandidateInv,
       package, workflow, statuses, candidate
  <1>3. QED
    BY <1>1, <1>2

LEMMA NextKeepsInv == IInv /\ [Next]_vars => IInv'
  <1> SUFFICES ASSUME IInv, [Next]_vars PROVE IInv' OBVIOUS
  <1>1. CASE Next
    BY <1>1, CreateKeepsInv, BuildKeepsInv, StartKeepsInv, FailKeepsInv, CallsKeepInv,
       OthersKeepInv DEF Next
  <1>2. CASE UNCHANGED vars
    BY <1>2 DEF vars, workspaceVars, package, workflow, statuses, candidate, IInv, StageInv,
                FailureInv, PlaceInv, DecisionInv, CandidateInv
  <1>3. QED
    BY <1>1, <1>2

LEMMA SpecInv == Spec => []IInv
  BY InitInv, NextKeepsInv, PTL DEF Spec

\* _transition: no call meets invalid_transition half-way.
THEOREM TransitionsAreLegal == Spec => []NoRefusedTransition
  <1>1. IInv => NoRefusedTransition
    BY DEF IInv, StageInv, NoRefusedTransition
  <1>2. QED
    BY <1>1, SpecInv, PTL

\* start, decide, complete, rollback, cleanup: outside a call a session is in no
\* stage in between; a pending one has its package intact and has not failed, a
\* decided one says how.
THEOREM SessionsRestDecidable == Spec => []RestsDecidable
  <1>1. IInv => RestsDecidable
    BY DEF IInv, StageInv, FailureInv, PlaceInv, DecisionInv, RestsDecidable, Whole
  <1>2. QED
    BY <1>1, SpecInv, PTL

\* _fail and _cleanup: a candidate that outlives its session is reported.
THEOREM LeftoversAreAlwaysReported == Spec => []LeftoversAreReported
  <1>1. IInv => LeftoversAreReported
    BY DEF IInv, CandidateInv, LeftoversAreReported
  <1>2. QED
    BY <1>1, SpecInv, PTL

\* _write_package: a package under its final name is complete, also after a kill.
THEOREM PlacedStaysWhole == Spec => []PlacedIsWhole
  <1>1. IInv => PlacedIsWhole
    BY DEF IInv, PlaceInv, PlacedIsWhole
  <1>2. QED
    BY <1>1, SpecInv, PTL

-----------------------------------------------------------------------------
(* Types *)

StagesAre ==
    Stages = {"created", "candidate_ready", "repair_finished", "approval_pending", "approved",
              "rejected", "applied", "rolled_back", "completed", "failed"}

LEMMA StageNames == StagesAre
  BY DEF StagesAre, Stages, Transitions, TransitionTable

LEMMA InitTypes == Init => TypeOK
  <1> SUFFICES ASSUME Init PROVE TypeOK OBVIOUS
  <1>1. Unchanged \in Trees
    BY DEF Unchanged, Trees, Contents
  <1>2. source \in Sources /\ snapshot \in Sources /\ extra \in BOOLEAN
    BY Zenon DEF Init, WorkspaceInit, Sources
  <1>3. session.validated \in Trees
    BY <1>1 DEF Init, PackageInit
  <1>4. QED
    BY <1>1, <1>2, <1>3, StageNames, EditsAssumption DEF StagesAre, Init, WorkspaceInit,
       PackageInit, TypeOK, FileCount

LEMMA CreateKeepsTypes ==
  ASSUME TypeOK, Create, UNCHANGED <<package, workflow>>
  PROVE  TypeOK'
  <1> USE DEF TypeOK, package, workflow, statuses, candidate, person
  <1>1. CASE SnapshotSource \/ Clone \/ Validate \/ Recheck
    BY <1>1 DEF SnapshotSource, Clone, Validate, Recheck, Looks
  <1>2. CASE Checkout
    <2>1. extra' \in BOOLEAN
      BY <1>2, Zenon DEF Checkout
    <2>2. Unchanged \in Trees
      BY DEF Unchanged, Trees, Contents
    <2>3. QED
      BY <1>2, <2>1, <2>2 DEF Checkout
  <1>3. CASE Undo
    BY <1>3 DEF Undo, UndoReporting, Removed, NotRemoved
  <1>4. QED
    BY <1>1, <1>2, <1>3 DEF Create

LEMMA BuildKeepsTypes ==
  ASSUME TypeOK, PlaceInv, Build, UNCHANGED workflow
  PROVE  TypeOK'
  <1> USE DEF TypeOK, Looks, workflow, statuses, candidate, person, package, Outside, Fails,
              FileCount
  <1>1. CASE ValidateRepositories \/ ListNames \/ Measure \/ Export \/ CheckValidation
    BY <1>1 DEF ValidateRepositories, ListNames, Measure, Export, CheckValidation, Refusing, Names
  <1>2. CASE Write
    BY <1>2 DEF Write, WriteTo, PlaceInv
  <1>3. CASE Place \/ Abandon \/ Discard
    BY <1>3 DEF Place, Abandon, Discard
  <1>4. CASE Again \/ Verify
    BY <1>4 DEF Again, LookAgain, Verify
  <1>5. QED
    BY <1>1, <1>2, <1>3, <1>4 DEF Build

\* What becomes of the source keeps its type.
LEMMA ChangedSource ==
  ASSUME NEW s \in Sources
  PROVE  [s EXCEPT !.clean = FALSE] \in Sources /\ [s EXCEPT !.clean = TRUE] \in Sources
  BY DEF Sources

LEMMA CallsKeepTypes ==
  ASSUME TypeOK, StageInv,
         \/ Start \/ CandidateReady \/ AgentRuns \/ Packaged \/ Fail
         \/ DecisionFails \/ DecisionEscapes \/ Approve \/ Reject \/ Complete \/ Rollback
         \/ CleanupAgain \/ Kill
  PROVE  TypeOK'
  <1> USE StageNames DEF StagesAre, TypeOK, Move, Stay, workflow, statuses, candidate, person,
          package, workspaceVars
  <1>1. CASE Start \/ Kill
    <2>1. UNCHANGED <<source, snapshot, candidate, person, package, workflow>>
      BY <1>1, Zenon DEF Start, Kill
    <2>2. QED
      BY <2>1
  <1>2. CASE CandidateReady \/ Packaged
    <2>1. stage' \in Stages
      BY <1>2 DEF CandidateReady, Packaged, StageInv
    <2>2. CASE CandidateReady
      BY <2>1, <2>2 DEF CandidateReady
    <2>3. CASE Packaged
      BY <2>1, <2>3 DEF Packaged
    <2>4. QED
      BY <1>2, <2>2, <2>3
  <1>3. CASE AgentRuns
    BY <1>3 DEF AgentRuns
  <1>4. CASE Fail \/ CleanupAgain
    <2>1. CASE Fail
      <3>1. CleansUp /\ (Move(<<"failed">>) \/ Stay)
            /\ UNCHANGED <<source, snapshot, tree, extra, person, package, holds,
                           approval, application, rollback>>
        BY <2>1 DEF Fail, FailMoving
      <3>2. stage' \in Stages
        BY <3>1
      <3>3. dir' \in {"none", "partial", "whole"}
            /\ cleanup' \in {"not_created", "pending", "cleaned", "failed"}
        BY <3>1 DEF CleansUp, Removed, NotRemoved
      <3>4. QED
        BY <3>1, <3>2, <3>3
    <2>2. CASE CleanupAgain
      BY <2>2 DEF CleanupAgain, CleansUp, Removed, NotRemoved
    <2>3. QED
      BY <1>4, <2>1, <2>2
  <1>5. CASE DecisionFails \/ DecisionEscapes
    <2>1. source' \in Sources
      BY <1>5, ChangedSource DEF DecisionFails, DecisionEscapes, SourceMayDiffer
    <2>2. dir' \in {"none", "partial", "whole"}
      BY <1>5 DEF DecisionFails, DecisionEscapes, Removed, NotRemoved
    <2>3. UNCHANGED <<snapshot, tree, extra, person, package, workflow>>
      BY <1>5, Zenon DEF DecisionFails, DecisionEscapes
    <2>4. QED
      BY <2>1, <2>2, <2>3
  <1>6. CASE Approve \/ Reject
    <2>1. source' \in Sources
      BY <1>6, ChangedSource DEF Approve, Reject, RejectAs
    <2>2. QED
      BY <1>6, <2>1 DEF Approve, Reject, RejectAs, Acts, Removed, NotRemoved
  <1>7. CASE Complete \/ Rollback
    <2>1. source' \in Sources
      BY <1>7, ChangedSource DEF Complete, Rollback
    <2>2. stage' \in Stages /\ rollback' \in {"not_requested", "rolled_back", "failed"}
      BY <1>7, Zenon DEF Complete, Rollback
    <2>3. UNCHANGED <<snapshot, candidate, person, package, holds, approval, application, cleanup>>
      BY <1>7, Zenon DEF Complete, Rollback
    <2>4. QED
      BY <2>1, <2>2, <2>3
  <1>8. QED
    BY <1>1, <1>2, <1>3, <1>4, <1>5, <1>6, <1>7

LEMMA PersonKeepsTypes ==
  ASSUME TypeOK, Person, UNCHANGED <<package, workflow>>
  PROVE  TypeOK'
  <1> USE DEF TypeOK, candidate, package, workflow, statuses
  <1>1. CASE EditSource
    BY <1>1, EditsAssumption DEF EditSource
  <1>2. CASE EditExtra
    <2>1. extra' \in BOOLEAN
      BY <1>2, Zenon DEF EditExtra
    <2>2. QED
      BY <1>2, <2>1, EditsAssumption DEF EditExtra
  <1>3. ASSUME NEW f \in Files, EditCandidate(f) PROVE TypeOK'
    BY <1>3, EditsAssumption DEF EditCandidate, Trees
  <1>4. QED
    BY <1>1, <1>2, <1>3 DEF Person

\* What the variables of a session, its candidate and its package may hold.
THEOREM TypeCorrect == Spec => []TypeOK
  <1>1. IInv /\ TypeOK /\ [Next]_vars => TypeOK'
    <2> SUFFICES ASSUME IInv, TypeOK, [Next]_vars PROVE TypeOK' OBVIOUS
    <2>1. CASE UNCHANGED vars
      BY <2>1 DEF vars, workspaceVars, candidate, person, package, workflow, statuses, TypeOK
    <2>2. CASE Next
      BY <2>2, CreateKeepsTypes, BuildKeepsTypes, CallsKeepTypes, PersonKeepsTypes DEF Next, IInv
    <2>3. QED
      BY <2>1, <2>2
  <1>2. QED
    BY <1>1, InitTypes, SpecInv, PTL DEF Spec

-----------------------------------------------------------------------------
(* What is offered for a decision *)

Offered == stage = "approval_pending"
Submitted == at \in Listing \cup {"write", "place"} \cup Checking \/ Offered
Seeing == at \in {"names", "measure", "export", "validation", "write", "place"} \cup Checking \/ Offered
Named == at \in {"measure", "export", "validation", "write", "place"} \cup Checking \/ Offered
Exported == at \in {"validation", "write", "place"} \cup Checking \/ Offered
Checked == at \in {"write", "place"} \cup Checking \/ Offered
Settled == at \in {"verify", "packaged"} \/ Offered

\* A person has changed every file in which the tree differs from the
\* validated one.
Differs(t) == \A f \in Files : t[f] # session.validated[f] => f \in touched

\* While there was one change at most, everything seen of the candidate is
\* from before it or from after it, and what was seen later is no older.
PatchInv ==
    /\ tree \in Trees /\ touches \in Nat
    /\ Submitted =>
          /\ session.changed = Names(session.validated)
          /\ Differs(tree)
          /\ touches = 0 => tree = session.validated
    /\ Seeing /\ touches < 2 => before.names \in {Names(session.validated), Names(tree)}
    /\ Named => names \subseteq Allowed
    /\ Named /\ touches < 2 => before.names = Names(session.validated) \/ names = Names(tree)
    /\ Exported => Differs(patch)
    /\ Exported /\ touches < 2 => patch \in {session.validated, tree}
    /\ Checked => session.sandboxed /\ session.changed = names
    /\ Settled /\ touches < 2 => Names(patch) = session.changed

Regions == Submitted \/ Seeing \/ Named \/ Exported \/ Checked \/ Settled

\* No step to where nothing is claimed can break it.
LEMMA NothingClaimed ==
  ASSUME tree' \in Trees, touches' \in Nat, ~Regions'
  PROVE  PatchInv'
  BY DEF PatchInv, Regions

LEMMA BuildKeepsPatch ==
  ASSUME IInv, PatchInv, Build, UNCHANGED workflow
  PROVE  PatchInv'
  <1> USE DEF PatchInv, Submitted, Seeing, Named, Exported, Checked, Settled, Offered, Differs,
              Looks, Goto, Raise, workflow, statuses, candidate, person, package, Outside, Fails
  <1>0. at \in Packaging /\ ~Offered /\ ~Offered'
    BY DEF IInv, StageInv, Build, ValidateRepositories, ListNames, Measure, Export,
       CheckValidation, Refusing, Write, WriteTo, Place, Abandon, Again, LookAgain, Verify, Discard
  <1>1. CASE ValidateRepositories
    BY <1>0, <1>1 DEF ValidateRepositories, Refusing, Seen, Names
  <1>2. CASE ListNames
    BY <1>0, <1>2 DEF ListNames, Refusing, Names
  <1>3. CASE Measure
    BY <1>0, <1>3 DEF Measure, Refusing, Names
  <1>4. CASE Export
    BY <1>0, <1>4 DEF Export, Refusing, Names
  <1>5. CASE CheckValidation
    BY <1>0, <1>5 DEF CheckValidation, Refusing, Names
  <1>6. CASE Write
    BY <1>0, <1>6 DEF Write, WriteTo, Names
  <1>7. CASE Place
    BY <1>0, <1>7 DEF Place, Names
  <1>8. CASE Abandon \/ Discard
    BY <1>0, <1>8 DEF Abandon, Discard, Names
  <1>9. CASE Again
    BY <1>0, <1>9 DEF Again, LookAgain, Seen, Names
  <1>10. CASE Verify
    BY <1>0, <1>10 DEF Verify, Names
  <1>11. QED
    BY <1>1, <1>2, <1>3, <1>4, <1>5, <1>6, <1>7, <1>8, <1>9, <1>10 DEF Build

LEMMA PersonKeepsPatch ==
  ASSUME IInv, PatchInv, Person, UNCHANGED <<package, workflow>>
  PROVE  PatchInv'
  <1> USE DEF PatchInv, Submitted, Seeing, Named, Exported, Checked, Settled, Offered, Differs,
              workflow, statuses, candidate, package
  <1>1. CASE EditSource \/ EditExtra
    BY <1>1 DEF EditSource, EditExtra, Names
  <1>2. ASSUME NEW f \in Files, EditCandidate(f) PROVE PatchInv'
    <2>1. /\ tree' \in Trees /\ touched' = touched \cup {f}
          /\ touches' = touches + 1
          /\ \A g \in Files \ {f} : tree'[g] = tree[g]
          /\ UNCHANGED <<at, session, before, names, patch, stage>>
      BY <1>2 DEF EditCandidate, Trees
    <2>2. touches' < 2 => touches = 0
      BY <2>1
    <2>3. Submitted => Differs(tree)'
      BY <2>1
    <2>4. QED
      BY <2>1, <2>2, <2>3 DEF Names
  <1>3. QED
    BY <1>1, <1>2 DEF Person

\* A step that leaves the candidate's tree and what was seen of it alone.
LEMMA SameKeepsPatch ==
  ASSUME PatchInv, UNCHANGED <<tree, touched, touches, session, before, names, patch>>,
         Submitted' => Submitted, Seeing' => Seeing, Named' => Named, Exported' => Exported,
         Checked' => Checked, Settled' => Settled
  PROVE  PatchInv'
  BY DEF PatchInv, Differs, Names

\* All but building the package and persons.
LEMMA OthersKeepPatch ==
  ASSUME IInv, IInv', PatchInv,
         \/ Create /\ UNCHANGED <<package, workflow>>
         \/ Start \/ CandidateReady \/ AgentRuns \/ Packaged \/ Fail
         \/ DecisionFails \/ DecisionEscapes \/ Approve \/ Reject \/ Complete \/ Rollback
         \/ CleanupAgain \/ Kill
  PROVE  PatchInv'
  <1> USE DEF Regions, Submitted, Seeing, Named, Exported, Checked, Settled, Offered, person,
              candidate, package, workflow, statuses, workspaceVars, Goto, Raise, Stay
  <1>1. CASE Create /\ UNCHANGED <<package, workflow>>
    <2>1. at' \in Creating /\ stage' = "created"
      BY <1>1 DEF Create, SnapshotSource, Clone, Checkout, Validate, Recheck, Undo,
         UndoReporting, Looks, IInv, StageInv
    <2>2. Unchanged \in Trees
      BY DEF Unchanged, Trees, Contents
    <2>3. tree' \in Trees /\ touches' \in Nat
      BY <1>1, <2>2 DEF Create, SnapshotSource, Clone, Checkout, Validate, Recheck, Undo,
         UndoReporting, Looks, PatchInv
    <2>4. QED
      BY <2>1, <2>3, NothingClaimed
  <1>2. CASE AgentRuns
    <2>1. tree' \in Trees /\ touches' = 0 /\ touched' = {}
      BY <1>2 DEF AgentRuns
    <2>2. CASE at' # "repositories"
      <3>1. ~Regions'
        BY <1>2, <2>2, LegalPaths DEF AgentRuns, Move, IInv, StageInv
      <3>2. QED
        BY <2>1, <3>1, NothingClaimed
    <2>3. CASE at' = "repositories"
      <3>1. session'.validated = tree' /\ session'.changed = Names(tree')
        BY <1>2, <2>3 DEF AgentRuns
      <3>2. stage' # "approval_pending"
        BY <2>3 DEF IInv, StageInv
      <3>3. QED
        BY <2>1, <2>3, <3>1, <3>2 DEF PatchInv, Differs, Names
    <2>4. QED
      BY <2>2, <2>3
  <1>3. CASE Start \/ CandidateReady \/ CleanupAgain \/ Complete \/ Kill
    BY <1>3, SameKeepsPatch, LegalPaths DEF Start, CandidateReady, CleanupAgain, Complete, Kill,
       Applied, Move, IInv, StageInv
  <1>4. CASE Packaged
    BY <1>4, SameKeepsPatch, LegalPaths DEF Packaged, Move, IInv, StageInv
  <1>5. CASE Fail
    BY <1>5, SameKeepsPatch, LegalPaths DEF Fail, FailMoving, Move, IInv, StageInv
  <1>6. CASE DecisionFails \/ DecisionEscapes \/ Rollback
    BY <1>6, SameKeepsPatch, LegalPaths DEF DecisionFails, DecisionEscapes, Rollback, Applied,
       Move, IInv, StageInv
  <1>7. CASE Approve \/ Reject
    BY <1>7, SameKeepsPatch, LegalPaths DEF Approve, Reject, RejectAs, Acts, Awaits, Move, IInv, StageInv
  <1>8. QED
    BY <1>1, <1>2, <1>3, <1>4, <1>5, <1>6, <1>7

\* create of the package: off the files persons changed in the candidate, what a
\* person is asked to decide about is what was validated; with fewer than two
\* such changes it names the files that were validated.
THEOREM OfferedIsValidated == Spec => []PackageIsWhatWasValidated
  <1>1. Init => PatchInv
    <2> SUFFICES ASSUME Init PROVE PatchInv OBVIOUS
    <2>1. tree \in Trees /\ touches \in Nat
      BY DEF Init, WorkspaceInit, Unchanged, Trees, Contents
    <2>2. at = "idle" /\ stage = "created"
      BY DEF Init, WorkspaceInit
    <2>3. QED
      BY <2>1, <2>2 DEF PatchInv, Submitted, Seeing, Named, Exported, Checked, Settled, Offered
  <1>2. IInv /\ PatchInv /\ [Next]_vars => PatchInv'
    <2> SUFFICES ASSUME IInv, PatchInv, [Next]_vars PROVE PatchInv' OBVIOUS
    <2>1. IInv'
      BY NextKeepsInv
    <2>2. CASE UNCHANGED vars
      BY <2>2, SameKeepsPatch DEF vars, workspaceVars, candidate, person, package, workflow,
         Submitted, Seeing, Named, Exported, Checked, Settled, Offered
    <2>3. CASE Next
      BY <2>1, <2>3, BuildKeepsPatch, PersonKeepsPatch, OthersKeepPatch DEF Next
    <2>4. QED
      BY <2>2, <2>3
  <1>3. PatchInv => PackageIsWhatWasValidated
    BY DEF PatchInv, PackageIsWhatWasValidated, Submitted, Named, Exported, Checked, Settled,
       Offered, Differs
  <1>4. QED
    BY <1>1, <1>2, <1>3, SpecInv, PTL DEF Spec

-----------------------------------------------------------------------------
(* The session as its user sees it *)

Reports(a, b, c) == approval = a /\ application = b /\ rollback = c

\* What is reported while a session can still go on.
ReportInv ==
    /\ stage \in {"created", "candidate_ready", "repair_finished"} =>
          Reports("not_created", "not_applied", "not_requested")
    /\ stage = "approval_pending" => Reports("pending", "not_applied", "not_requested")
    /\ stage = "applied" => Reports("approved", "applied", "not_requested")

view == <<Phase, OfferedPatch, Report>>

\* No call is refused a transition.
Smooth == ~refused /\ ~refused'

ReviewStep == [Review!ReviewNext]_view

LEMMA ReportIs ==
  /\ Report = Review!Says(approval, application, rollback)
  /\ Report' = Review!Says(approval', application', rollback')
  BY DEF Report, Review!Says

PhasesAre ==
  /\ \A s \in {"created", "candidate_ready", "repair_finished"} : PhaseOf[s] = "working"
  /\ PhaseOf["approval_pending"] = "offered" /\ PhaseOf["applied"] = "applied"
  /\ PhaseOf["completed"] = "closed" /\ PhaseOf["failed"] = "failed"

LEMMA Phases ==
  ASSUME Smooth
  PROVE  /\ Phase = PhaseOf[stage] /\ Phase' = PhaseOf[stage']
         /\ PhasesAre
  BY DEF Smooth, Phase, PhasesAre, PhaseOf

\* A step its user cannot see.
LEMMA Unseen ==
  ASSUME Smooth, UNCHANGED <<approval, application, rollback>>,
         approval = "not_created" \/ UNCHANGED patch,
         PhaseOf[stage'] = PhaseOf[stage]
  PROVE  ReviewStep
  BY Phases DEF ReviewStep, view, OfferedPatch, Report

LEMMA WorkIsUnseen ==
  ASSUME IInv, ReportInv, Smooth,
         \/ Create /\ UNCHANGED <<package, workflow>>
         \/ Build /\ UNCHANGED workflow
         \/ Start \/ CandidateReady \/ AgentRuns
         \/ DecisionFails \/ DecisionEscapes \/ CleanupAgain \/ Kill
         \/ Person /\ UNCHANGED <<package, workflow>>
         \/ UNCHANGED vars
  PROVE  ReviewStep /\ ReportInv'
  <1> USE DEF workflow, statuses, package, Reports
  <1>1. CASE \/ Create /\ UNCHANGED <<package, workflow>>
             \/ Start \/ DecisionFails \/ DecisionEscapes \/ CleanupAgain \/ Kill
             \/ Person /\ UNCHANGED <<package, workflow>>
             \/ UNCHANGED vars
    <2>1. UNCHANGED <<approval, application, rollback, patch, stage>>
      BY <1>1 DEF Start, DecisionFails, DecisionEscapes, CleanupAgain, Kill, vars
    <2>2. QED
      BY <2>1, Unseen DEF ReportInv
  <1>2. CASE Build /\ UNCHANGED workflow
    <2>1. stage = "repair_finished"
      BY <1>2 DEF IInv, StageInv, Build, ValidateRepositories, ListNames, Measure, Export,
         CheckValidation, Refusing, Looks, Write, WriteTo, Fails, Place, Abandon, Again, LookAgain,
         Verify, Discard
    <2>2. QED
      BY <1>2, <2>1, Unseen DEF ReportInv
  <1>3. CASE CandidateReady \/ AgentRuns
    <2>1. /\ UNCHANGED <<approval, application, rollback, patch>>
          /\ stage \in {"created", "candidate_ready"}
          /\ stage' \in {"candidate_ready", "repair_finished"}
      BY <1>3, LegalPaths DEF CandidateReady, AgentRuns, Move, Stay, IInv, StageInv
    <2>2. QED
      BY <2>1, Phases, Unseen DEF PhasesAre, ReportInv
  <1>4. QED
    BY <1>1, <1>2, <1>3

LEMMA PackagedOffers ==
  ASSUME IInv, ReportInv, Smooth, patch \in Trees, Packaged
  PROVE  ReviewStep /\ ReportInv'
  <1>1. /\ stage = "repair_finished" /\ UNCHANGED <<patch, application, rollback>>
        /\ Reports("not_created", "not_applied", "not_requested")
    BY DEF Packaged, package, IInv, StageInv, ReportInv
  <1>2. CASE approval' = "pending" /\ Move(<<"approval_pending">>)
    <2>1. stage' = "approval_pending"
      BY <1>1, <1>2, LegalPaths DEF Move
    <2>2. Review!Offer(patch)
      BY <1>1, <1>2, <2>1, Phases, ReportIs DEF PhasesAre, Review!Offer, Review!From, OfferedPatch, Reports
    <2>3. ReportInv'
      BY <1>1, <1>2, <2>1 DEF ReportInv, Reports
    <2>4. QED
      BY <2>2, <2>3 DEF ReviewStep, Review!ReviewNext
  <1>3. CASE UNCHANGED <<stage, approval>>
    BY <1>1, <1>3, Unseen DEF ReportInv, Reports
  <1>4. QED
    BY <1>2, <1>3 DEF Packaged, Stay

LEMMA FailGivesUp ==
  ASSUME IInv, ReportInv, Smooth, Fail
  PROVE  ReviewStep /\ ReportInv'
  <1>1. /\ stage \in {"created", "candidate_ready", "repair_finished", "approval_pending"}
        /\ stage' = "failed" /\ UNCHANGED <<patch, approval, application, rollback>>
    BY LegalPaths DEF Fail, FailMoving, Move, IInv, StageInv, package
  <1>2. UNCHANGED <<OfferedPatch, Report>>
    BY <1>1 DEF OfferedPatch, Report
  <1>3. Review!GiveUp
    BY <1>1, <1>2, Phases DEF PhasesAre, Review!GiveUp, Review!From
  <1>4. QED
    BY <1>1, <1>3 DEF ReviewStep, Review!ReviewNext, ReportInv

LEMMA DecisionsAreSeen ==
  ASSUME IInv, ReportInv, Smooth, Approve \/ Reject
  PROVE  ReviewStep /\ ReportInv'
  <1>1. /\ stage = "approval_pending" /\ UNCHANGED <<patch, rollback>>
        /\ Reports("pending", "not_applied", "not_requested")
    BY DEF Approve, Reject, RejectAs, Acts, Awaits, package, ReportInv
  <1>2. \/ approval' = "approved" /\ application' = "applied" /\ stage' = "applied"
        \/ approval' = "rejected" /\ application' = application /\ stage' = "completed"
    BY <1>1, LegalPaths DEF Approve, Reject, RejectAs, Move
  <1>3. OfferedPatch' = OfferedPatch
    BY <1>1, <1>2 DEF OfferedPatch, Reports
  <1>4. Review!Decide
    BY <1>1, <1>2, <1>3, Phases, ReportIs DEF PhasesAre, Review!Decide, Review!From, Reports
  <1>5. QED
    BY <1>1, <1>2, <1>4 DEF ReviewStep, Review!ReviewNext, ReportInv, Reports

LEMMA EndsAreSeen ==
  ASSUME IInv, ReportInv, Smooth, Complete \/ Rollback
  PROVE  ReviewStep /\ ReportInv'
  <1>1. /\ stage = "applied" /\ UNCHANGED <<patch, approval, application>>
        /\ Reports("approved", "applied", "not_requested")
    BY DEF Complete, Rollback, Applied, package, statuses, ReportInv
  <1>2. OfferedPatch' = OfferedPatch
    BY <1>1 DEF OfferedPatch
  <1>3. CASE Complete
    <2>1. stage' = "completed" /\ rollback' = rollback
      BY <1>1, <1>3, LegalPaths DEF Complete, Move, statuses
    <2>2. Review!Keep
      BY <1>1, <1>2, <2>1, Phases, ReportIs DEF PhasesAre, Review!Keep, Review!From
    <2>3. QED
      BY <2>1, <2>2 DEF ReviewStep, Review!ReviewNext, ReportInv
  <1>4. CASE Rollback
    <2>1. \/ stage' = "completed" /\ rollback' = "rolled_back"
          \/ stage' = "failed" /\ rollback' = "failed"
          \/ UNCHANGED <<stage, refused, rollback>>
      BY <1>1, <1>4, LegalPaths DEF Rollback, Move, Stay
    <2>2. CASE UNCHANGED <<stage, refused, rollback>>
      <3>1. UNCHANGED view
        BY <1>1, <1>2, <2>2 DEF view, Phase, Report
      <3>2. QED
        BY <1>1, <2>2, <3>1 DEF ReviewStep, ReportInv, Reports
    <2>3. CASE stage' \in {"completed", "failed"} /\ ~(stage' = stage)
      <3>1. Review!TakeBack
        BY <1>1, <1>2, <2>1, <2>3, Phases, ReportIs DEF PhasesAre, Review!TakeBack, Review!From, Reports
      <3>2. QED
        BY <2>3, <3>1 DEF ReviewStep, Review!ReviewNext, ReportInv
    <2>4. QED
      BY <1>1, <2>1, <2>2, <2>3
  <1>5. QED
    BY <1>3, <1>4

\* start, decide, rollback, complete and cleanup, in any order and with any of
\* their failures, kills and edits: to its user a session is one offer, one
\* decision, at most one rollback of what was applied, and then the end.
THEOREM WorkflowIsReviewedRepair == Spec => ImplementsReview
  <1>1. Init => Review!ReviewInit
    BY ReportIs DEF Init, Review!ReviewInit, OfferedPatch, Phase, PhaseOf
  <1>2. Init => ReportInv
    BY DEF Init, ReportInv, Reports
  <1>3. IInv /\ TypeOK /\ ReportInv /\ [Next]_vars => ReviewStep /\ ReportInv'
    <2> SUFFICES ASSUME IInv, TypeOK, ReportInv, [Next]_vars PROVE ReviewStep /\ ReportInv'
      OBVIOUS
    <2>1. patch \in Trees
      BY DEF TypeOK
    <2>2. Smooth
      BY NextKeepsInv DEF IInv, StageInv, Smooth
    <2>3. QED
      BY <2>1, <2>2, WorkIsUnseen, PackagedOffers, FailGivesUp, DecisionsAreSeen, EndsAreSeen DEF Next
  <1>4. ReviewStep <=> [Review!ReviewNext]_Review!reviewVars
    BY DEF ReviewStep, view, Review!reviewVars
  <1>5. QED
    BY <1>1, <1>2, <1>3, <1>4, SpecInv, TypeCorrect, PTL
       DEF Spec, ImplementsReview, Review!ReviewSpec

=============================================================================
