-------------------------- MODULE ResultPublication --------------------------
(***************************************************************************)
(* Publishing one result directory: publish_result_bundle of               *)
(* security/result_publication.py, and the two readers that judge by the   *)
(* files it leaves, read_publication_state and attempt_status.             *)
(*                                                                         *)
(* Several processes may publish to the same directory (two prepare        *)
(* commands with one --output-dir), and others inspect it meanwhile.  A    *)
(* step is one file operation; any of them may fail, and a process may be  *)
(* killed between any two.  Nobody else touches the files.                 *)
(***************************************************************************)
EXTENDS FiniteSets, Naturals

CONSTANTS Publishers,  \* processes, each publishing one bundle
          Readers,     \* processes inspecting the result
          NoResult,    \* no result directory
          MaxReads     \* bound on the inspections

ASSUME NoResultAssumption == NoResult \notin Publishers
ASSUME BoundAssumption == MaxReads \in Nat

Markers == {"none", "partial", "publishing", "failed"}
Steps == {"check", "checkState", "create", "write", "recheck", "replace", "acl",
          "verify", "unlink", "quarantine", "mark", "done", "refused", "failed",
          "killed"}
Reports == {"nothing", "incomplete", "published", "unpublished"}

VARIABLES destination, \* whose bundle is at the destination
          intact,      \* the bundle there can be read and matches its manifest
          marker,      \* the publication state file beside it
          at,          \* per publisher, its next step
          moved,       \* per publisher: published, its bundle went in place
          looked,      \* per reader: it found no marker and looks on
          report,      \* per reader, attempt_status's last answer
          reads        \* bound

files == <<destination, intact, marker>>
reader == <<looked, report, reads>>
vars == <<files, at, moved, reader>>

-----------------------------------------------------------------------------
(* Publishing *)

Goto(p, step) == at' = [at EXCEPT ![p] = step]

\* A check made on the way in: another result or another marker refuses.
Checks(p, step, free, next) ==
    /\ at[p] = step
    /\ Goto(p, IF free THEN next ELSE "refused")
    /\ UNCHANGED <<files, moved, reader>>

Check(p) == Checks(p, "check", destination = NoResult, "checkState")

CheckState(p) == Checks(p, "checkState", marker = "none", "create")

CreateIf(p, free) ==
    /\ at[p] = "create"
    /\ \/ free /\ marker' = "partial" /\ Goto(p, "write")
       \/ UNCHANGED marker /\ Goto(p, "refused")
    /\ UNCHANGED <<destination, intact, moved, reader>>

\* Mutant: the marker is opened for writing, whoever made it.
CreateShared(p) == CreateIf(p, TRUE)

\* open("x"): only one process creates the marker.
Create(p) == CreateIf(p, marker = "none")

\* The content goes to the file that was created, even when a late failure
\* has put its own marker in place of it.  An error here is outside the try:
\* the marker stays as it is.
Write(p) ==
    /\ at[p] = "write"
    /\ \/ /\ marker' = IF marker = "partial" THEN "publishing" ELSE marker
          /\ Goto(p, "recheck")
       \/ UNCHANGED marker /\ Goto(p, "refused")
    /\ UNCHANGED <<destination, intact, moved, reader>>

\* Mutant: a failed publication quarantines whatever is at the destination.
FailureOfAny(p) == Goto(p, "quarantine")

\* Any exception in the try: quarantine what was moved, then mark the failure.
Failure(p) == Goto(p, IF moved[p] THEN "quarantine" ELSE "mark")

Recheck(p) ==
    /\ at[p] = "recheck"
    /\ \/ destination = NoResult /\ Goto(p, "replace")
       \/ Failure(p)
    /\ UNCHANGED <<files, moved, reader>>

\* os.replace refuses a directory that is in the way.  The bundle keeps the
\* access rights of its temporary directory, so it may not be readable yet.
\* Interrupted before it was noted, a bundle in place is not quarantined.
Replace(p) ==
    /\ at[p] = "replace"
    /\ \/ /\ destination = NoResult
          /\ destination' = p
          /\ intact' \in BOOLEAN
          /\ \/ moved' = [moved EXCEPT ![p] = TRUE] /\ Goto(p, "acl")
             \/ UNCHANGED moved /\ Goto(p, "mark")
       \/ UNCHANGED <<destination, intact, moved>> /\ Failure(p)
    /\ UNCHANGED <<marker, reader>>

RestoreAcl(p) ==
    /\ at[p] = "acl"
    /\ \/ intact' \in {intact, TRUE} /\ Goto(p, "verify")
       \/ UNCHANGED intact /\ Failure(p)
    /\ UNCHANGED <<destination, marker, moved, reader>>

VerifyIf(p, passes) ==
    /\ at[p] = "verify"
    /\ \/ passes /\ Goto(p, "unlink")
       \/ Failure(p)
    /\ UNCHANGED <<files, moved, reader>>

\* Mutant: the exit status of icacls is proof enough.
VerifyNothing(p) == VerifyIf(p, TRUE)

\* verify_published_result reads every file again and compares its hash.
Verify(p) == VerifyIf(p, intact)

\* Removing the marker succeeds, fails, or is interrupted (BaseException)
\* after it succeeded.
Unlink(p) ==
    /\ at[p] = "unlink"
    /\ \/ marker' = "none" /\ (Goto(p, "done") \/ Failure(p))
       \/ UNCHANGED marker /\ Failure(p)
    /\ UNCHANGED <<destination, intact, moved, reader>>

\* Moving the bundle away may fail; it then stays under the marker.
Quarantine(p) ==
    /\ at[p] = "quarantine"
    /\ destination' \in {destination, NoResult}
    /\ Goto(p, "mark")
    /\ UNCHANGED <<intact, marker, moved, reader>>

MarkAs(p, state) ==
    /\ at[p] = "mark"
    /\ marker' \in {marker, state}
    /\ Goto(p, "failed")
    /\ UNCHANGED <<destination, intact, moved, reader>>

\* Mutant: the error's code is stored where the state belongs.
MarkCode(p) == MarkAs(p, "result_exists")

\* Mutant: a failed publication clears its marker away.
MarkCleared(p) == MarkAs(p, "none")

\* The marker is replaced as a whole; failing that, it stays.
Mark(p) == MarkAs(p, "failed")

Ended == {"done", "refused", "failed", "killed"}

Kill(p) ==
    /\ at[p] \notin Ended
    /\ Goto(p, "killed")
    /\ UNCHANGED <<files, moved, reader>>

-----------------------------------------------------------------------------
(* Inspecting: attempt_status *)

\* read_publication_state: any marker, readable or not, means incomplete.
ReadMarker(r) ==
    /\ ~looked[r]
    /\ reads < MaxReads
    /\ reads' = reads + 1
    /\ IF marker = "none"
       THEN looked' = [looked EXCEPT ![r] = TRUE] /\ UNCHANGED report
       ELSE report' = [report EXCEPT ![r] = "incomplete"] /\ UNCHANGED looked
    /\ UNCHANGED <<files, at, moved>>

\* The summary is looked for afterwards, without another look at the marker;
\* in a bundle that is not intact it may be found or not.
ReadSummary(r) ==
    /\ looked[r]
    /\ looked' = [looked EXCEPT ![r] = FALSE]
    /\ \E answer \in IF destination = NoResult THEN {"unpublished"}
                     ELSE IF intact THEN {"published"}
                     ELSE {"published", "incomplete"} :
          report' = [report EXCEPT ![r] = answer]
    /\ UNCHANGED <<files, at, moved, reads>>

Init ==
    /\ destination = NoResult
    /\ intact = FALSE
    /\ marker = "none"
    /\ at = [p \in Publishers |-> "check"]
    /\ moved = [p \in Publishers |-> FALSE]
    /\ looked = [r \in Readers |-> FALSE]
    /\ report = [r \in Readers |-> "nothing"]
    /\ reads = 0

Publish(p) ==
    \/ Check(p) \/ CheckState(p) \/ Create(p) \/ Write(p) \/ Recheck(p)
    \/ Replace(p) \/ RestoreAcl(p) \/ Verify(p) \/ Unlink(p)
    \/ Quarantine(p) \/ Mark(p)

Next ==
    \/ \E p \in Publishers : Publish(p) \/ Kill(p)
    \/ \E r \in Readers : ReadMarker(r) \/ ReadSummary(r)

Spec == Init /\ [][Next]_vars

-----------------------------------------------------------------------------
(* Properties *)

\* The values the variables may take.
TypeOK ==
    /\ destination \in Publishers \cup {NoResult}
    /\ intact \in BOOLEAN
    /\ marker \in Markers
    /\ at \in [Publishers -> Steps]
    /\ moved \in [Publishers -> BOOLEAN]
    /\ looked \in [Readers -> BOOLEAN]
    /\ report \in [Readers -> Reports]
    /\ reads \in 0..MaxReads

\* What lies at the destination without a marker was read back and found
\* intact, whoever failed, was killed or lost a race before
\* (docs/architecture.md, section 13).
UnmarkedIsIntact == destination # NoResult /\ marker = "none" => intact

\* publish_result_bundle returns only for the bundle that is at the destination,
\* and nothing another publisher does afterwards removes or replaces it.
ReturnedIsKept ==
    \A p \in Publishers : at[p] = "done" => destination = p /\ intact

\* The bundle that can be read, what is in sight of attempt_status, and the
\* publications that returned.
Placed == {destination} \ {NoResult}
Kept == IF intact THEN Placed ELSE {}
Shown == IF marker = "none" THEN Placed ELSE {}
Returned == {p \in Publishers : at[p] = "done"}

Atomic == INSTANCE AtomicPublication WITH
    Bundles <- Publishers, kept <- Kept, shown <- Shown, returned <- Returned

\* Six file operations of each of several publishers, any of which may fail, are
\* one act: only a bundle that was read back intact comes in sight, and as a
\* whole; one publication returns at most, its bundle stays, and no step of a
\* late or failing publisher brings anything in sight after it, nor back once
\* it was hidden.
ImplementsPublication == Atomic!PublicationSpec

\* An inspection never takes a bundle that is not intact for a result: it
\* "does not take an unreadable result for complete evidence"
\* (docs/architecture.md, section 13).
NoBrokenEvidence ==
    [][\A r \in Readers :
         looked[r] /\ ~looked'[r] /\ report'[r] = "published" => intact]_vars

=============================================================================
