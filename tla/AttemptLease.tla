----------------------------- MODULE AttemptLease -----------------------------
(***************************************************************************)
(* The one attempt at a task: run_baseline of run_task_baseline.py with    *)
(* its lease, and attempt_status, by which a run decides whether it may    *)
(* start and by which inspect and preflight report.                        *)
(*                                                                         *)
(* Every command is a process of its own over one runtime and one result   *)
(* directory.  A step is one file operation, any of them may fail, and a   *)
(* process may be killed between any two.  Publishing is reduced to what   *)
(* ResultPublication leaves behind.                                        *)
(***************************************************************************)

CONSTANTS Runs,    \* commands run
          Viewers, \* commands inspect and preflight
          Old      \* a session from before there were leases

ASSUME CommandAssumption == Runs \cap Viewers = {} /\ Old \notin Runs

Commands == Runs \cup Viewers
Sessions == Runs \cup {Old}

Records == {"none", "torn", "whole"}   \* a file: absent, half written, whole
Results == {"none", "marked", "published", "quarantined"}
Answers == {"nothing", "notStarted", "legacy", "recordInvalid", "leaseInvalid",
            "leaseAcquired", "completed", "incomplete", "published"}
Looks == {"marker", "result", "lease", "readLease", "sessions", "legacy"}
Works == {"stamp", "preflight", "prepare", "agent", "judge", "record",
          "publish", "verify"}
Steps == {"idle", "acquire", "ended", "killed"} \cup Looks \cup Works

VARIABLES lease,    \* lease directory and lease.json as one record
          attempt,  \* per session, attempt.json
          recorded, \* sessions with a session.json
          result,   \* what publication left
          at,       \* per command, its next step
          kept,     \* runs whose trajectory holds an assistant message
          told,     \* per command, what attempt_status answered it
          tries,    \* ghost: runs that went to work under the lease
          known,    \* ghost: some command was told that the task may not run
          since     \* ghost: commands begun after that, or after a run went to work

files == <<lease, attempt, recorded, result>>
ghosts == <<tries, known, since>>
vars == <<files, at, kept, told, ghosts>>

Goto(c, step) == at' = [at EXCEPT ![c] = step]

-----------------------------------------------------------------------------
(* attempt_status, look by look *)

Begin(c) ==
    /\ at[c] = "idle"
    /\ Goto(c, "marker")
    /\ since' = IF known \/ tries # {} THEN since \cup {c} ELSE since
    /\ UNCHANGED <<files, kept, told, tries, known>>

\* The answer: only a run that may start goes on.
Report(c, answer) ==
    /\ told' = [told EXCEPT ![c] = answer]
    /\ known' = (known \/ answer # "notStarted")
    /\ Goto(c, IF c \in Runs /\ answer = "notStarted" THEN "acquire" ELSE "ended")

LookOn(c, step) == Goto(c, step) /\ UNCHANGED <<told, known>>

Looking(c, step) ==
    at[c] = step /\ UNCHANGED <<files, kept, tries, since>>

LookMarker(c) ==
    /\ Looking(c, "marker")
    /\ IF result = "marked" THEN Report(c, "incomplete") ELSE LookOn(c, "result")

\* A bundle may be in place already, or still, while the marker is there.
LookResult(c) ==
    /\ Looking(c, "result")
    /\ \/ result \in {"marked", "published"} /\ Report(c, "published")
       \/ result = "marked" /\ Report(c, "incomplete")
       \/ result # "published" /\ LookOn(c, "lease")

LookLease(c) ==
    /\ Looking(c, "lease")
    /\ LookOn(c, IF lease = "none" THEN "legacy" ELSE "readLease")

ReadLeaseOr(c, refusal) ==
    /\ Looking(c, "readLease")
    /\ IF lease = "whole" THEN LookOn(c, "sessions") ELSE Report(c, refusal)

\* Mutant: the code of the error stands in place of a state.
ReadLeaseCode(c) == ReadLeaseOr(c, "attemptLeaseInvalid")

ReadLease(c) == ReadLeaseOr(c, "leaseInvalid")

LookSessions(c) ==
    /\ Looking(c, "sessions")
    /\ Report(c, IF recorded # {} THEN "completed" ELSE "leaseAcquired")

\* An unreadable record of any attempt raises.
LookLegacy(c) ==
    /\ Looking(c, "legacy")
    /\ LET seen == {attempt[s] : s \in Sessions}
       IN  Report(c, IF "torn" \in seen THEN "recordInvalid"
                     ELSE IF "whole" \in seen THEN "legacy"
                     ELSE "notStarted")

-----------------------------------------------------------------------------
(* The lease *)

AcquireIf(r, free) ==
    /\ at[r] = "acquire"
    /\ \/ free /\ lease' = (IF lease = "none" THEN "torn" ELSE lease) /\ Goto(r, "stamp")
       \/ UNCHANGED lease /\ Goto(r, "ended")
    /\ UNCHANGED <<attempt, recorded, result, kept, told, ghosts>>

\* Mutant: mkdir(exist_ok=True) after a look at the directory.
AcquireShared(r) == AcquireIf(r, TRUE)

\* mkdir: of several runs one makes the directory, the others are refused.
Acquire(r) == AcquireIf(r, lease = "none")

\* Mutant: a run that fails gives its lease back.
EndReleasing(r) == Goto(r, "ended") /\ lease' = "none"

\* Whatever ends a run, its lease stays as it is.
End(r) == Goto(r, "ended") /\ UNCHANGED lease

\* lease.json is written into the directory that exists already.
Stamp(r) ==
    /\ at[r] = "stamp"
    /\ \/ lease' = "whole" /\ Goto(r, "preflight")
       \/ End(r)
    /\ UNCHANGED <<attempt, recorded, result, kept, told, ghosts>>

-----------------------------------------------------------------------------
(* The attempt *)

Preflight(r) ==
    /\ at[r] = "preflight"
    /\ tries' = tries \cup {r}
    /\ \/ Goto(r, "prepare") /\ UNCHANGED lease
       \/ End(r)
    /\ UNCHANGED <<attempt, recorded, result, kept, told, known, since>>

PrepareWith(r, records) ==
    /\ at[r] = "prepare"
    /\ \/ recorded' = recorded \cup records /\ Goto(r, "agent") /\ UNCHANGED lease
       \/ UNCHANGED recorded /\ End(r)
    /\ UNCHANGED <<attempt, result, kept, told, ghosts>>

\* Mutant: session.json is written with the session's directories.
PrepareRecording(r) == PrepareWith(r, {r})

\* The retry configuration, the protocol, the session's directories and the
\* copy of the source.
Prepare(r) == PrepareWith(r, {})

\* An answer of the provider.  The first one leaves attempt.json; when that
\* write fails the query is tried again and finds a file.  An answer that
\* cannot be parsed leaves no assistant message.
Answered(r) ==
    /\ at[r] = "agent"
    /\ IF attempt[r] = "none"
       THEN \E left \in {"torn", "whole"} : attempt' = [attempt EXCEPT ![r] = left]
       ELSE UNCHANGED attempt
    /\ kept' \in {kept, kept \cup {r}}
    /\ UNCHANGED <<lease, recorded, result, at, told, ghosts>>

\* start() returns a session, whatever happened in it.
AgentEnds(r) ==
    /\ at[r] = "agent"
    /\ Goto(r, "judge")
    /\ UNCHANGED <<files, kept, told, ghosts>>

\* Without an assistant message the session is removed, as far as that goes.
Judge(r) ==
    /\ at[r] = "judge"
    /\ IF r \in kept
       THEN Goto(r, "record") /\ UNCHANGED <<lease, attempt>>
       ELSE /\ End(r)
            /\ attempt' \in {attempt, [attempt EXCEPT ![r] = "none"]}
    /\ UNCHANGED <<recorded, result, kept, told, ghosts>>

\* session.json is replaced as a whole.
Record(r) ==
    /\ at[r] = "record"
    /\ \/ recorded' = recorded \cup {r} /\ Goto(r, "publish") /\ UNCHANGED lease
       \/ UNCHANGED recorded /\ End(r)
    /\ UNCHANGED <<attempt, result, kept, told, ghosts>>

\* The marker, the bundle and its check: ResultPublication step by step.
Publish(r) ==
    /\ at[r] = "publish"
    /\ \/ result = "none" /\ result' = "marked" /\ Goto(r, "verify") /\ UNCHANGED lease
       \/ UNCHANGED result /\ End(r)
    /\ UNCHANGED <<attempt, recorded, kept, told, ghosts>>

\* Interrupted after the marker was removed, the bundle is quarantined and
\* marked again, one after the other.
Verify(r) ==
    /\ at[r] = "verify"
    /\ \/ result = "marked" /\ result' = "published" /\ Goto(r, "verify") /\ UNCHANGED lease
       \/ result = "published" /\ result' = "quarantined" /\ Goto(r, "verify") /\ UNCHANGED lease
       \/ result = "quarantined" /\ result' = "marked" /\ End(r)
       \/ UNCHANGED result /\ End(r)
    /\ UNCHANGED <<attempt, recorded, kept, told, ghosts>>

Kill(c) ==
    /\ at[c] \notin {"idle", "ended", "killed"}
    /\ Goto(c, "killed")
    /\ UNCHANGED <<files, kept, told, ghosts>>

-----------------------------------------------------------------------------

Init ==
    /\ lease = "none"
    /\ \E old \in Records :
          attempt = [s \in Sessions |-> IF s = Old THEN old ELSE "none"]
    /\ recorded = {}
    /\ result = "none"
    /\ at = [c \in Commands |-> "idle"]
    /\ kept = {}
    /\ told = [c \in Commands |-> "nothing"]
    /\ tries = {}
    /\ known = FALSE
    /\ since = {}

AttemptStatus(c) ==
    \/ Begin(c) \/ LookMarker(c) \/ LookResult(c) \/ LookLease(c)
    \/ ReadLease(c) \/ LookSessions(c) \/ LookLegacy(c)

RunBaseline(r) ==
    \/ Acquire(r) \/ Stamp(r) \/ Preflight(r) \/ Prepare(r) \/ Answered(r)
    \/ AgentEnds(r) \/ Judge(r) \/ Record(r) \/ Publish(r) \/ Verify(r)

Next == \/ \E c \in Commands : AttemptStatus(c) \/ Kill(c)
        \/ \E r \in Runs : RunBaseline(r)

Spec == Init /\ [][Next]_vars

-----------------------------------------------------------------------------
(* Properties *)

\* The variables keep their ranges; only runs work and only under a lease.
TypeOK ==
    /\ lease \in Records
    /\ attempt \in [Sessions -> Records]
    /\ recorded \subseteq Runs
    /\ result \in Results
    /\ at \in [Commands -> Steps]
    /\ kept \subseteq Runs
    /\ told \in [Commands -> Answers]
    /\ tries \subseteq Runs
    /\ known \in BOOLEAN
    /\ since \subseteq Commands

Past == {s \in {Old} : attempt[s] # "none"}

\* run_baseline: of all runs there ever were, competing, failed or killed at
\* any step, and counting one from before the lease, one at most goes to work.
OneAttempt == \A p, q \in tries \cup Past : p = q

\* attempt_status: a task is reported as completed or published only when the
\* session of a run that tried, was answered and kept the answer is recorded;
\* and once a run went to work, or anybody was told that the task may not run,
\* nobody who asks later is told that it may.
ReportsHold ==
    \A c \in Commands :
       /\ told[c] \in {"completed", "published"} =>
             \E r \in recorded : r \in tries \cap kept /\ attempt[r] # "none"
       /\ c \in since => told[c] # "notStarted"

=============================================================================
