---------------------------- MODULE DockerSandbox ----------------------------
(***************************************************************************)
(* Validations in one-shot containers: DockerValidationBackend of          *)
(* src/fastfix/sandbox/docker.py, with the runner inside the container     *)
(* (benchmarks/docker/validation_runner.py).                               *)
(*                                                                         *)
(* A backend runs one validation at a time; validation k has a container k *)
(* of its own, named by a fresh UUID.  A step is one docker command.  Each *)
(* has a timeout, which kills the client and not what the daemon does for  *)
(* it.  Ctrl-C may arrive at any command.  The container runs on its own,  *)
(* for as long as it likes.                                                *)
(***************************************************************************)
EXTENDS Naturals

CONSTANT MaxRuns   \* bound on the validations requested

ASSUME RunsAssumption == MaxRuns \in Nat

Runs == 1..MaxRuns

Steps == {"idle", "version", "image", "create", "start", "attached",
          "inspect", "read", "cleanup"}

\* The steps inside the try block of run().
Guarded == {"create", "start", "attached", "inspect", "read"}

\* What the runner writes down: the tool's own return code, its timeout, or an
\* error of the runner.  A container that is killed leaves nothing.
Verdicts == {"passed", "failed", "timeout", "runnerError", "nothing"}

Errors == {"sandbox_configuration_error", "sandbox_unavailable",
           "sandbox_image_missing", "sandbox_protocol_error",
           "sandbox_execution_error", "sandbox_resource_exhausted",
           "command_timeout"}

\* An execution without an error code is the tool's: passed or failed.
Outcomes == {"passed", "failed", "interrupted"} \cup Errors

VARIABLES at,           \* the next step of the current validation
          current,      \* the current validation, 0 before the first
          managed,      \* _managed_containers
          execution,    \* the execution so far
          attachFailed, \* docker start returned an error before the container ended
          container,    \* the daemon: none, created, running or exited
          verdict,      \* what the runner in the container wrote
          ending,       \* how the container ended: by itself, oom or error
          report,       \* what run() returned, or that it raised
          unconfirmed   \* ghost: containers whose creation was never confirmed

daemon == <<container, verdict, ending>>
vars == <<at, current, managed, execution, attachFailed, daemon, report, unconfirmed>>

Exists(k) == container[k] # "none"

-----------------------------------------------------------------------------
(* Steps of a validation *)

\* A step that goes on, or ends the try block with an execution.
Continue(step) == at' = step /\ UNCHANGED execution
Settle(outcome) == at' = "cleanup" /\ execution' = outcome

\* run() returns before it made a container.
Refuse(outcome) ==
    /\ at' = "idle"
    /\ execution' = outcome
    /\ report' = [report EXCEPT ![current'] = outcome]

Request ==
    /\ at = "idle"
    /\ current < MaxRuns
    /\ current' = current + 1
    /\ attachFailed' = FALSE
    /\ \/ at' = "version" /\ execution' = "none" /\ UNCHANGED report
       \/ Refuse("sandbox_configuration_error")
    /\ UNCHANGED <<managed, daemon, unconfirmed>>

Preflight(step, next, errors) ==
    /\ at = step
    /\ \/ Continue(next) /\ UNCHANGED <<current, report>>
       \/ UNCHANGED current /\ \E e \in errors : Refuse(e)
    /\ UNCHANGED <<managed, attachFailed, daemon, unconfirmed>>

Version == Preflight("version", "image", {"sandbox_unavailable", "sandbox_configuration_error"})

Image == Preflight("image", "create",
                   {"sandbox_unavailable", "sandbox_image_missing", "sandbox_protocol_error"})

\* A client that times out, or is interrupted, may leave a container behind.
MayExist == container' \in {container, [container EXCEPT ![current] = "created"]}

CreateConfirms(registered) ==
    /\ at = "create"
    /\ \/ /\ container' = [container EXCEPT ![current] = "created"]
          /\ managed' = managed \cup registered
          /\ Continue("start")
          /\ UNCHANGED unconfirmed
       \/ /\ Settle("sandbox_execution_error")
          /\ UNCHANGED <<managed, container, unconfirmed>>
       \/ /\ Settle("sandbox_execution_error")
          /\ MayExist
          /\ unconfirmed' = unconfirmed \cup {current}
          /\ UNCHANGED managed
    /\ UNCHANGED <<current, attachFailed, verdict, ending, report>>

\* Mutant: the container is never entered in _managed_containers.
CreateUnregistered == CreateConfirms({})

Create == CreateConfirms({current})

\* docker start --attach: the container runs, or the daemon refuses to run it,
\* or the client does not get that far.
Start ==
    /\ at = "start"
    /\ \/ /\ container' = [container EXCEPT ![current] = "running"]
          /\ Continue("attached")
          /\ UNCHANGED attachFailed
       \/ /\ UNCHANGED container
          /\ Continue("inspect")
          /\ attachFailed' = TRUE
       \/ /\ UNCHANGED <<container, attachFailed>>
          /\ Settle("sandbox_execution_error")
    /\ UNCHANGED <<current, managed, verdict, ending, report, unconfirmed>>

\* The client returns when the container has ended.
Returns ==
    /\ at = "attached"
    /\ container[current] = "exited"
    /\ Continue("inspect")
    /\ UNCHANGED <<current, managed, attachFailed, daemon, report, unconfirmed>>

\* The client gives up early: its connection to the daemon broke.
Detaches ==
    /\ at = "attached"
    /\ attachFailed' = TRUE
    /\ Continue("inspect")
    /\ UNCHANGED <<current, managed, daemon, report, unconfirmed>>

TimeoutIf(due) ==
    /\ at = "attached"
    /\ due
    /\ Settle("command_timeout")
    /\ UNCHANGED <<current, managed, attachFailed, daemon, report, unconfirmed>>

\* Mutant: the host waits for as long as the container runs.
NoHostTimeout == TimeoutIf(container[current] = "exited")

\* docker start has a timeout of its own, longer than the runner's.
HostTimeout == TimeoutIf(TRUE)

StateIsFine ==
    /\ ending[current] = "itself"
    /\ attachFailed => container[current] = "exited"

InspectRequires(fine) ==
    /\ at = "inspect"
    /\ \/ fine /\ Continue("read")
       \/ Settle("sandbox_execution_error")
       \/ Settle("sandbox_protocol_error")
       \/ ending[current] = "oom" /\ Settle("sandbox_resource_exhausted")
    /\ UNCHANGED <<current, managed, attachFailed, daemon, report, unconfirmed>>

\* Mutant: what the daemon says about the container's end is not looked at.
InspectTrusting == InspectRequires(TRUE)

\* docker inspect fails, or its answer is malformed, or it says how the
\* container ended.
Inspect == InspectRequires(StateIsFine)

\* The runner's result, from its file or from the attached output.
Decoded ==
    CASE verdict[current] = "passed" -> "passed"
      [] verdict[current] = "failed" -> "failed"
      [] verdict[current] = "timeout" -> "command_timeout"
      [] verdict[current] = "runnerError" -> "sandbox_execution_error"
      [] OTHER -> "sandbox_protocol_error"

Read ==
    /\ at = "read"
    /\ \/ Settle(Decoded)
       \/ Settle("sandbox_protocol_error")
       \/ Settle("sandbox_execution_error")
    /\ UNCHANGED <<current, managed, attachFailed, daemon, report, unconfirmed>>

\* docker rm of container k: done, refused, or cut off with the container
\* gone or not.  Only a success takes it from the managed ones.
Removes(k) ==
    /\ k \in managed
    /\ managed' = managed \ {k}
    /\ container' = [container EXCEPT ![k] = "none"]

RemovalFails(k) ==
    /\ k \in managed
    /\ UNCHANGED managed
    /\ container' \in {container, [container EXCEPT ![k] = "none"]}

\* Mutant: the message is taken for the code.
CleanupMessage(outcome) ==
    IF outcome \in {"passed", "failed"}
    THEN "Unable to remove validation container." ELSE outcome

WithCleanupError(outcome) ==
    IF outcome \in {"passed", "failed"} THEN "sandbox_execution_error" ELSE outcome

FinishReporting(afterFailure) ==
    /\ at = "cleanup"
    /\ at' = "idle"
    /\ \/ /\ \/ Removes(current)
             \/ current \notin managed /\ UNCHANGED <<managed, container>>
          /\ report' = [report EXCEPT ![current] = execution]
       \/ /\ RemovalFails(current)
          /\ report' = [report EXCEPT ![current] = afterFailure]
    /\ UNCHANGED <<current, execution, attachFailed, verdict, ending, unconfirmed>>

\* Mutant: a failed removal is noted in the metadata only.
FinishLeniently == FinishReporting(execution)

\* The finally block, and the execution it leaves.
Finish == FinishReporting(WithCleanupError(execution))

\* A caller may try again to remove a container.
RetryCleanup(k) ==
    /\ at = "idle"
    /\ Removes(k) \/ RemovalFails(k)
    /\ UNCHANGED <<at, current, execution, attachFailed, verdict, ending, report,
                   unconfirmed>>

\* Ctrl-C: the finally block runs and the exception leaves run().
Interrupt ==
    /\ at \in Guarded
    /\ Settle("interrupted")
    /\ IF at = "create"
       THEN MayExist /\ unconfirmed' = unconfirmed \cup {current}
       ELSE UNCHANGED <<container, unconfirmed>>
    /\ UNCHANGED <<current, managed, attachFailed, verdict, ending, report>>

\* Ctrl-C outside the try block leaves run() at once.
InterruptOutside ==
    /\ at \in {"version", "image", "cleanup"}
    /\ at' = "idle"
    /\ IF at = "cleanup" /\ current \in managed
       THEN RemovalFails(current) ELSE UNCHANGED <<managed, container>>
    /\ report' = [report EXCEPT ![current] = "interrupted"]
    /\ UNCHANGED <<current, execution, attachFailed, verdict, ending, unconfirmed>>

\* The container ends by itself, or is killed at its memory limit, or by an
\* error of the runtime; a killed one may already have written its result.
Ends(k) ==
    /\ container[k] = "running"
    /\ container' = [container EXCEPT ![k] = "exited"]
    /\ \E how \in {"itself", "oom", "error"}, v \in Verdicts :
          /\ ending' = [ending EXCEPT ![k] = how]
          /\ verdict' = [verdict EXCEPT ![k] = v]
    /\ UNCHANGED <<at, current, managed, execution, attachFailed, report, unconfirmed>>

Init ==
    /\ at = "idle"
    /\ current = 0
    /\ managed = {}
    /\ execution = "none"
    /\ attachFailed = FALSE
    /\ container = [k \in Runs |-> "none"]
    /\ verdict = [k \in Runs |-> "nothing"]
    /\ ending = [k \in Runs |-> "itself"]
    /\ report = [k \in Runs |-> "none"]
    /\ unconfirmed = {}

Command ==
    \/ Version \/ Image \/ Create \/ Start \/ Returns \/ HostTimeout
    \/ Inspect \/ Read \/ Finish

Next ==
    \/ Request \/ Command \/ Detaches \/ Interrupt \/ InterruptOutside
    \/ \E k \in Runs : RetryCleanup(k) \/ Ends(k)

\* Every docker command returns or times out.  Nothing is assumed of the
\* container, of the connection, of the caller or of the person at the keyboard.
Spec == Init /\ [][Next]_vars /\ WF_vars(Command)

-----------------------------------------------------------------------------
(* Properties *)

\* The values the variables may take.
TypeOK ==
    /\ at \in Steps
    /\ current \in 0..MaxRuns
    /\ at # "idle" => current \in Runs
    /\ managed \subseteq Runs
    /\ execution \in Outcomes \cup {"none"}
    /\ attachFailed \in BOOLEAN
    /\ container \in [Runs -> {"none", "created", "running", "exited"}]
    /\ verdict \in [Runs -> Verdicts]
    /\ ending \in [Runs -> {"itself", "oom", "error"}]
    /\ report \in [Runs -> Outcomes \cup {"none"}]
    /\ unconfirmed \subseteq Runs

\* A validation is reported as passed or failed only when that is what the
\* tool itself said in a container that ended by itself and was removed:
\* nothing of the sandbox's own trouble, the cleanup's included, is mistaken
\* for a verdict about the candidate.
VerdictIsTheTools ==
    \A k \in Runs : report[k] \in {"passed", "failed"} =>
        verdict[k] = report[k] /\ ending[k] = "itself" /\ ~Exists(k)

\* A container that outlives its validation can still be removed, unless the
\* backend never learnt that it was made.
LeftoversAreManaged ==
    \A k \in Runs : report[k] # "none" /\ Exists(k) => k \in managed \cup unconfirmed

\* A validation ends, whatever its container does.
ValidationsEnd == at # "idle" ~> at = "idle"

=============================================================================
