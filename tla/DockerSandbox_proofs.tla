------------------------- MODULE DockerSandbox_proofs -------------------------
(***************************************************************************)
(* Proofs about DockerSandbox, for any number of validations: the          *)
(* variables keep their ranges, a verdict is the tool's own, and every     *)
(* container the backend was told of can still be removed.                 *)
(***************************************************************************)
EXTENDS DockerSandbox, TLAPS

\* Where the current validation is, its container is.
CurrentInv ==
    /\ at # "idle" => report[current] = "none"
    /\ at \in {"version", "image", "create"} =>
          container[current] = "none" /\ current \notin managed
    /\ at \in {"start", "attached", "inspect", "read"} =>
          container[current] # "none" /\ current \in managed
    /\ at = "cleanup" => execution # "none"

\* Validations that have not begun have left nothing.
FutureInv ==
    \A k \in Runs : k > current =>
        container[k] = "none" /\ report[k] = "none" /\ k \notin managed

\* A container that is there was registered, or its creation never confirmed.
KnownInv == \A k \in Runs : Exists(k) => k \in managed \cup unconfirmed

\* What is read as a verdict is that of a container that has ended.
VerdictInv ==
    /\ at \in {"inspect", "read"} /\ ~attachFailed => container[current] = "exited"
    /\ at = "read" => container[current] = "exited" /\ ending[current] = "itself"
    /\ at = "cleanup" /\ execution \in {"passed", "failed"} =>
          /\ container[current] = "exited" /\ current \in managed
          /\ verdict[current] = execution /\ ending[current] = "itself"

IInv == TypeOK /\ CurrentInv /\ FutureInv /\ KnownInv /\ VerdictInv /\ VerdictIsTheTools

LEMMA InitInv == Init => IInv
  <1> SUFFICES ASSUME Init PROVE IInv OBVIOUS
  <1> USE RunsAssumption DEF Init
  <1>1. TypeOK
    <2>1. /\ at \in Steps /\ current \in 0..MaxRuns /\ (at # "idle" => current \in Runs)
          /\ managed \subseteq Runs /\ unconfirmed \subseteq Runs
      BY DEF Steps
    <2>0. attachFailed \in BOOLEAN
      BY Zenon
    <2>2. execution \in Outcomes \cup {"none"} /\ report \in [Runs -> Outcomes \cup {"none"}]
      OBVIOUS
    <2>3. /\ container \in [Runs -> {"none", "created", "running", "exited"}]
          /\ verdict \in [Runs -> Verdicts]
          /\ ending \in [Runs -> {"itself", "oom", "error"}]
      BY DEF Verdicts
    <2>4. QED
      BY <2>0, <2>1, <2>2, <2>3 DEF TypeOK
  <1>2. CurrentInv /\ FutureInv /\ KnownInv /\ VerdictInv
    BY DEF CurrentInv, FutureInv, KnownInv, VerdictInv, Exists
  <1>3. VerdictIsTheTools
    BY DEF VerdictIsTheTools
  <1>4. QED
    BY <1>1, <1>2, <1>3 DEF IInv

\* The steps of a validation on its way, which only move it or end its try
\* block; none of them touches a container or a report.
LEMMA MoveKeepsInv ==
  ASSUME IInv, Returns \/ Detaches \/ HostTimeout \/ Inspect \/ Read
  PROVE  IInv'
  <1> USE RunsAssumption DEF IInv, Continue, Settle, daemon
  <1>1. TypeOK'
    BY DEF TypeOK, Returns, Detaches, HostTimeout, TimeoutIf, Inspect, InspectRequires, Read,
       Decoded, Steps, Outcomes, Errors
  <1>2. /\ UNCHANGED <<current, managed, daemon, report, unconfirmed>>
        /\ at \in {"attached", "inspect", "read"}
        /\ at' \in {"inspect", "read", "cleanup"}
        /\ at' = "cleanup" => execution' # "none"
    BY DEF Returns, Detaches, HostTimeout, TimeoutIf, Inspect, InspectRequires, Read, Decoded
  <1>3. CurrentInv' /\ FutureInv' /\ KnownInv' /\ VerdictIsTheTools'
    BY <1>2 DEF CurrentInv, FutureInv, KnownInv, VerdictIsTheTools, Exists
  <1>4. VerdictInv'
    <2>1. CASE Returns \/ Detaches \/ HostTimeout
      BY <2>1 DEF VerdictInv, Returns, Detaches, HostTimeout, TimeoutIf
    <2>2. CASE Inspect
      BY <2>2 DEF VerdictInv, Inspect, InspectRequires, StateIsFine
    <2>3. CASE Read
      BY <2>3 DEF VerdictInv, CurrentInv, Read, Decoded
    <2>4. QED
      BY <2>1, <2>2, <2>3
  <1>5. QED
    BY <1>1, <1>3, <1>4

\* The steps before there is a container.
LEMMA PreflightKeepsInv ==
  ASSUME IInv, Request \/ Version \/ Image
  PROVE  IInv'
  <1> USE RunsAssumption DEF IInv, Continue, Refuse, daemon, Request, Version, Image, Preflight
  <1>1. TypeOK'
    <2>1. CASE Request
      <3>1. current' \in 0..MaxRuns /\ current' \in Runs
        BY <2>1 DEF TypeOK, Runs
      <3>2. at' \in Steps /\ execution' \in Outcomes \cup {"none"}
        BY <2>1 DEF Steps, Outcomes, Errors
      <3>3. report' \in [Runs -> Outcomes \cup {"none"}]
        BY <2>1, <3>1 DEF TypeOK, Outcomes, Errors
      <3>4. QED
        BY <2>1, <3>1, <3>2, <3>3 DEF TypeOK
    <2>2. CASE Version
      BY <2>2 DEF TypeOK, Steps, Outcomes, Errors
    <2>3. CASE Image
      BY <2>3 DEF TypeOK, Steps, Outcomes, Errors
    <2>4. QED
      BY <2>1, <2>2, <2>3
  <1>2. /\ UNCHANGED <<managed, daemon, unconfirmed>>
        /\ current' \in Runs /\ current' >= current /\ current \in Nat
        /\ at' \in {"idle", "version", "image", "create"}
        /\ \A k \in Runs : k # current' => report'[k] = report[k]
        /\ at' # "idle" => report' = report
        /\ report'[current'] \notin {"passed", "failed"}
    <2>1. CASE Request
      BY <2>1 DEF TypeOK, FutureInv, Runs
    <2>2. CASE Version
      BY <2>2 DEF TypeOK, CurrentInv, Runs
    <2>3. CASE Image
      BY <2>3 DEF TypeOK, CurrentInv, Runs
    <2>4. QED
      BY <2>1, <2>2, <2>3
  <1>3. container[current'] = "none" /\ current' \notin managed /\ report[current'] = "none"
    <2>1. CASE Request
      BY <2>1, <1>2 DEF TypeOK, FutureInv, Runs
    <2>2. CASE Version \/ Image
      BY <2>2 DEF TypeOK, CurrentInv, Runs
    <2>3. QED
      BY <2>1, <2>2
  <1>4. CurrentInv'
    BY <1>2, <1>3 DEF CurrentInv
  <1>5. FutureInv'
    BY <1>2 DEF FutureInv, Runs
  <1>6. KnownInv' /\ VerdictInv'
    BY <1>2 DEF KnownInv, VerdictInv, Exists
  <1>7. VerdictIsTheTools'
    BY <1>2 DEF VerdictIsTheTools, Exists
  <1>8. QED
    BY <1>1, <1>4, <1>5, <1>6, <1>7

\* The steps that make or start the container, or are interrupted at it.
LEMMA ContainerKeepsInv ==
  ASSUME IInv, Create \/ Start \/ Interrupt
  PROVE  IInv'
  <1> USE RunsAssumption DEF IInv, Continue, Settle, MayExist, Create, CreateConfirms, Start,
                              Interrupt, Guarded
  <1>1. TypeOK'
    BY DEF TypeOK, Steps, Outcomes, Errors
  <1>2. /\ UNCHANGED <<current, report, verdict, ending>>
        /\ at # "idle" /\ current \in Runs /\ current \in Nat
        /\ \A k \in Runs : k # current =>
              container'[k] = container[k] /\ (k \in managed' <=> k \in managed)
        /\ at' \in {"start", "attached", "inspect", "cleanup"}
    BY DEF TypeOK, Runs
  <1>3. CurrentInv'
    BY <1>2 DEF CurrentInv, TypeOK
  <1>4. FutureInv'
    BY <1>2 DEF FutureInv, Runs
  <1>5. KnownInv'
    BY <1>2 DEF KnownInv, CurrentInv, Exists, TypeOK
  <1>6. VerdictInv'
    BY <1>2 DEF VerdictInv, TypeOK
  <1>7. VerdictIsTheTools'
    BY <1>2 DEF VerdictIsTheTools, CurrentInv, Exists
  <1>8. QED
    BY <1>1, <1>3, <1>4, <1>5, <1>6, <1>7

\* The end of a validation.
LEMMA FinishKeepsInv ==
  ASSUME IInv, Finish \/ InterruptOutside
  PROVE  IInv'
  <1> USE RunsAssumption DEF IInv, Finish, FinishReporting, WithCleanupError, InterruptOutside,
                              Removes, RemovalFails
  <1>1. TypeOK'
    BY DEF TypeOK, CurrentInv, Steps, Outcomes, Errors
  <1>2. /\ UNCHANGED <<current, verdict, ending, unconfirmed>>
        /\ at # "idle" /\ at' = "idle" /\ current \in Runs /\ current \in Nat
        /\ \A k \in Runs : k # current =>
              /\ container'[k] = container[k] /\ report'[k] = report[k]
              /\ k \in managed' <=> k \in managed
        /\ container'[current] \in {container[current], "none"}
        /\ current \notin managed' => current \notin managed \/ container'[current] = "none"
    BY DEF TypeOK, Runs
  <1>3. CurrentInv' /\ VerdictInv'
    BY <1>2 DEF CurrentInv, VerdictInv
  <1>4. FutureInv'
    BY <1>2 DEF FutureInv, Runs
  <1>5. KnownInv'
    BY <1>2 DEF KnownInv, Exists
  <1>6. report'[current] \in {"passed", "failed"} =>
            /\ container'[current] = "none" /\ ending[current] = "itself"
            /\ verdict[current] = report'[current]
    BY <1>2 DEF VerdictInv, TypeOK
  <1>7. VerdictIsTheTools'
    BY <1>2, <1>6 DEF VerdictIsTheTools, Exists
  <1>8. QED
    BY <1>1, <1>3, <1>4, <1>5, <1>7

\* What happens to any container, at any time.
LEMMA OthersKeepInv ==
  ASSUME IInv, NEW k \in Runs, RetryCleanup(k) \/ Ends(k)
  PROVE  IInv'
  <1> USE RunsAssumption DEF IInv
  <1>1. CASE RetryCleanup(k)
    <2> USE <1>1 DEF RetryCleanup, Removes, RemovalFails
    <2>1. TypeOK'
      BY DEF TypeOK
    <2>2. QED
      BY <2>1 DEF TypeOK, CurrentInv, FutureInv, KnownInv, VerdictInv, VerdictIsTheTools, Exists
  <1>2. CASE Ends(k)
    <2> USE <1>2 DEF Ends
    <2>1. TypeOK'
      BY DEF TypeOK
    <2>2. CurrentInv' /\ FutureInv' /\ KnownInv'
      BY DEF TypeOK, CurrentInv, FutureInv, KnownInv, Exists
    <2>3. VerdictInv'
      BY DEF TypeOK, VerdictInv
    <2>4. VerdictIsTheTools'
      BY DEF TypeOK, VerdictIsTheTools, Exists
    <2>5. QED
      BY <2>1, <2>2, <2>3, <2>4
  <1>3. QED
    BY <1>1, <1>2

LEMMA NextKeepsInv == IInv /\ [Next]_vars => IInv'
  <1> SUFFICES ASSUME IInv, [Next]_vars PROVE IInv' OBVIOUS
  <1>1. CASE Next
    BY <1>1, MoveKeepsInv, PreflightKeepsInv, ContainerKeepsInv, FinishKeepsInv, OthersKeepInv
       DEF Next, Command
  <1>2. CASE UNCHANGED vars
    BY <1>2 DEF vars, daemon, IInv, TypeOK, CurrentInv, FutureInv, KnownInv, VerdictInv,
                VerdictIsTheTools, Exists
  <1>3. QED
    BY <1>1, <1>2

LEMMA SpecInv == Spec => []IInv
  BY InitInv, NextKeepsInv, PTL DEF Spec

\* The variables of the sandbox keep their ranges.
THEOREM SandboxTypeOK == Spec => []TypeOK
  <1>1. IInv => TypeOK
    BY DEF IInv
  <1>2. QED
    BY <1>1, SpecInv, PTL

\* run(): passed and failed are only ever what the tool said in a container that
\* ended by itself and is gone.
THEOREM VerdictsAreTheTools == Spec => []VerdictIsTheTools
  <1>1. IInv => VerdictIsTheTools
    BY DEF IInv
  <1>2. QED
    BY <1>1, SpecInv, PTL

\* cleanup(): what outlives its validation can still be removed, unless its
\* creation was never confirmed.
THEOREM LeftoversStayManaged == Spec => []LeftoversAreManaged
  <1>1. IInv => LeftoversAreManaged
    BY DEF IInv, KnownInv, LeftoversAreManaged
  <1>2. QED
    BY <1>1, SpecInv, PTL

=============================================================================
