---------------------------- MODULE ControlLedger ----------------------------
(***************************************************************************)
(* The recovery control interface: rerun-validation, rollback and          *)
(* reopen-repair of control/service.py, with the idempotency ledger        *)
(* (control/actions/<key>.json), the record of the active candidate        *)
(* (control/state.json) and the candidates CandidateWorkspaceManager.create *)
(* clones for it.                                                          *)
(*                                                                         *)
(* Each command is a process of its own; commands take no lock but the     *)
(* ledger entry of their key.  A step is one file operation, one git       *)
(* command or one stretch of the agent; an exception ends the command, and *)
(* a process may be killed between any two steps.  status only reads and   *)
(* is left out; so are the refusals made before any file is read.          *)
(***************************************************************************)
EXTENDS Naturals, FiniteSets

CONSTANTS Callers,     \* the processes
          Keys,        \* idempotency keys
          NoKey,       \* rerun-validation may do without
          Candidates,  \* names of candidate directories
          NoCandidate, \* no candidate is active: the workspace is the source
          CandidateOf, \* the directory recovery-<first 12 characters of the key>
          MaxCalls,    \* bound on the commands started
          MaxCrashes   \* bound on processes killed

ASSUME NamesAssumption ==
    /\ NoKey \notin Keys
    /\ NoCandidate \notin Candidates
    /\ CandidateOf \in [Keys -> Candidates]
ASSUME BoundsAssumption == MaxCalls \in Nat /\ MaxCrashes \in Nat

Commands == {"rerun-validation", "rollback", "reopen-repair"}
Workspaces == Candidates \cup {NoCandidate}
Outcomes == {"none", "executed", "failed", "duplicate", "interrupted",
             "conflict", "unreadable", "error", "killed"}
Steps == {"idle", "resolve", "claim", "answer", "note", "begin", "target",
          "clone", "checkout", "open", "truncate", "write", "build", "agent",
          "restore", "inspect", "validate", "complete"}

\* What a candidate differs from its HEAD in: edits of tracked files and new
\* files under the allowed paths, and anything outside them.
Kinds == {"edit", "new", "outside"}

Results == [status : {"executed", "failed"}, workspace : Workspaces]
Entries == [state : {"free", "claimed", "started", "completed"},
            command : Commands, result : Results]

VARIABLES ledger,    \* per key, its entry; claimed: created and still empty
          recorded,  \* state.json: the active candidate
          stateFile, \* state.json: readable (or never written), empty, garbled
          candidate, \* per name: absent, partial or whole
          work,      \* per name, the kinds of changes in it
          at, command, key,  \* per process: next step and arguments
          workspace, \* per process, the workspace it resolved or created
          result,    \* per process, the result it is about to record
          outcome,   \* per process, how its last command ended
          calls, crashes,    \* bounds
          runs,      \* ghost: per key, the invocations that went to work
          answers    \* ghost: the results given, as executed or as duplicates

files == <<ledger, recorded, stateFile, candidate, work>>
arguments == <<command, key>>
bounds == <<calls, crashes>>
ghosts == <<runs, answers>>
vars == <<files, at, arguments, workspace, result, outcome, bounds, ghosts>>

-----------------------------------------------------------------------------
(* Steps of a command *)

Goto(p, step) ==
    /\ at' = [at EXCEPT ![p] = step]
    /\ UNCHANGED outcome

End(p, how) ==
    /\ at' = [at EXCEPT ![p] = "idle"]
    /\ outcome' = [outcome EXCEPT ![p] = how]

\* Only the control flow moves.
Silent == UNCHANGED <<files, arguments, workspace, result, bounds, ghosts>>

Start(p, c, k) ==
    /\ at[p] = "idle"
    /\ calls < MaxCalls
    /\ k = NoKey => c = "rerun-validation"
    /\ calls' = calls + 1
    /\ command' = [command EXCEPT ![p] = c]
    /\ key' = [key EXCEPT ![p] = k]
    /\ Goto(p, "resolve")
    /\ UNCHANGED <<files, workspace, result, crashes, ghosts>>

\* _resolve_session, before the key is claimed: state.json must be readable and
\* name a directory.
Resolve(p) ==
    /\ at[p] = "resolve"
    /\ \/ /\ stateFile = "readable"
          /\ recorded # NoCandidate => candidate[recorded] # "absent"
          /\ workspace' = [workspace EXCEPT ![p] = recorded]
          /\ Goto(p, IF key[p] = NoKey THEN "validate" ELSE "claim")
       \/ UNCHANGED workspace /\ End(p, "error")
    /\ UNCHANGED <<files, arguments, result, bounds, ghosts>>

ClaimIf(p, free) ==
    /\ at[p] = "claim"
    /\ IF free
       THEN /\ ledger' = [ledger EXCEPT ![key[p]].state = "claimed"]
            /\ Goto(p, "note")
       ELSE UNCHANGED ledger /\ Goto(p, "answer")
    /\ UNCHANGED <<recorded, stateFile, candidate, work, arguments, workspace,
                   result, bounds, ghosts>>

\* Mutant: only an entry that can be read and is completed keeps the key.
ClaimUncompleted(p) == ClaimIf(p, ledger[key[p]].state # "completed")

\* open("x") creates the entry, empty, or finds it there.
Claim(p) == ClaimIf(p, ledger[key[p]].state = "free")

Note(p) ==
    /\ at[p] = "note"
    /\ \/ /\ ledger' = [ledger EXCEPT ![key[p]].state = "started",
                                      ![key[p]].command = command[p]]
          /\ runs' = [runs EXCEPT ![key[p]] = @ + 1]
          /\ Goto(p, "begin")
       \/ UNCHANGED <<ledger, runs>> /\ End(p, "error")
    /\ UNCHANGED <<recorded, stateFile, candidate, work, arguments, workspace, result,
                   bounds, answers>>

Answers(p, entry) ==
    answers \cup {[key |-> key[p], command |-> command[p], result |-> entry.result]}

\* _check_duplicate: json.loads fails on an entry that is still empty.
AnswerFor(p, entry, sameCommand) ==
    /\ at[p] = "answer"
    /\ IF entry.state = "claimed" THEN End(p, "unreadable")
       ELSE IF ~sameCommand THEN End(p, "conflict")
       ELSE End(p, IF entry.state = "completed" THEN "duplicate" ELSE "interrupted")
    /\ answers' = IF entry.state = "completed" /\ sameCommand
                  THEN Answers(p, entry) ELSE answers
    /\ UNCHANGED <<files, arguments, workspace, result, bounds, runs>>

\* Mutant: a completed entry answers whatever is asked.
AnswerAnyCommand(p) == AnswerFor(p, ledger[key[p]], TRUE)

Answer(p) == AnswerFor(p, ledger[key[p]], ledger[key[p]].command = command[p])

\* Where each command goes on once it holds its key.
Begin(p) ==
    /\ at[p] = "begin"
    /\ \/ /\ command[p] = "rerun-validation"
          /\ Goto(p, "validate")
          /\ UNCHANGED result
       \/ /\ command[p] = "rollback"
          /\ Goto(p, IF workspace[p] = NoCandidate THEN "complete" ELSE "restore")
          /\ result' = [result EXCEPT ![p] =
                [status |-> "executed", workspace |-> workspace[p]]]
       \/ /\ command[p] = "reopen-repair"
          /\ Goto(p, IF workspace[p] = NoCandidate THEN "target" ELSE "build")
          /\ UNCHANGED result
    /\ UNCHANGED <<files, arguments, workspace, bounds, ghosts>>

Exists(p) == candidate[workspace[p]] # "absent"

\* rerun-validation, and the end of reopen-repair: pytest and Ruff in the
\* workspace that was resolved; the tests may leave files outside the allowed
\* paths.  The source is a workspace too, but nothing here depends on it.
Validate(p) ==
    /\ at[p] = "validate"
    /\ \/ /\ workspace[p] # NoCandidate => Exists(p)
          /\ \E left \in SUBSET {"outside"} :
                work' = [c \in Candidates |->
                           IF c = workspace[p] THEN work[c] \cup left ELSE work[c]]
          /\ result' = [result EXCEPT ![p] =
                [status |-> "executed", workspace |-> workspace[p]]]
          /\ Goto(p, "complete")
       \/ UNCHANGED <<work, result>> /\ End(p, "error")
    /\ UNCHANGED <<ledger, recorded, stateFile, candidate, arguments, workspace, bounds,
                   ghosts>>

\* The ledger entry is replaced as a whole; without a key nothing is recorded.
Complete(p) ==
    /\ at[p] = "complete"
    /\ \/ /\ key[p] # NoKey
          /\ ledger' = [ledger EXCEPT ![key[p]] =
                [state |-> "completed", command |-> command[p], result |-> result[p]]]
          /\ answers' = Answers(p, ledger'[key[p]])
          /\ End(p, result[p].status)
       \/ /\ key[p] = NoKey
          /\ UNCHANGED <<ledger, answers>>
          /\ End(p, result[p].status)
       \/ UNCHANGED <<ledger, answers>> /\ End(p, "error")
    /\ UNCHANGED <<recorded, stateFile, candidate, work, arguments, workspace, result,
                   bounds, runs>>

-----------------------------------------------------------------------------
(* rollback *)

\* git restore of the allowed paths rewrites tracked files only.
Restore(p) ==
    /\ at[p] = "restore"
    /\ \/ /\ Exists(p)
          /\ work' \in {work, [work EXCEPT ![workspace[p]] = @ \ {"edit"}]}
          /\ Goto(p, "inspect")
       \/ UNCHANGED work /\ End(p, "error")
    /\ UNCHANGED <<ledger, recorded, stateFile, candidate, arguments, workspace, result,
                   bounds, ghosts>>

InspectFor(p, otherwise) ==
    /\ at[p] = "inspect"
    /\ \/ /\ Exists(p)
          /\ \/ /\ work[workspace[p]] \cap {"edit", "new"} = {}
                /\ UNCHANGED result
             \/ result' = [result EXCEPT ![p].status = otherwise]
          /\ Goto(p, "complete")
       \/ UNCHANGED result /\ End(p, "error")
    /\ UNCHANGED <<files, arguments, workspace, bounds, ghosts>>

\* Mutant: a rollback that left something is only interrupted.
InspectInterrupting(p) == InspectFor(p, "interrupted")

\* git status of the allowed paths, untracked files included.
Inspect(p) == InspectFor(p, "failed")

-----------------------------------------------------------------------------
(* reopen-repair: a candidate of its own, or the active one *)

Mine(p) == CandidateOf[key[p]]

Put(name, state) == candidate' = [candidate EXCEPT ![name] = state]

\* _cleanup_path removes the directory, or gives up half-way.
Removed(name) ==
    /\ \E state \in {"absent", "partial"} :
          /\ candidate[name] = "absent" => state = "absent"
          /\ Put(name, state)
    /\ work' = [work EXCEPT ![name] = {}]

CandidateStep == UNCHANGED <<ledger, recorded, stateFile, arguments, result, bounds,
                             ghosts>>

\* CandidateWorkspaceManager.create: the source is clean and the target absent.
Target(p) ==
    /\ at[p] = "target"
    /\ \/ candidate[Mine(p)] = "absent" /\ Goto(p, "clone")
       \/ End(p, "error")
    /\ Silent

\* git clone refuses a directory that is in the way.  Whatever fails from here
\* on removes the target, whoever made it.
Clone(p) ==
    /\ at[p] = "clone"
    /\ \/ /\ candidate[Mine(p)] = "absent"
          /\ Put(Mine(p), "partial")
          /\ UNCHANGED work
          /\ Goto(p, "checkout")
       \/ Removed(Mine(p)) /\ End(p, "error")
    /\ UNCHANGED workspace
    /\ CandidateStep

CheckedOut(p) ==
    /\ candidate[Mine(p)] # "absent"
    /\ work[Mine(p)] = {}
    /\ Put(Mine(p), "whole")
    /\ workspace' = [workspace EXCEPT ![p] = Mine(p)]
    /\ UNCHANGED work
    /\ Goto(p, "open")

\* Mutant: a checkout that failed is left to the validation to find.
CheckoutLenient(p) ==
    /\ at[p] = "checkout"
    /\ \/ CheckedOut(p)
       \/ /\ workspace' = [workspace EXCEPT ![p] = Mine(p)]
          /\ UNCHANGED <<candidate, work>>
          /\ Goto(p, "open")
    /\ CandidateStep

\* Checkout, detaching from the source and the final validation.
Checkout(p) ==
    /\ at[p] = "checkout"
    /\ \/ CheckedOut(p)
       \/ Removed(Mine(p)) /\ UNCHANGED workspace /\ End(p, "error")
    /\ CandidateStep

RecordStep == UNCHANGED <<ledger, candidate, work, arguments, workspace, result,
                          bounds, ghosts>>

\* _set_control_candidate reads state.json, opens it, which empties it, and
\* writes it.
Open(p) ==
    /\ at[p] = "open"
    /\ \/ stateFile = "readable" /\ Goto(p, "truncate")
       \/ End(p, "error")
    /\ Silent

Truncate(p) ==
    /\ at[p] = "truncate"
    /\ \/ stateFile' = "empty" /\ recorded' = NoCandidate /\ Goto(p, "write")
       \/ UNCHANGED <<recorded, stateFile>> /\ End(p, "error")
    /\ RecordStep

\* Over what another process wrote since, the content may come out garbled.
Write(p) ==
    /\ at[p] = "write"
    /\ \/ /\ recorded' = workspace[p]
          /\ stateFile' = "readable"
          /\ Goto(p, "build")
       \/ /\ stateFile # "empty"
          /\ recorded' = NoCandidate
          /\ stateFile' = "garbled"
          /\ Goto(p, "build")
       \/ UNCHANGED <<recorded, stateFile>> /\ End(p, "error")
    /\ RecordStep

\* The repair tools refuse a workspace that is not clean.
Build(p) ==
    /\ at[p] = "build"
    /\ \/ Exists(p) /\ work[workspace[p]] = {} /\ Goto(p, "agent")
       \/ End(p, "error")
    /\ Silent

\* The agent edits, undoes and validates as it likes until it ends or raises.
Agent(p) ==
    /\ at[p] = "agent"
    /\ \/ /\ Exists(p)
          /\ \E kinds \in SUBSET Kinds : work' = [work EXCEPT ![workspace[p]] = kinds]
          /\ Goto(p, "agent") \/ Goto(p, "validate")
       \/ UNCHANGED work /\ End(p, "error")
    /\ UNCHANGED <<ledger, recorded, stateFile, candidate, arguments, workspace, result,
                   bounds, ghosts>>

-----------------------------------------------------------------------------

Kill(p) ==
    /\ at[p] # "idle"
    /\ crashes < MaxCrashes
    /\ crashes' = crashes + 1
    /\ End(p, "killed")
    /\ UNCHANGED <<files, arguments, workspace, result, calls, ghosts>>

NoEntry == [state |-> "free", command |-> "rollback",
            result |-> [status |-> "failed", workspace |-> NoCandidate]]

Init ==
    /\ ledger = [k \in Keys |-> NoEntry]
    /\ recorded = NoCandidate
    /\ stateFile = "readable"
    /\ candidate = [c \in Candidates |-> "absent"]
    /\ work = [c \in Candidates |-> {}]
    /\ at = [p \in Callers |-> "idle"]
    /\ command = [p \in Callers |-> "rollback"]
    /\ key = [p \in Callers |-> NoKey]
    /\ workspace = [p \in Callers |-> NoCandidate]
    /\ result = [p \in Callers |-> NoEntry.result]
    /\ outcome = [p \in Callers |-> "none"]
    /\ calls = 0
    /\ crashes = 0
    /\ runs = [k \in Keys |-> 0]
    /\ answers = {}

Command(p) ==
    \/ Resolve(p) \/ Claim(p) \/ Note(p) \/ Answer(p) \/ Begin(p)
    \/ Validate(p) \/ Complete(p) \/ Restore(p) \/ Inspect(p)
    \/ Target(p) \/ Clone(p) \/ Checkout(p) \/ Open(p) \/ Truncate(p)
    \/ Write(p)
    \/ Build(p) \/ Agent(p)

Next ==
    \E p \in Callers :
        \/ \E c \in Commands, k \in Keys \cup {NoKey} : Start(p, c, k)
        \/ Command(p)
        \/ Kill(p)

Spec == Init /\ [][Next]_vars

-----------------------------------------------------------------------------
(* Properties *)

\* The values the variables may take.
TypeOK ==
    /\ ledger \in [Keys -> Entries]
    /\ recorded \in Workspaces
    /\ stateFile \in {"readable", "empty", "garbled"}
    /\ candidate \in [Candidates -> {"absent", "partial", "whole"}]
    /\ work \in [Candidates -> SUBSET Kinds]
    /\ at \in [Callers -> Steps]
    /\ command \in [Callers -> Commands]
    /\ key \in [Callers -> Keys \cup {NoKey}]
    /\ workspace \in [Callers -> Workspaces]
    /\ result \in [Callers -> Results]
    /\ outcome \in [Callers -> Outcomes]
    /\ calls \in 0..MaxCalls
    /\ crashes \in 0..MaxCrashes
    /\ runs \in [Keys -> Nat]
    /\ answers \subseteq [key : Keys, command : Commands, result : Results]

\* The work of a key is begun at most once, by however many processes it is
\* sent and whichever of them is killed where ("a started record left by a
\* crash is not replayed", module comment of control/service.py).
OneRunPerKey == \A k \in Keys : runs[k] <= 1

\* Whoever is told that a key was executed is told the same command and the
\* same result.
AnswersAgree == \A a \in answers, b \in answers : a.key = b.key => a = b

\* Two keys that were sent have the directory: service.py cuts a key to twelve
\* characters to name it.
Shared(name) ==
    \E j \in Keys, k \in Keys :
        /\ j # k
        /\ CandidateOf[j] = name /\ CandidateOf[k] = name
        /\ ledger[j].state # "free" /\ ledger[k].state # "free"

\* The candidate state.json names is there and complete: it is recorded after
\* it was created, and nobody removes it but a reopen-repair under another key
\* with the same twelve characters, whose clone it is in the way of.
ActiveCandidateIsWhole ==
    recorded # NoCandidate => candidate[recorded] = "whole" \/ Shared(recorded)

\* The ledger as the sender of a key may think of it.
Taken == [k \in Keys |->
            IF ledger[k].state \in {"started", "completed"} THEN {ledger[k].command} ELSE {}]
Settled == [k \in Keys |->
              IF ledger[k].state = "completed" THEN {ledger[k].result} ELSE {}]

Idempotent ==
    INSTANCE IdempotentLedger WITH
        taken <- Taken, begun <- runs, settled <- Settled, told <- answers

\* Through all the claims, files and kills the ledger is one account per key: a
\* key stays with the command whose work began under it, once; it is settled at
\* most once, and everybody is told what was settled ("_check_duplicate" replays a
\* completed entry and refuses any other command).
ImplementsLedger == Idempotent!AccountSpec

=============================================================================
