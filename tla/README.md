# FastFix in TLA+

FastFix repairs a FastAPI task in a candidate copy of a repository: an agent edits it with a
handful of tools, a submission is accepted only when three validators passed on exactly what is
submitted, a person approves or rejects the packaged patch, and an approved patch is applied to
the source repository with an audit trail from which it can be rolled back. The promises worth
checking are about *order and failure*: "validate, edit, submit" must be impossible; a git
command that is killed, a process that dies, a second command at the same moment or a person
editing meanwhile must not make the audit lie.

This directory holds TLA+ models of those parts, the TLC configurations that check them on small
instances, and TLAPS proofs of the main invariants for every instance. Paths below are relative
to the repository root.

    tlc -workers 2 -config RepairSession.cfg MCRepairSession     # one run
    tlapm RepairSession_proofs.tla                               # one proof module

## 1. Inventory

### The parts, their state and what makes them correct

| Part (source) | State it keeps | Operations | Hard behaviour | Correct when |
|---|---|---|---|---|
| Repair session (`src/fastfix/repair/state.py`, `src/fastfix/environments/repair_environment.py`) | phase, revision, validation epoch, recorded changed files, three results with their stamps, failure counters, reopen history | `record_*`, `execute`, `_submit`, `_reopen` | long legal sequences of calls; a probe of git failing after an edit | nothing is submitted that was not validated as it stands; the lock, the gates and the history agree |
| Editing and git tools (`src/fastfix/tools/editing.py`) | the candidate's working tree | `replace_text`, `apply_patch`, `show_git_diff`, `rollback_changes` | a command killed half-way, an error after a write | what is reported is what happened |
| Validation tools (`src/fastfix/tools/validation.py`, `src/fastfix/sandbox/local.py`) | none (a local pytest run may write the tree) | `run_pytest`, `run_ruff` | side effects of tests | results are about the tree they are stamped for (section 12: not when a local test run rewrites sources) |
| Approval actions (`src/fastfix/approval/actions.py`) | `decision.json`, `application.json`, `reverse.patch`, `rollback.json` in the request's action directory; the source's worktree | `decide`, `rollback`, `retry_candidate_cleanup` | concurrent commands without a lock, a person editing, crashes, partial git failures | the audit and the source agree; decisions are final |
| Secure runner (`benchmarks/scripts/run_fastfix_secure.py`) | `session.json` | `prepare`, `decide_session`, `rollback_session`, `inspect_session` | killed between the action and the save, a save that fails | the file never runs ahead of the audit, and catches up with it |
| Result publication (`src/fastfix/security/result_publication.py`) | result directory, marker file | `publish_result_bundle`, `read_publication_state` | every step may fail; several publishers; readers in between | what has no marker was read back intact |
| Attempt lease and task runner (`benchmarks/scripts/run_task_baseline.py`) | lease directory, `attempt.json`, `session.json` | `acquire_attempt_lease`, `run_baseline`, `attempt_status` | races for the lease, crashes before and after the first response | one attempt per task, ever |
| Approval package (`src/fastfix/approval/package.py`) | package directory with manifest | `create`, `verify_package` | the candidate moves while it is read | patch, hashes and validation belong together |
| Candidate workspace (`src/fastfix/workspace/candidate.py`) | the clone | `create`, `recover`, `cleanup` | half-made clones, half-removed directories | never removes what it does not own |
| Secure repair workflow (`src/fastfix/workflows/secure_repair.py`) | stage, statuses, candidate, package | `start`, `decide`, `complete`, `rollback`, `cleanup` | failure at any point of `start` | only documented stages follow each other |
| Recovery control interface (`src/fastfix/control/service.py`) | idempotency ledger, `control/state.json` | `status`, `rerun_validation`, `reopen_repair`, `rollback` | two commands, same or different keys; crash after the claim | side effects of a key happen at most once |
| Docker sandbox (`src/fastfix/sandbox/docker.py`) | managed containers | `run`, `cleanup` | timeouts of create, start, rm | every container is removed |
| Context projection (`src/fastfix/agents/repair.py`) | projected messages | `project_messages`, `query` | budget against evidence | required evidence is never compacted |
| Agent loop (`src/minisweagent/agents/default.py`) | messages, call count, cost, format errors | `run`, `step`, `query` | limits, format errors | every limited run ends |
| Path policy, read-only tools, model adapters, upstream environments and runners, evaluation, assessment builders, benchmark data | none that interacts | — | parsing, I/O, batch work | not modelled, see section 12 |

### How they interact

The agent loop calls `FastFixRepairEnvironment.execute` once per tool call, synchronously; the
environment consults and updates `RepairSessionState` and asks git which files changed. On an
accepted submission the workflow hands the session state and the candidate to
`ApprovalPackageManager.create`. The secure runner writes `session.json`, and later processes,
started by hand, run `approve`, `reject` or `rollback`; they share the source, the action
directory, the candidate and `session.json`, and take no lock. Results go out through
`publish_result_bundle`, which only its marker file protects; `inspect` and the guard of the next
`run` read the same files at any time.

## 2. Plan

| Order | Module | Models | Abstract specification | Status |
|---|---|---|---|---|
| 1 | `RepairSession` | session state machine over the candidate's tree | `SubmissionGate`, `ToolSession` | checked, proved |
| 2 | `ApprovalActions` | decide and rollback with `session.json` | `DecidedRequest` | checked, proved |
| 3 | `ResultPublication` | publication and its readers | `AtomicPublication` | checked, proved |
| 4 | `ControlLedger` | control service: ledger, `state.json`, creation of candidates | `IdempotentLedger` | checked, proved |
| 5 | `AttemptLease` | the one attempt of a task, with `attempt_status` | - | checked, proved |
| 6 | `CandidateWorkspace`, `ApprovalPackage`, `SecureRepairWorkflow` | a clone, the package built from it, and the session around both; each extends the one before | `ReviewedRepair` | checked, proved |
| 7 | `DockerSandbox` | validations in containers, with liveness | - | checked, safety proved |
| 8 | `ContextProjection`, `RepairAgent` | what a model call is sent; the agent loop, with liveness | drives the `ToolSession` of 1 | checked, safety proved |

An abstract specification says what a part is to whoever uses it, in a screenful and without the
files, processes and failures that make the part hard; the part is shown to implement it, by TLC
on the run's instance and by TLAPS for every instance. `ToolSession` is also what ties 1 and 8
together: 1 implements it, 8 drives it.

2 and 6 are not tied together through `DecidedRequest`: a workflow session that fails, or whose
`cleanup` is called, removes its candidate undecided, which the commands that follow `prepare`
never do.

What could follow: what `attempt_status` answers (5) as reads of one record, which needs an
abstract specification of answers that were overtaken while they were looked up.

## 3. `RepairSession`: the session and its tree

State: the fields of `RepairSessionState` that decide anything (`patch_count` and
`last_edit_error`, which nothing reads, are left out), the working tree `tree` as a function from
files to contents, and `raised`, set when an exception leaves `execute`. Three ghosts: `seen[v]`,
the source files validator `v`'s recorded result is about; `unrecorded`, true from a change of the
source files the session did not notice until its next recorded edit or rollback; and `unread`,
the patches that failed since the last read or recorded edit.

One action is one tool call with everything it triggers: the edit of the tree, the git probe, the
`record_*` method and the phase it derives.

| Action | Code |
|---|---|
| `PatchApplied`, `PatchRefused`, `PatchInterrupted` | `apply_patch` succeeding (or timing out after its statistics), refused, killed after writing |
| `TextReplaced`, `ReplaceNotRestored` | `replace_text` kept; written, refused and not written back |
| `RolledBack`, `RollbackFailed` | `rollback_changes` with `git restore`, complete or part-way |
| `RunPytest`, `RunRuff` | validators, stamped with revision and epoch; a local pytest run is a plain `python -m pytest` in the candidate and may rewrite any file in `Rewritten`, sources among them |
| `ReadFile`, `ShowGitDiff` | the calls that lift the patch block |
| `Submit`, `Reopen` | `_submit` and `_reopen` with their guards |

Calls that change nothing (refusals, searches, reads) are stuttering steps. Contents are opaque
values; whether a patch parses or a path is allowed is a nondeterministic refusal.

`SubmissionGate` is what the session promises: a piece of work, a set of vouchers that an edit
clears, and a submission that needs all of them. Its two weaknesses are those of the code: a change
may slip past the session, and a gate may change the work it judges and vouch for it all the same.
`ImplementsGate` maps the source files to the work, the current passed results to the vouchers and
`unrecorded` to what slipped.

`FailureBudget` is both halves of the patch breaker: between two reads or recorded edits no more
patches fail than the consecutive limit allows, and the patch tool is blocked exactly when one has
failed since then and the count in a row is at the limit.

`ToolSession` is the session as the tools of the agent meet it: its revision and epoch, whether
anything is changed, what each validation said, and which tool may leave it how (`Effect`).
`ImplementsToolSession` maps changed files to `changed` and results to verdicts, and forgets tree,
phase, budget, history and the stamps of the single results. It holds because these never
disagree: a verdict the tools see is one about the current revision and epoch. `RepairAgent`
(section 9) is written on the same module.

| Run | Instance | Checks |
|---|---|---|
| `session` | one source file and one test file, both of which pytest may rewrite, three contents (two of them symmetric), limits 1 and 2, epochs to 3; 0.6M states | `TypeOK`, `RecordedSubmissionIsValidated`, `LockMatchesGates`, `AuditIsConsistent`, `FailureBudget`, `ReadyLock`, `ImplementsGate`, `ImplementsToolSession` |
| `interrupted_patch` | violation | `SubmittedIsValidated` |

Bounds: every bad sequence needs a validated tree, an edit, and a re-validation of only some
validators, which two epochs allow; the third lets a history have two entries. Two files and three
contents let an edit change the set of changed names, keep it while changing contents, or undo
itself. The breaker's limits are 3 and 6 in the code; 1 and 2 keep them apart, and the proofs hold
for all. `interrupted_patch` runs with tests that rewrite nothing (`Rewritten` is empty), so that
the patch alone is to blame. That a recorded result is a current one (`NoStaleResult`) is proved,
and left to the refinement in the run. `MaxEpoch` (in `ClearValidation`) is the only bound that is
not in the code.

## 4. `ApprovalActions`: decide and roll back

State: `source` (per file: as in HEAD, as patched, or other), the action directory (`decision`,
`reverse`, `rollbacks`, how often `rollback.json` was put in place, `stray`, a temporary file a
rollback left), `candidate`, `status` of `session.json`, and per process the command it runs, its
next step `at` and the reverse patch it holds. Ghosts: `mine` (files a person wrote last),
`untold` (a command ended between the record and the session) and `damage` (kinds of ends after
which the source may differ from the audit: nothing was restored, the restoring failed, a published
record was taken out of the source, a crash with the source in hand; and overlap).

A step is one git command or one file access, in the code's order: `Load`, `Recover`, `Gate`,
`CleanSource`, `Check`, `Apply`, `Verify`, `Reverse`, `Publish`, `Cleanup`, `Save` for a decision,
with `ApplyFailed`, `Restore`, `RestoreCheck` on the failure path; `Audit`, `Match`, `RbCheck`,
`RbApply`, `RbClean`, `RbStamp`, `RbWrite`, `RbAbsent`, `RbReplace`, `RbSave` for a rollback, with
`RbRepair`, `RbReapply`, `RbCompare`. Every git call may fail; `git apply` refuses as a whole, but
may be killed anywhere. Every step may also raise what its handler does not expect (a path policy
error, an `OSError`, Ctrl-C): the command then ends where the handler lets it pass. Both
publications may fail after the `os.replace` that put the record in place (`FailsLate`), the look
for a `rollback.json` and the replace that would overwrite one are two steps, and saving
`session.json` may fail. `HumanEdit` and `Crash` happen between any two steps. The package is
immutable and the source's HEAD does not move.

`DecidedRequest` is what is on record about a request: it is decided once, and an approval leaves a
way back that changes something and does not change itself any more; the session tells of the
decision afterwards, if at all; only an approval it told of is taken back, which overlapping
commands may put on record more than once; and the candidate goes away after the decision, bit by
bit. `ImplementsRecord` maps `decision.json`, the reverse patch, the count of `rollback.json`,
`session.json` and the candidate to these, and no process or step of one. It includes
`StatusFollowsAudit` and `CandidateKeptForDecision`, which are proved on their own and left to the
refinement in the run. `DecisionsAreFinal` adds what the record leaves open: `rollback.json` is
replaced only where commands overlapped, although its writer may fail late, apply the patch again
and leave the session as it was.

| Run | Instance | Checks |
|---|---|---|
| `approval` | two processes, four commands, two patched files and one other, one edit, one crash; 2.3M states | `TypeOK`, `AuditMatchesSource`, `SessionMatchesAudit`, `DecisionsAreFinal`, `ImplementsRecord` |
| `two_approvers` | violation: two commands, no crash | `AuditMatchesSourceAlways` |
| `approval_crash` | violation: one process, one crash | `AppliedCanBeRolledBack` |

Four commands on two processes are every pair of racing commands with a successor each. Two
patched files are what a torn patch needs; one edit meets every step. `AuditMatchesSource` excuses
the ends named in `damage`, commands that overlapped among them; `AuditMatchesSourceAlways` does not
excuse the overlap, and fails. It is silent about files a person wrote: that a rollback or a restore
may meet such an edit is in the model, but nothing says what must become of it.
`SessionMatchesAudit` says that `session.json` has caught up with the audit whenever no command
runs, unless one ended between the record and the session (`untold`): killed or interrupted there,
unable to save, or failing late. `approval_crash` shows what comes of the first of these.

## 5. `ResultPublication`: one result directory

State: whose bundle is at `destination`, whether it is `intact` (enumerable, readable, equal to
its manifest), the `marker` beside it (absent, created but empty, publishing, failed), per
publisher its next step and whether it noted that its bundle moved (`published` in the code), per
reader whether it has looked for the marker already. The steps are the file operations of
`publish_result_bundle`; each may fail, each may be interrupted (`except BaseException`), and the
process may be killed between them. The marker is written to the file that was created, which a
late failure of another publisher may have replaced. Readers are `attempt_status`: marker first,
summary later.

`AtomicPublication` is the same directory without marker, steps and failures: at most one sound
bundle is in place (`kept`), it is in sight or not (`shown`), and once a publication has returned
its bundle stays and nothing else is ever shown. `ImplementsPublication` maps an intact bundle at
the destination to `kept` and a bundle without a marker to `shown`. That a bundle may be hidden
again after its publication returned is what the code does: the failure of a late publisher leaves
its marker beside the result.

| Run | Instance | Checks |
|---|---|---|
| `publication` | three publishers, two inspections; 22k states | `TypeOK`, `UnmarkedIsIntact`, `ImplementsPublication` |
| `inspection` | violation | `NoBrokenEvidence` |

Three publishers are one that is interrupted after removing its marker, one that publishes behind
it and one that fails late; each publishes once, as each makes its own bundle. `ReturnedIsKept`
follows from the refinement and is proved on its own.

### `AttemptLease`: one attempt at a task

State: the lease (absent, made but without a valid `lease.json`, whole), `attempt.json` per
session, the sessions with a `session.json`, what publication left, and per command its next step.
A command runs `attempt_status` look by look (`LookMarker`, `LookResult`, `LookLease`,
`ReadLease`, `LookSessions`, `LookLegacy`); `inspect` and `preflight` stop there, `run` goes on
through `Acquire` (the exclusive `mkdir`), `Stamp`, `Preflight`, `Prepare`, `Answered`,
`AgentEnds`, `Judge`, `Record`, `Publish` and `Verify`. Any step may fail, any command may be
killed, and a session from before there were leases may lie there, also with a torn record.
Ghosts: `tries`, the runs that went to work; `known` and `since`, which commands began after
somebody could know that the task is taken.

| Run | Instance | Checks |
|---|---|---|
| `lease` | two runs, two viewers (both symmetric); 0.3M states | `TypeOK`, `OneAttempt`, `ReportsHold` |

Two runs race; a third adds nothing that the proofs, for any number, leave open. All commands use
one runtime and one result directory: runs given different `--runtime-root` options have
different leases, and the code does not keep them apart before one has published.

## 6. `ControlLedger`: commands with an idempotency key

State: per key its ledger entry (free, claimed but still empty, started, completed with command and
result), what `state.json` records as the active candidate and whether that file can be read, per
directory name whether a candidate is there (absent, partial, whole) and the kinds of changes in
it, and per process the command, its key, its next step, the workspace it resolved and the result
it is about to record. Ghosts: `runs[k]`, how often a command with key `k` went to work, and
`answers`, every result given as executed or as a duplicate.

| Steps | Code |
|---|---|
| `Start`, `Resolve`, `Claim`, `Note`, `Answer` | the command line, `_resolve_session`, `open("x")` of `_begin`, its `json.dump`, `_check_duplicate` |
| `Begin`, `Validate`, `Complete` | what the command does with its key, `_run_validation_chain`, `_complete` |
| `Restore`, `Inspect` | `rollback` in an active candidate |
| `Target`, `Clone`, `Checkout` | `CandidateWorkspaceManager.create` with its cleanup |
| `Open`, `Truncate`, `Write` | `_set_control_candidate`, which rewrites the file in place |
| `Build`, `Agent` | `_run_repair_agent`: the tools want a clean workspace; the agent then changes it in any way, step by step |
| `Kill` | between any two steps |

Every step may end in an exception, which ends the command and leaves its key started. `status`
only reads and is left out, as are refusals made before any file is read. The source stays clean
and its HEAD does not move; that creation notices a change is covered by its failing.

`IdempotentLedger` is what the sender of a key is promised: the key is taken for one command, whose
work is begun once; what came of it is settled once; whoever asks is told that, or nothing.
`ImplementsLedger` maps started and completed entries to the command taken, `runs` to the work
begun, completed entries to what is settled and `answers` to what was told. A key whose process
was killed or failed stays taken and unsettled.

| Run | Instance | Checks |
|---|---|---|
| `control` | two callers, three commands, two keys with a directory each, one kill; 2.0M states | `TypeOK`, `ActiveCandidateIsWhole`, `ImplementsLedger` |

Three commands are a key's holder, a competitor or repetition, and a command with another key
that meets the candidate of the first; the kill falls on any of them. `OneRunPerKey` and
`AnswersAgree` follow from the refinement and are proved on their own. The directories of the two
keys differ; `ActiveCandidateIsWhole` says nothing where two keys that were sent share one
(`Shared`), for which the code breaks it.

## 7. `SecureRepairWorkflow`: from the source to the decision

Three modules, each extending the one before, are one process and the persons who edit the two
repositories meanwhile.

* `CandidateWorkspace`: `create` of `workspace/candidate.py`, git command by git command
  (`SnapshotSource`, `Clone`, `Checkout`, `Validate`, `Recheck`, `Undo`), over the source (clean
  or not, moved or not), the candidate's directory and its tree.
* `ApprovalPackage`: `create` of `approval/package.py` (`ValidateRepositories`, `ListNames`,
  `Measure`, `Export`, `CheckValidation`, `Write`, `Place`, `LookAgain`, `Verify`, `Discard`). A
  tree is a function from files to contents, a patch the tree it leads to; sizes and forms a
  patch may be refused for are refusals.
* `SecureRepairWorkflow`: `start`, `decide`, `complete`, `rollback`, `cleanup` with the stage
  table and the statuses a session reports. The agent is what section 3 promises (`AgentRuns`: a
  submitted session over the tree it validated, or none; that a change may escape the session is
  left to section 3), the action manager what section 4 allows: it decides, refuses, fails, or
  raises an exception that leaves the session as it was (`DecisionEscapes`, `Rollback`).

`RestsDecidable` is about stage, statuses and package. The candidate of a pending session may be
gone, after `cleanup` or a decision that escaped; `decide` then fails. `PackageIsWhatWasValidated`
excepts the files persons changed in the candidate, and speaks of the names in the patch only while
they made fewer than two changes.

`ReviewedRepair` is the session to its user: a repair is offered at most once and stays as it was
offered, it is decided at most once, only what was applied can be taken back, and a session that
is closed or has failed says the same for ever. `ImplementsReview` maps stages to phases, the
patch of the package to the offer, and the three statuses to the report; a call that the table of
transitions stops half-way (`refused`) is mapped to a phase that does not exist, so that the
refinement includes `NoRefusedTransition`.

| Run | Instance | Checks |
|---|---|---|
| `workflow` | two allowed files and a test, three edits by persons; 2.5M states | `TypeOK`, `RestsDecidable`, `LeftoversAreReported`, `PackageIsWhatWasValidated`, `PlacedIsWhole`, `ImplementsReview` |

Two edits are what can pass both looks at the candidate unseen (a file changed and put back around
the export); the third meets another step. The model says what the code does where one may expect
otherwise: every `ApprovalActionError` of a decision ends the session as failed, also one that
changed nothing; a failed rollback is final; `cleanup` removes the candidate of a session that
still awaits its decision; an interrupt between the move of a package and the guarded block, or a
removal that fails, leaves a package behind a failed session; and a creation whose own clean-up
failed reports `cleanup_status` "not_created", with the failure category "cleanup_failed" as the
only trace.

## 8. `DockerSandbox`: validations in containers

State: the step of the validation that runs, `managed` (`_managed_containers`), the execution so
far, the daemon's containers with what the runner in them wrote, and the reports. One step is one
docker command; its timeout kills the client, not what the daemon does for it (`MayExist`,
`Detaches`), and the container ends on its own (`Ends`). `Interrupt` is Ctrl-C at any command.
Ghost: `unconfirmed`, the containers whose creation the client never saw confirmed.

| Run | Instance | Checks |
|---|---|---|
| `sandbox` | two validations by one backend, each with its container; 0.2M states | `TypeOK`, `VerdictIsTheTools`, `LeftoversAreManaged`, `ValidationsEnd` |

A backend runs one validation after the other; the second one meets the leftovers of the first.

## 9. `RepairAgent`: the loop and what it sends

`ContextProjection` is the projection of `agents/repair.py` as operators on a sequence of
messages: tool records, the records the next decision rests on (`Required`), the two passes that
replace the others by markers (`FirstPass`, `Squeezed`), and the protocol check. Lengths are small
numbers; a marker may be longer than a short result it replaces (`MarkerChars`), as in the code.

`RepairAgent` is `DefaultAgent.run` around it: limits before a query (`Stop`), the projection and
the call (`Query`), the adapter's attempts with billing (`AttemptFails`, `Answer`, `Lost`), an
answer that parses or not (`AcceptAnswer`, `RejectAnswer`), the tools (`Execute`) and Ctrl-C
(`Interrupt`). The session it works on is the `ToolSession` that section 3 implements: a tool may
have any `Effect` it has there, and nothing else touches the session. The provider answers
anything, also an identifier used before.

| Run | Instance | Checks |
|---|---|---|
| `agent` | two paths, one validation scope, results shorter and longer than a marker, context limit 13, four configurations of limits; 3.7M states | `TypeOK`, `EvidenceIsVisible`, `StaleIsNeverShown`, `OverrunIsNecessary`, `SpendIsBounded`, `RepeatedMeansInARow`, `RefusedForIdentifiers`, `RunEnds` |

Four model calls put four results into a context that holds about two, so that both passes happen,
with and without success, once giving up a part of what could be dropped and once all. The
configurations are a step limit; a cost limit with format errors; and the global limits on calls
and on cost behind a step limit.

## 10. What TLAPS proves

All for every value of the constants under the named assumptions of each module (disjoint file
sets, natural bounds and lengths, a finite set of prices, a `NoResult` that is no publisher).

* `RepairSession_proofs`. The inductive invariant `GateInv` says of each result that it is absent
  or current, that a current passed result was seen on the tree as it stands unless a change
  escaped, and that the phase is what results and names derive. `StepEffect` reduces the fourteen
  actions to a few kinds of effect (a new revision clears all results; a validator stamps its own;
  a reopening starts an epoch; the rest keep results and revision), so that each invariant is
  proved per effect. Proved: `TypeOK`, `RecordedSubmissionIsValidated`, `LockMatchesGates`,
  `NoStaleResult`, `ReadyLock`, `EditsInvalidate`, `FailureBudget`, `AuditIsConsistent`, and that
  the session implements `SubmissionGate` (`SessionImplementsGate`) and `ToolSession`
  (`SessionImplementsTools`, per effect as well). `GateInv` is needed because none of the safety
  properties is inductive: a submission is validated because *earlier* steps kept results and tree
  together.
* `ApprovalActions_proofs`. The invariant ties each process's step to what must have happened for
  it to be there (at `cleanup` and `save` the decision is recorded and is the process's own
  command; at `rbSave` a rollback is). Most steps only look at something or write the source
  (`LooksMoves`, `WritesMoves`), and keep it by moving within the same region. `SerialInv` is
  about the source: while `damage` is empty, at most one process works, and its step says what the
  source is off the files persons wrote. Proved: `TypeOK`, `StatusFollowsAudit`,
  `CandidateKeptForDecision`, from `SerialInv` `AuditMatchesSource`, and `DecisionsAreFinal` from
  `OnceInv`: while no two commands overlapped, nobody on its way to put `rollback.json` in place
  finds one there. `RecordInv` adds what a process relies on besides the audit: whoever decided is
  the only one on its way to `session.json`, which does not tell of it yet, a rollback works for a
  session that told of the approval, and an approval about to be published has a way back. With it
  every step is one of the acts of `DecidedRequest` or is not seen (`RequestIsOneRecord`).
  `TellInv`, that what was not told of yet has a process on its way to tell it or one that failed
  to (`untold`), gives `SessionMatchesAudit`.
* `ResultPublication_proofs`. The marker is a lock (`OneInside`), the bundle at the destination
  belongs to the process that works on it (`OwnBundle`), so what it checked still holds when the
  marker goes (`CheckedBundle`). Proved: `TypeOK`, `UnmarkedIsIntact`, `ReturnedIsKept`, and that
  the whole implements `AtomicPublication` (`PublicationIsAtomic`): each file operation is one of
  its four acts or is not seen. What decides is that at most one publication returns
  (`OneReturns`), and that a bundle in sight is sound (`ShownIsKept`).
* `ControlLedger_proofs`. `LedgerInv`: whoever claimed a key is its only holder, its entry is
  empty or started while it works, and every answer given is the one in the completed entry, which
  nothing reopens. `CandidateInv`: between checkout and record a candidate is whole, and it is not
  recorded before its creator is done, so that no cleanup meets it, unless another key that was
  sent has its directory (`Contested`). Proved: `TypeOK`, `OneRunPerKey`, `AnswersAgree`, that the
  ledger implements `IdempotentLedger` (`LedgerIsIdempotent`, with `HeldCommands`: who works under
  a key works for the command its entry names), and `ActiveCandidateIsWhole`, which excepts shared
  directories itself.
* `AttemptLease_proofs`. `LeaseInv`: whoever works under the lease is its only holder, and none
  works besides an attempt from before there were leases. `EvidenceInv`: a run leaves try, answer,
  `session.json` and result in this order. `ReportInv`: once the task is taken, that is visible
  for good to whoever looks. Proved: `TypeOK`, `OneAttempt`, `ReportsHold`.
* `DockerSandbox_proofs`. `KnownInv`: every container that exists is registered or was never
  confirmed; `VerdictInv`: what is read as a verdict comes from a container that has ended by
  itself, so nothing can change it before the report. Proved: `TypeOK`, `VerdictIsTheTools`,
  `LeftoversAreManaged`.
* `SecureRepairWorkflow_proofs`. `StageInv`: the session's stage follows from the step its process
  is at; `PlaceInv`: so does what the package directory holds; `FailureInv` and `DecisionInv`:
  what a failure and a decision leave; `CandidateInv`: who answers for the candidate's directory;
  `PatchInv`: what the patch exported so far has to do with the tree the agent validated. None of
  the properties is inductive alone: that a transition is never refused depends on the whole
  history of the process. Proved: `TypeOK`, `NoRefusedTransition`, `RestsDecidable`,
  `LeftoversAreReported`, `PackageIsWhatWasValidated`, `PlacedIsWhole`, and that the session
  implements `ReviewedRepair` (`WorkflowIsReviewedRepair`), where `ReportInv` says what the three
  statuses are in every stage from which the session goes on.
* `RepairAgent_proofs`. The loop: `LoopInv` gives the shape of the conversation, `CountInv` ties
  calls and cost to what was billed, `EndInv` the last message to how the run ended, `RowInv` the
  count of format errors to the rejections at the end of the conversation. Each is kept because a
  step does one of eleven things to the conversation (`Outcome`). The projection: `ContextInv`
  says what is sent is the projection of the conversation as it is, `EvidenceInv` that every
  passed result has its record in it. What a projection does is a chain of lemmas about sequences
  (`CompactedRecords`, `ProjectionRecords`, `NotRequiredIsSuperseded`, `SqueezedIsAPrefix`,
  `GivingOneBack`) that leave the sum of lengths uninterpreted, so that they hold for every way of
  measuring a message; least and greatest indices exist by well-foundedness. Proved: `TypeOK`,
  `EvidenceIsVisible`, `StaleIsNeverShown`, `OverrunIsNecessary`, `SpendIsBounded`,
  `RepeatedMeansInARow`, and `RefusedForIdentifiers`: `ProtocolInv` says that in the conversation
  every call is followed by its own result, and a projection changes neither who speaks nor what a
  result answers. `AgentDrivesSession` shows that a whole run is a behaviour of `ToolSession`: no
  message, format error, limit or interrupt changes the session, and nothing does after the repair
  was submitted. `EveryEffectIsTried` shows that the finite sets of sessions `Execute` draws from
  lose no effect of a tool.

The two theorems about `ToolSession`, one on each side, are what joins the models of sections 3
and 9. They meet in the abstract module and do not compose the two: that the agent's calls are
those of one particular behaviour of `RepairSession` is not stated.

With that, every invariant, action property and refinement that a passing run checks is proved. Only
model-checked: the violation runs, and what needs fairness (`ValidationsEnd`, `RunEnds`): liveness
and `ENABLED` are outside the prover. No module declares a recursive operator.

## 11. Fairness and deadlock

Most of the system promises no progress: what happens next is up to a language model, a person at
a terminal or the operating system. Two parts do, and state fairness:

* `DockerSandbox`: `WF_vars(Command)`. Every docker command is run with a timeout, so the next
  command of a validation comes, whatever the daemon does. Nothing is assumed of the container,
  of Ctrl-C or of the caller; `ValidationsEnd` rests on the host's own timeout of `docker start`.
* `RepairAgent`: `WF_vars(Step)`. A model call has a timeout per attempt and
  `MSWEA_MODEL_RETRY_STOP_AFTER_ATTEMPT` attempts, a tool has its own timeout, and the loop itself
  is sequential. `RunEnds` holds with a limit on steps, or one on cost with prices above zero
  (`AgentAssumption`); the repair configuration sets both. The wall-clock limit may strike at any
  query but is not relied on. Ctrl-C alone ends nothing.

All other specifications are `Init /\ [][Next]_vars`. `CHECK_DEADLOCK FALSE` stands in every
configuration because a session ends when it is submitted or raised, a command when it returns, a
run of the agent when it has ended, and the rest at the named bounds.

## 12. Findings, and what is not modelled

A violation run shows each of these:

* `interrupted_patch`: a `git apply` killed half-way is reported as a failure without
  `diff_may_have_changed` (`src/fastfix/tools/editing.py:316`); results taken before stay valid for
  a tree they never saw, against `docs/architecture.md:118`.
* `two_approvers`: of two approvals of one request, the one whose apply fails reverses the
  other's patch, which is then recorded as applied (`src/fastfix/approval/actions.py:372`), against
  `docs/architecture.md:185`.
* `approval_crash`: killed between a decision and the save of `session.json`
  (`run_fastfix_secure.py:713`), an applied patch cannot be rolled back, against `README.md:147`.
* `inspection`: an inspection that looked for the marker before and for the summary after it
  reports an unverified bundle as published (`run_task_baseline.py:588`), against
  `docs/architecture.md:224`.

Behaviour the models contain and no run singles out:

* a publisher that looked before another one returned creates its state afterwards, is refused
  with `result_exists` at its second look (`result_publication.py:155`) and leaves a failed state
  beside the complete result, which inspections then take for incomplete, where
  `tests/fastfix/security/test_result_publication.py:173` expects a refused publication to leave
  no state; in `AtomicPublication` this is a `Hide` after the return;
* a local pytest run may rewrite the very sources it tests (`sandbox/local.py:34`); its result,
  and those before it, stay current for sources no validator saw, until the next recorded edit
  (`RecordedSubmissionIsValidated` and the gate excuse it, as they excuse an edit that a failing
  git call keeps from being recorded, `repair_environment.py:100`, and a rollback that stopped
  half-way without a change of names, line 173: `unrecorded`);
* tracked files outside the allowed paths that a local pytest run rewrites are taken up by the
  next recorded edit and submitted (`repair_environment.py:155`), where `docs/architecture.md:139`
  requires all changed files to lie within the allowed paths;
* the loser of a race for an idempotency key may read the empty ledger entry and fail with a JSON
  error (`control/service.py:241`), where `tests/fastfix/control/test_control_interface.py:265`
  expects an answer; after a kill at that point the key stays unreadable;
* a `docker create` that times out may leave a container that is in no list and is never removed
  or reported (`sandbox/docker.py:311`), where `docs/architecture.md:162` says the container must
  finally be cleaned; `LeftoversAreManaged` excuses exactly these (`unconfirmed`);
* a validation of the current revision that failed may be compacted once another tool failed after
  it (`agents/repair.py:138`), where `docs/architecture.md:130` lists the validations of the
  current revision among what is kept; `EvidenceIsVisible` states what holds;
* a run that competes for the lease while `lease.json` is not written yet is refused with
  `attempt_lease_invalid` (`run_task_baseline.py:509`), where `docs/architecture.md:205` names
  `run_already_attempted`; refused it is in any case;
* a run whose answers were all malformed removes its session with the `attempt.json` that recorded
  a billed answer (`run_task_baseline.py:727`); the lease alone then tells of it;
* when the git call that decides about a restore fails too, `_approve` ends without attempting one
  (`actions.py:372`), a path error in the check of the reverse patch passes the handler and leaves
  the patch in the source (`actions.py:395`), and a rollback whose stamp fails leaves the source
  reversed (`actions.py:533`); `AuditMatchesSource` excuses these ends (`damage`: "unattempted");
* when closing the files of a published approval to writing fails or is interrupted
  (`actions.py:149`), the handler takes the patch out of the source again, under a decision that
  stays (`damage`: "withdrawn"), and the session is not told; a rollback interrupted right after
  its `os.replace` puts the patch back in the same way;
* two rollbacks at once may both find no `rollback.json` (`actions.py:547`), and the second one
  replaces the record of the first (line 549); without an overlap that cannot happen, whatever
  fails (`DecisionsAreFinal`);
* a rollback that is killed, or fails to write, before it knows its temporary file leaves that
  file in the action directory (`actions.py:543`), and no later rollback gets past `_read_audit`;
* `session.json` may fail to be written after the decision or the rollback was recorded
  (`run_fastfix_secure.py:715`, `738`), with the same effect as the kill of `approval_crash`;
* candidates are named by the first 12 characters of a key (`service.py:439`): of two concurrent
  repairs whose keys agree there, the one whose clone is refused removes the other's candidate,
  also when it is recorded already;
* a rollback of the control interface looks at the allowed paths only (`service.py:347`): files a
  test run left elsewhere stay, and it reports the base revision;
* the workspace of a command is resolved before its key is claimed (`service.py:291`), so that a
  validation overtaken by a repair is about the source;
* `state.json` is rewritten in place (`service.py:183`): killed in between, it stays unreadable
  and every later command ends in an error.

Not modelled because their difficulty is not in states and orders: the path policy, the read-only
repository and FastAPI tools, the adapters of other providers, upstream environments, runners and
viewers, the interactive agent, the evaluation and assessment scripts, and the benchmark data. Of
the secure runner, `prepare` is modelled by the workflow it starts; its preflight and its reports
are not. Abstracted everywhere: text of files, patches and messages, hashes (equal exactly when
contents are), wall-clock times, and the wording of errors.
