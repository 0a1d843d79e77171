----------------------------- MODULE RepairAgent -----------------------------
(***************************************************************************)
(* The loop of a repair agent: run and step of DefaultAgent                *)
(* (src/minisweagent/agents/default.py) with the query of                  *)
(* FastFixRepairAgent, the model adapter behind it (litellm_model.py and   *)
(* fastfix/models/tool_call.py) and the tools of the repair environment,   *)
(* by their effect on the session and the answer they give.                *)
(*                                                                         *)
(* The provider answers anything, fails any number of times and may repeat *)
(* an identifier; Ctrl-C may arrive at any step.                           *)
(***************************************************************************)
EXTENDS ContextProjection

CONSTANTS Configs,    \* limits a run may have, 0 for none; calls and spend are global
          Prices,     \* what a call may cost
          Attempts,   \* MSWEA_MODEL_RETRY_STOP_AFTER_ATTEMPT
          Lengths     \* lengths a tool's output may have

VARIABLES config,     \* the limits of this run
          at,         \* query, model, execute; ended or raised
          messages,   \* self.messages
          context,    \* the last projection, sent if it is well formed
          trajectory, \* messages as last saved
          nCalls,     \* n_calls
          cost,       \* cost
          formatErrors, \* n_consecutive_format_errors
          attempt,    \* failed attempts of the current model call
          billed,     \* GLOBAL_MODEL_STATS: calls and cost
          session     \* the repair session the tools work on

Exit(status) == [role |-> "exit", status |-> status]
Rejection == [role |-> "user"]

\* The repair session, submitted when the conversation says so.
INSTANCE ToolSession WITH
    submitted <- messages[Len(messages)] = Exit("Submitted")

ASSUME AgentAssumption ==
    /\ Configs \subseteq [steps : Nat, cost : Nat, formats : Nat,
                            calls : Nat, spend : Nat]
    /\ \A c \in Configs : c.steps > 0 \/ c.cost > 0
    /\ Prices \subseteq Nat \ {0} /\ IsFiniteSet(Prices) /\ Prices # {}
    /\ Attempts \in Nat \ {0}
    /\ Lengths \in [Tools -> SUBSET Nat]

vars == <<config, at, messages, context, trajectory, nCalls, cost, formatErrors,
          attempt, billed, session>>

\* 0 < limit <= value
Reached(limit, value) == 0 < limit /\ limit <= value

-----------------------------------------------------------------------------
(* How a step ends: run() adds the messages and saves in any case. *)

Save(conversation) == messages' = conversation /\ trajectory' = conversation

\* Mutant: what ends a step is added after the save.
SaveFirst(added) == messages' = messages \o added /\ trajectory' = messages

Record(added) == Save(messages \o added)

GoOn(added) == at' = "query" /\ Record(added)
EndWith(added) == at' = "ended" /\ Record(added)

\* handle_uncaught_exception, then raise.
Raise == at' = "raised" /\ Record(<<Exit("exception")>>)

-----------------------------------------------------------------------------
(* query *)

OutOfBudget == Reached(config.steps, nCalls) \/ Reached(config.cost, cost)

\* The second disjunct is the wall-clock limit.
Stop ==
    /\ at = "query"
    /\ \/ OutOfBudget /\ EndWith(<<Exit("LimitsExceeded")>>)
       \/ ~OutOfBudget /\ EndWith(<<Exit("TimeExceeded")>>)
    /\ UNCHANGED <<config, context, nCalls, cost, formatErrors, attempt, billed, session>>

Stamp == <<session.revision, session.epoch>>

Query ==
    /\ at = "query"
    /\ ~OutOfBudget
    /\ nCalls' = nCalls + 1
    /\ context' = Projection(messages, Stamp)
    /\ IF WellFormed(context') THEN at' = "model" /\ UNCHANGED <<messages, trajectory>>
                               ELSE Raise
    /\ UNCHANGED <<config, cost, formatErrors, attempt, billed, session>>

\* Mutant: after the last attempt the count starts over.
StartOver == (attempt + 1) % Attempts

NextAttempt == attempt + 1

\* An attempt fails: it is repeated, or was the last, or is not worth repeating.
AttemptFails ==
    /\ at = "model"
    /\ attempt' = NextAttempt
    /\ \/ attempt' < Attempts /\ UNCHANGED <<at, messages, trajectory>>
       \/ Raise
    /\ UNCHANGED <<config, context, nCalls, cost, formatErrors, billed, session>>

\* The provider answers and the call is billed (GLOBAL_MODEL_STATS.add).
Bill(price) ==
    /\ at = "model"
    /\ billed' = [calls |-> billed.calls + 1, cost |-> billed.cost + price]

GlobalLimitExceeded ==
    \/ 0 < config.spend /\ config.spend < billed'.cost
    \/ Reached(config.calls, billed'.calls)

Answer(price) == Bill(price) /\ ~GlobalLimitExceeded /\ attempt' = 0

\* The answer is lost: its price cannot be computed, or a global limit is exceeded.
Lost ==
    /\ \/ at = "model" /\ UNCHANGED billed
       \/ \E price \in Prices : Bill(price) /\ GlobalLimitExceeded
    /\ Raise
    /\ UNCHANGED <<config, context, nCalls, cost, formatErrors, attempt, session>>

About(tool) == CASE tool = "read" -> Paths
                 [] tool = "validate" -> Scopes
                 [] OTHER -> {"none"}

\* An answer with exactly one call of a known tool.  Its identifier is fresh,
\* or that of the call before (on the first call: empty).
AcceptAnswer(price) ==
    /\ Answer(price)
    /\ \E tool \in Tools, id \in {nCalls, nCalls - 1} : \E about \in About(tool) :
           messages' = Append(messages, Call(id, tool, about))
    /\ cost' = cost + price
    /\ at' = "execute"
    /\ UNCHANGED <<config, context, trajectory, nCalls, formatErrors, session>>

RejectWith(price, charge) ==
    /\ Answer(price)
    /\ cost' = cost + charge
    /\ formatErrors' = formatErrors + 1
    /\ IF Reached(config.formats, formatErrors')
       THEN EndWith(<<Rejection, Exit("RepeatedFormatError")>>)
       ELSE GoOn(<<Rejection>>)
    /\ UNCHANGED <<config, context, nCalls, session>>

\* Mutant: a call whose answer is rejected is not charged.
RejectUncharged(price) == RejectWith(price, 0)

\* FormatError: the call was billed, so run() charges it.
RejectAnswer(price) == RejectWith(price, price)

-----------------------------------------------------------------------------
(* execute_actions *)

\* Mutant: a clean step does not reset the count.
CountKept == UNCHANGED formatErrors
ResetFormatErrors == formatErrors' = 0

Afters(changed) ==
    {session, Revised(changed), Reopened}
        \cup {Judged(scope, verdict) : scope \in Scopes, verdict \in {"passed", "failed"}}

ReturnsWith(call, ok, after, observation) ==
    /\ Effect(call, ok, after)
    /\ session' = after
    /\ GoOn(observation)
    /\ ResetFormatErrors

\* The result is stamped with the revision and the epoch after the call.
Observation(call, ok, after, chars) ==
    <<Result(call.id, ok, <<after.revision, after.epoch>>, chars)>>

\* Mutant: a tool that refused leaves no observation.
ReturnsIfOk(call, ok, after, chars) ==
    ReturnsWith(call, ok, after, IF ok THEN Observation(call, ok, after, chars) ELSE <<>>)

Returns(call, ok, after, chars) ==
    ReturnsWith(call, ok, after, Observation(call, ok, after, chars))

Execute ==
    /\ at = "execute"
    /\ LET call == messages[Len(messages)] IN
       \/ \E ok \in BOOLEAN, changed \in BOOLEAN : \E after \in Afters(changed) :
             \E chars \in Lengths[call.tool] : Returns(call, ok, after, chars)
       \/ /\ call.tool = "submit" /\ Ready
          /\ EndWith(<<Exit("Submitted")>>)
          /\ UNCHANGED <<session, formatErrors>>
       \/ Raise /\ UNCHANGED <<session, formatErrors>>
    /\ UNCHANGED <<config, context, nCalls, cost, attempt, billed>>

\* Ctrl-C: only the save in the finally clause runs.
Interrupt ==
    /\ at \in {"query", "model", "execute"}
    /\ at' = "raised"
    /\ Record(<<>>)
    /\ UNCHANGED <<config, context, nCalls, cost, formatErrors, attempt, billed, session>>

-----------------------------------------------------------------------------
Init ==
    /\ config \in Configs
    /\ at = "query"
    /\ messages = <<Message("system"), Message("user")>>
    /\ context = <<>> /\ trajectory = <<>>
    /\ nCalls = 0 /\ cost = 0 /\ formatErrors = 0 /\ attempt = 0
    /\ billed = [calls |-> 0, cost |-> 0]
    /\ session = Fresh

Model ==
    \/ AttemptFails
    \/ Lost
    \/ \E price \in Prices : AcceptAnswer(price) \/ RejectAnswer(price)

Step == Stop \/ Query \/ Model \/ Execute

Next == Step \/ Interrupt

\* Every tool has a timeout, and every attempt of a model call ends.
Spec == Init /\ [][Next]_vars /\ WF_vars(Step)

-----------------------------------------------------------------------------
(* Properties *)

\* Every variable keeps its range.  A run that ended says how in its last
\* message, which is on disk with everything before it.
TypeOK ==
    /\ config \in Configs
    /\ at \in {"query", "model", "execute", "ended", "raised"}
    /\ nCalls \in Nat /\ formatErrors \in 0..nCalls /\ attempt \in 0..Attempts
    /\ session.results \in [Scopes -> {"none", "passed", "failed"}]
    /\ at \in {"ended", "raised"} => trajectory = messages
    /\ at = "ended" <=> \E i \in DOMAIN messages :
                            /\ messages[i].role = "exit"
                            /\ messages[i].status # "exception"

Asked == at = "model"

Whole(i) == context[i + 1].whole
Outdated(i) == context[i].tool = "validate" /\ context[i + 1].stamp # Stamp

\* What the gate counts as passed is in front of the model whenever it is asked,
\* with the newest content read of every file, the newest diff, the newest
\* failure unless it is a stale validation, and the newest answer.
EvidenceIsVisible ==
    Asked =>
        /\ \A scope \in Scopes : session.results[scope] = "passed" =>
               \E i \in Records(context) :
                   /\ context[i].tool = "validate" /\ context[i].about = scope
                   /\ context[i + 1].ok /\ context[i + 1].stamp = Stamp /\ Whole(i)
        /\ \A i \in Records(context) :
               \/ Whole(i)
               \/ Outdated(i)
               \/ \E j \in Records(context) :
                      /\ j > i
                      /\ IF context[i + 1].ok
                         THEN \/ context[i].tool \notin {"read", "diff", "validate"}
                              \/ /\ context[j + 1].ok
                                 /\ context[j].tool = context[i].tool
                                 /\ context[j].about = context[i].about
                         ELSE ~context[j + 1].ok

\* No output of a validation of an earlier revision or epoch is in front of the
\* model as if it were about the tree it is working on.
StaleIsNeverShown ==
    Asked => \A i \in Records(context) : Whole(i) => ~Outdated(i)

\* A context above its limit holds nothing long or old that could have been left
\* out, and one within it was not squeezed further than it had to be.
OverrunIsNecessary ==
    LET spared == {i \in Records(context) \ Required(context, Stamp) : Whole(i)}
        squeezed == {i \in Records(context) \ Required(context, Stamp) :
                        /\ ~Whole(i) /\ ~Outdated(i)
                        /\ context[i + 1].chars <= CompactThreshold}
    IN  Asked => /\ Chars(context) > MaxChars => spared = {}
                 /\ \A i \in squeezed, j \in spared : i < j
                 /\ squeezed # {} =>
                        Chars([context EXCEPT ![Max(squeezed) + 1].whole = TRUE]) > MaxChars

\* The protocol check refuses a context only for an identifier the provider
\* left empty or gave twice: whatever came before -- failed tools, rejected
\* answers, results compacted away -- every call in front of the model has its
\* own result, and every result its call.
RefusedForIdentifiers ==
    LET calls == {i \in DOMAIN context : context[i].role = "assistant"}
    IN  ~WellFormed(context) =>
            \E i \in calls : \/ context[i].id = 0
                             \/ \E j \in calls \ {i} : context[j].id = context[i].id

\* What has really been spent stays within the limits but for the call that
\* crossed them, whatever the answers were; while the run lasts it is what the
\* agent counted.
SpendIsBounded ==
    /\ at \in {"query", "model", "execute"} => cost = billed.cost
    /\ config.steps > 0 => billed.calls <= config.steps
    /\ config.calls > 0 => billed.calls <= config.calls
    /\ config.cost > 0 => billed.cost < config.cost + Max(Prices)

\* The run is given up for its format errors exactly when as many answers as
\* configured were rejected one after the other.
RepeatedMeansInARow ==
    LET n == config.formats
        row(k) == \A i \in k + 1 .. k + n : i > 2 /\ messages[i].role = "user"
    IN  n > 0 => \A k \in 0 .. Len(messages) - n :
            row(k) <=> /\ Len(messages) = k + n + 1
                       /\ messages[k + n + 1] = Exit("RepeatedFormatError")

\* Every run ends.
RunEnds == <>(at \in {"ended", "raised"})

=============================================================================
