----------------------------- MODULE ToolSession -----------------------------
(***************************************************************************)
(* A repair session as the tools of the repair agent work on it: its stamp *)
(* of revision and epoch, whether anything is changed, and what each       *)
(* validation said.  RepairAgent drives a session through these effects;   *)
(* RepairSession, which has the working tree, the phases and the stamps of *)
(* the single results, implements it.                                      *)
(***************************************************************************)
EXTENDS Naturals

CONSTANT Scopes  \* what a validation is about: targeted, regression, run_ruff

VARIABLES session,   \* RepairSessionState, as the tools see it
          submitted  \* the repair was submitted

Tools == {"read", "search", "diff", "edit", "rollback", "validate", "submit", "reopen"}

Subjects(tool) == IF tool = "validate" THEN Scopes ELSE {"none"}

NoResults == [scope \in Scopes |-> "none"]

Session(revision, epoch, changed, results) ==
    [revision |-> revision, epoch |-> epoch, changed |-> changed, results |-> results]

\* record_patch and record_rollback: a revision, an epoch and no results.
Revised(changed) ==
    Session(session.revision + 1, session.epoch + 1, changed, NoResults)

Ready == session.changed /\ \A scope \in Scopes : session.results[scope] = "passed"

\* record_reopen
Reopened == Session(session.revision, session.epoch + 1, session.changed, NoResults)

\* record_pytest and record_ruff
Judged(scope, verdict) ==
    Session(session.revision, session.epoch, session.changed,
            [session.results EXCEPT ![scope] = verdict])

\* valid_repair_actions
Valid(tool) ==
    IF Ready THEN tool \in {"diff", "submit", "rollback", "reopen"}
             ELSE tool # "reopen"

\* The answer of a tool and the session after it.  An edit that failed may have
\* changed the tree all the same, and is then recorded.
Effect(call, ok, after) ==
    \/ ~ok /\ after = session
    \/ /\ Valid(call.tool)
       /\ CASE call.tool \in {"edit", "rollback"} ->
                   \E changed \in BOOLEAN : after = Revised(changed)
            [] call.tool = "validate" ->
                   after = Judged(call.about, IF ok THEN "passed" ELSE "failed")
            [] call.tool = "reopen" -> ok /\ after = Reopened
            [] OTHER -> ok /\ call.tool # "submit" /\ after = session

Fresh == Session(0, 0, FALSE, NoResults)

SessionInit == session = Fresh /\ submitted = FALSE

UseTool(call, ok) == Effect(call, ok, session') /\ UNCHANGED submitted

\* submit_repair is accepted only when every gate is passed.
Accept == Ready /\ submitted' = TRUE /\ UNCHANGED session

SessionNext ==
    /\ ~submitted
    /\ \/ Accept
       \/ \E tool \in Tools, ok \in BOOLEAN : \E about \in Subjects(tool) :
              UseTool([tool |-> tool, about |-> about], ok)

SessionSpec == SessionInit /\ [][SessionNext]_<<session, submitted>>
=============================================================================
