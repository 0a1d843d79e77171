---------------------------- MODULE ReviewedRepair ----------------------------
(***************************************************************************)
(* What a secure repair session is to its user, without candidates, files, *)
(* packages and git: a repair is offered at most once, and stays as it was *)
(* offered; it is approved or rejected at most once; only what was applied *)
(* can be taken back; and a session that is closed or has failed says the  *)
(* same for ever.                                                          *)
(***************************************************************************)
CONSTANT Repairs

VARIABLES phase,   \* working, offered, applied, closed, failed
          offer,   \* the repair on offer, once there is one
          report   \* what the session says of approval, application, rollback

reviewVars == <<phase, offer, report>>

Says(approved, applied, undone) ==
    [approval |-> approved, application |-> applied, rollback |-> undone]

ReviewInit ==
    /\ phase = "working"
    /\ offer = {}
    /\ report = Says("not_created", "not_applied", "not_requested")

From(before, after, says) ==
    /\ phase = before /\ phase' = after
    /\ report' = says

Offer(r) ==
    /\ From("working", "offered", Says("pending", "not_applied", "not_requested"))
    /\ offer' = {r}

\* While it is worked on, or instead of a decision.
GiveUp ==
    /\ phase \in {"working", "offered"}
    /\ From(phase, "failed", report)
    /\ UNCHANGED offer

Decide ==
    /\ \/ From("offered", "applied", Says("approved", "applied", "not_requested"))
       \/ From("offered", "closed", Says("rejected", "not_applied", "not_requested"))
    /\ UNCHANGED offer

Keep == From("applied", "closed", report) /\ UNCHANGED offer

TakeBack ==
    /\ \/ From("applied", "closed", Says("approved", "applied", "rolled_back"))
       \/ From("applied", "failed", Says("approved", "applied", "failed"))
    /\ UNCHANGED offer

ReviewNext == (\E r \in Repairs : Offer(r)) \/ GiveUp \/ Decide \/ Keep \/ TakeBack

ReviewSpec == ReviewInit /\ [][ReviewNext]_reviewVars
=============================================================================
