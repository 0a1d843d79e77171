--------------------------- MODULE SubmissionGate ---------------------------
(***************************************************************************)
(* What a repair session promises, without revisions, epochs, phases or    *)
(* results: a piece of work is handed in only when every gate vouches for  *)
(* it, and work that is edited loses every voucher in the same step.  The  *)
(* weaknesses of the implementation are stated, not hidden: an edit may    *)
(* slip past the session, and then the vouchers stay; and a gate may       *)
(* change the very work it judges, and then vouches for what it left.      *)
(***************************************************************************)
CONSTANTS Gates,  \* the validations required
          Works,  \* what the work can be
          Start   \* the work before any edit

VARIABLES work,     \* the work as it stands
          vouched,  \* the gates that vouch for it
          slipped,  \* a change went unnoticed since the last noticed one
          done      \* the work was handed in

gateVars == <<work, vouched, slipped, done>>

GateInit ==
    /\ work = Start
    /\ vouched = {}
    /\ slipped = FALSE
    /\ done = FALSE

\* A noticed edit, also one that restores earlier work.
Edit ==
    /\ work' \in Works
    /\ vouched' = {}
    /\ slipped' = FALSE
    /\ UNCHANGED done

Slip ==
    /\ work' \in Works \ {work}
    /\ slipped' = TRUE
    /\ UNCHANGED <<vouched, done>>

\* All gates are closed again without an edit.
Reset ==
    /\ vouched' = {}
    /\ UNCHANGED <<work, slipped, done>>

Judge(g) ==
    /\ vouched' \in {vouched \cup {g}, vouched \ {g}}
    /\ \/ UNCHANGED <<work, slipped>>
       \/ work' \in Works \ {work} /\ slipped' = TRUE
    /\ UNCHANGED done

HandIn ==
    /\ vouched = Gates
    /\ done' = TRUE
    /\ UNCHANGED <<work, vouched, slipped>>

GateNext ==
    /\ ~done
    /\ \/ Edit \/ Slip \/ Reset \/ HandIn
       \/ \E g \in Gates : Judge(g)

GateSpec == GateInit /\ [][GateNext]_gateVars
=============================================================================
