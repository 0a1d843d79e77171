--------------------------- MODULE DecidedRequest ---------------------------
(***************************************************************************)
(* What is on record about one approval request, without processes, git    *)
(* and the source: it is decided once, and an approval leaves a way back   *)
(* that does not change any more; the session tells of the decision later, *)
(* if at all; only an approval it told of can be taken back, and it may    *)
(* tell of that; and the candidate goes away bit by bit, after the         *)
(* decision.  Nothing here makes taking it back a single event: commands   *)
(* that overlap may put it on record one after the other.                  *)
(***************************************************************************)
EXTENDS Naturals

CONSTANT WaysBack  \* the reverse patches an approval may leave

VARIABLES verdict,  \* none, approve or reject
          back,     \* the way back from an approval
          undone,   \* how often it was taken
          told,     \* what the session tells
          remains   \* what is left of the candidate

recordVars == <<verdict, back, undone, told, remains>>

RecordInit ==
    /\ verdict = "none" /\ back = {} /\ undone = 0
    /\ told = "pending"
    /\ remains = "whole"

Approve(way) ==
    /\ verdict = "none" /\ verdict' = "approve"
    /\ back' = {way}
    /\ UNCHANGED <<undone, told, remains>>

Reject ==
    /\ verdict = "none" /\ verdict' = "reject"
    /\ UNCHANGED <<back, undone, told, remains>>

Tells(before, after) ==
    /\ told = before /\ told' = after
    /\ UNCHANGED <<verdict, back, undone, remains>>

Tell ==
    \/ verdict = "approve" /\ Tells("pending", "applied")
    \/ verdict = "reject" /\ Tells("pending", "rejected")
    \/ undone > 0 /\ Tells("applied", "rolled_back")

Undo ==
    /\ told \in {"applied", "rolled_back"}
    /\ undone' = undone + 1
    /\ UNCHANGED <<verdict, back, told, remains>>

Remove ==
    /\ verdict # "none"
    /\ <<remains, remains'>> \in
          {<<"whole", "partial">>, <<"whole", "gone">>, <<"partial", "gone">>}
    /\ UNCHANGED <<verdict, back, undone, told>>

RecordNext == (\E way \in WaysBack : Approve(way)) \/ Reject \/ Tell \/ Undo \/ Remove

RecordSpec == RecordInit /\ [][RecordNext]_recordVars
=============================================================================
