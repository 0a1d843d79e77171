-------------------------- MODULE IdempotentLedger --------------------------
(***************************************************************************)
(* What the control interface promises the sender of an idempotency key,   *)
(* without files, processes and kills: the key is taken for one command,   *)
(* and that command's work is begun, once; what came of it is settled once *)
(* and for good; and whoever asks for that command with that key is told   *)
(* what was settled, or nothing.                                           *)
(***************************************************************************)
EXTENDS Naturals

CONSTANTS Keys, Commands, Results

VARIABLES taken,    \* per key, the command it was taken for, if any
          begun,    \* per key, how often its work was begun
          settled,  \* per key, what came of it, once it is known
          told      \* the results given to whoever sent a key

AccountInit ==
    /\ taken = [k \in Keys |-> {}]
    /\ begun = [k \in Keys |-> 0]
    /\ settled = [k \in Keys |-> {}]
    /\ told = {}

Take(k, c) ==
    /\ taken[k] = {} /\ begun[k] = 0
    /\ taken' = [taken EXCEPT ![k] = {c}]
    /\ begun' = [begun EXCEPT ![k] = 1]
    /\ UNCHANGED <<settled, told>>

\* What is said of key k: nothing while one of the sets is empty.
Says(k, commands, results) ==
    {[key |-> k, command |-> c, result |-> r] : c \in commands, r \in results}

\* The one who did the work settles it, and is told so.
Settle(k, r) ==
    /\ taken[k] # {} /\ settled[k] = {}
    /\ settled' = [settled EXCEPT ![k] = {r}]
    /\ told' = told \cup Says(k, taken[k], {r})
    /\ UNCHANGED <<taken, begun>>

Tell(k) ==
    /\ told' = told \cup Says(k, taken[k], settled[k])
    /\ UNCHANGED <<taken, begun, settled>>

AccountNext ==
    \E k \in Keys : \/ \E c \in Commands : Take(k, c)
                    \/ \E r \in Results : Settle(k, r)
                    \/ Tell(k)

AccountSpec == AccountInit /\ [][AccountNext]_<<taken, begun, settled, told>>
=============================================================================
