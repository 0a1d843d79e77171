-------------------------- MODULE AtomicPublication --------------------------
(***************************************************************************)
(* What a result directory is to its publishers and to whoever looks at    *)
(* it, without markers and failures: sound bundles come and go, out of     *)
(* sight, until one is shown; it is shown as a whole, and may be hidden or *)
(* go again; but once a publication has returned, its bundle stays, and    *)
(* nothing else is ever shown.                                             *)
(***************************************************************************)
CONSTANT Bundles

VARIABLES kept,     \* the sound bundle in place, if any
          shown,    \* the bundle in sight, if any
          returned  \* the bundles whose publication returned

NothingKept == kept = {} /\ shown = {} /\ returned = {}

Come(b) ==
    /\ NothingKept
    /\ kept' = {b}
    /\ UNCHANGED <<shown, returned>>

\* The publication may fail after it has shown its bundle.
Show ==
    /\ kept # {} /\ shown = {} /\ returned = {}
    /\ shown' = kept
    /\ returned' \in {{}, kept}
    /\ UNCHANGED kept

\* A failure of its own or of another publisher, before or after the return.
Hide ==
    /\ shown # {}
    /\ shown' = {}
    /\ UNCHANGED <<kept, returned>>

Go ==
    /\ kept # {} /\ returned = {}
    /\ kept' = {} /\ shown' = {}
    /\ UNCHANGED returned

PublicationNext == (\E b \in Bundles : Come(b)) \/ Show \/ Hide \/ Go

PublicationSpec == NothingKept /\ [][PublicationNext]_<<kept, shown, returned>>
=============================================================================
