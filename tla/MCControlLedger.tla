--------------------------- MODULE MCControlLedger ---------------------------
(* Small instances of ControlLedger for TLC. *)
EXTENDS ControlLedger, TLC

CONSTANTS a, b, k1, k2, c1, c2

MCTwoCallers == {a, b}
MCTwoKeys == {k1, k2}
MCCandidates == {c1, c2}

\* Keys whose first twelve characters differ.
MCDistinct == k1 :> c1 @@ k2 :> c2

MCSymmetry == Permutations({a, b})
=============================================================================
