------------------------- MODULE MCResultPublication -------------------------
(* Small instances of ResultPublication for TLC. *)
EXTENDS ResultPublication, TLC

CONSTANTS p1, p2, p3, inspect

MCPublishers == {p1, p2, p3}
MCTwoPublishers == {p1, p2}
MCReaders == {inspect}

MCSymmetry == Permutations({p1, p2, p3})
=============================================================================
