--------------------------- MODULE MCAttemptLease ----------------------------
(* AttemptLease for TLC.  Runs are alike, and so are viewers. *)
EXTENDS AttemptLease, TLC

Symmetry == Permutations(Runs) \cup Permutations(Viewers)

=============================================================================
