-------------------------- MODULE MCApprovalActions --------------------------
(* Small instances of ApprovalActions for TLC. *)
EXTENDS ApprovalActions, TLC

CONSTANTS r1, r2, p1, p2, o1

MCOneReviewer == {r1}
MCTwoReviewers == {r1, r2}
MCPatchFiles == {p1, p2}
MCOnePatchFile == {p1}
MCOtherFiles == {o1}
MCNoOther == {}

MCSymmetry == Permutations({r1, r2}) \cup Permutations({p1, p2})
=============================================================================
