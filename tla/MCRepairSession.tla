--------------------------- MODULE MCRepairSession ---------------------------
(* One source file with up to two contents besides HEAD's, and a test file;  *)
(* with the local backend a pytest run may rewrite both.                     *)
EXTENDS RepairSession, TLC

CONSTANTS app, conftest, original, edited, broken

MCNone == {}
MCOneFile == {app}
MCSideTest == {conftest}
MCAllFiles == {app, conftest}
MCContents == {original, edited, broken}

\* The edited contents are interchangeable.
MCSymmetry == Permutations({edited, broken})
=============================================================================
