------------------------ MODULE MCSecureRepairWorkflow ------------------------
(* Instances of SecureRepairWorkflow for TLC. *)
EXTENDS SecureRepairWorkflow

CONSTANTS a1, a2, t1

MCAllowed == {a1, a2}
MCOthers == {t1}
=============================================================================
