---------------------------- MODULE MCAuditChain ----------------------------
(***************************************************************************)
(* Small instances of AuditChain for TLC.                                  *)
(***************************************************************************)
EXTENDS AuditChain
CONSTANTS q1, q2

MCReqs == {q1, q2}
=============================================================================
