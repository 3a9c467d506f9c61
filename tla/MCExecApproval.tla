---------------------------- MODULE MCExecApproval ----------------------------
(***************************************************************************)
(* Instances of ExecApproval for TLC.                                      *)
(***************************************************************************)
EXTENDS ExecApproval
===============================================================================
