-------------------------- MODULE MCAgentExecution --------------------------
(***************************************************************************)
(* Two tasks, two files.                                                   *)
(***************************************************************************)
EXTENDS AgentExecution

CONSTANTS t1, t2, f1, f2
=============================================================================
