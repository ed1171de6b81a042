---------------------------- MODULE MC_AgentJob ----------------------------
(***************************************************************************)
(* AgentJob for TLC: its constants are plain values, given in the .cfg.    *)
(***************************************************************************)
EXTENDS AgentJob

=============================================================================
