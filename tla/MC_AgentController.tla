-------------------------- MODULE MC_AgentController --------------------------
(* Two workers and three tasks, so that one task waits while two run, two  *)
(* of them of the same agent; the pool is started twice.                   *)
EXTENDS AgentController
=============================================================================
