-------------------------- MODULE MC_UnlockService --------------------------
(* Two approvers, both needed; enough challenges for two sessions.         *)
EXTENDS UnlockService, TLC

CONSTANTS a1, a2, t1, t2

MCTokenOf == (a1 :> t1) @@ (a2 :> t2)
=============================================================================
