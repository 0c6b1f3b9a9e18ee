------------------------------ MODULE MC_Bridge ------------------------------
(* The stdin thread and one other; the approvers of the demo scaled to two *)
(* of two; one score per band, 45 also inside HIGH's hysteresis margin.    *)
EXTENDS Bridge, TLC

CONSTANTS a1, a2, t1, t2

MCTokenOf == (a1 :> t1) @@ (a2 :> t2)
=============================================================================
