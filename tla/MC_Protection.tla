---------------------------- MODULE MC_Protection ----------------------------
(* Two threads in the rules and in the detector, whose windows take two    *)
(* samples, so that two windows, or one reported twice, are reached; three *)
(* signals into a ring of two, drained two at a time; a rotation of two    *)
(* agents of which one is not loaded; two connections, which may save a    *)
(* short and a long configuration over each other.                         *)
EXTENDS Protection

TwoAgents == <<"threat_hunter", "alert_triage">>
ShortAndLong == {<<"s">>, <<"l", "m">>}
=============================================================================
