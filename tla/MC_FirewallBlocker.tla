------------------------- MODULE MC_FirewallBlocker -------------------------
(* Two callers, two addresses and two blocks: both at once, or one address *)
(* blocked again after its first block was removed.                        *)
EXTENDS FirewallBlocker
=============================================================================
