--------------------------- MODULE MC_GuardedStore ---------------------------
(* Two writers; one populated path, one decoy that is new and one decoy    *)
(* path that is written by others too; three calls, so that both threads   *)
(* write and one of them plants.                                           *)
EXTENDS GuardedStore, TLC

CONSTANTS old, new

MCDecoyFiles == <<new, old>>
=============================================================================
