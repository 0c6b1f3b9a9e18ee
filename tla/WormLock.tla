------------------------------ MODULE WormLock ------------------------------
(***************************************************************************)
(* core/worm_lock: the two-state lockdown every writer consults.  Both     *)
(* transitions run under the lock's own mutex, so each is one step.  The   *)
(* diagnostic fields (reason, lockdown_count) are left out: no decision of *)
(* the program reads them.                                                 *)
(***************************************************************************)
VARIABLE worm       \* WormLock::state_

WormStates == {"NORMAL", "LOCKED"}

WormInit == worm = "NORMAL"

(* WormLock::is_locked, the lock_check every guarded store is given. *)
Locked == worm = "LOCKED"

(* trigger_lockdown: idempotent.  Its result ("did the state change?") is  *)
(* the value of ~Locked in the state before the step.                      *)
TriggerLockdown == worm' = "LOCKED"

(* unlock: idempotent as well. *)
Unlock == worm' = "NORMAL"
=============================================================================
