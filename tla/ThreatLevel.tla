---------------------------- MODULE ThreatLevel ----------------------------
(***************************************************************************)
(* core/threat_level: the four-tier threat state machine.  Every entry     *)
(* into CRITICAL calls the worm_trigger callback while the machine's mutex *)
(* is held, and every reader of the tier takes that mutex, so a transition *)
(* and the lockdown it triggers are one step.                              *)
(***************************************************************************)
EXTENDS Integers, WormLock

VARIABLE tier       \* ThreatStateMachine::current_tier_

LOW == 0
MEDIUM == 1
HIGH == 2
CRITICAL == 3
Tiers == LOW..CRITICAL

ThreatInit == tier = LOW

(* The 0..100 clamp at the head of observe_signal. *)
Clamp(s) == IF s < 0 THEN 0 ELSE IF s > 100 THEN 100 ELSE s

(* The tier a score asks for. *)
TierOf(s) ==
  CASE s >= 75 -> CRITICAL
    [] s >= 50 /\ s < 75 -> HIGH
    [] s >= 25 /\ s < 50 -> MEDIUM
    [] OTHER -> LOW

(* tier_lower_threshold: the least score of a tier's band. *)
LowerThreshold(t) == 25 * t

(* Faulty variants of do_transition: the lockdown only on the way up from  *)
(* HIGH; the tier raised by t instead of set to it.                        *)
DoTransitionFromHighOnly(t) ==
  /\ tier' = t
  /\ IF t = CRITICAL /\ tier = HIGH THEN TriggerLockdown ELSE UNCHANGED worm

DoTransitionAdds(t) ==
  /\ tier' = tier + t
  /\ IF t = CRITICAL THEN TriggerLockdown ELSE UNCHANGED worm

(* do_transition: CRITICAL also engages the lockdown. *)
DoTransition(t) ==
  /\ tier' = t
  /\ IF t = CRITICAL THEN TriggerLockdown ELSE UNCHANGED worm

(* The new tier observe_signal decides on: up at once, down only with a    *)
(* margin of more than ten points, otherwise the tier stays.               *)
Escalates(s) == TierOf(s) > tier
Deescalates(s) == TierOf(s) < tier /\ s < LowerThreshold(tier) - 10

ObserveClamped(s) ==
  IF Escalates(s) \/ Deescalates(s)
  THEN DoTransition(TierOf(s))
  ELSE UNCHANGED <<tier, worm>>

ObserveSignal(s) == ObserveClamped(Clamp(s))

(* force_tier: unconditional, a no-op when the tier is already t. *)
ForceTier(t) ==
  IF t = tier THEN UNCHANGED <<tier, worm>> ELSE DoTransition(t)
=============================================================================
