-------------------------- MODULE ThreatLevel_proofs --------------------------
(***************************************************************************)
(* Lemmas about the threat machine, for every integer score: what any of   *)
(* its steps may do to the tier and to the lock.                           *)
(***************************************************************************)
EXTENDS ThreatLevel, TLAPS

(* What any step of the threat machine does to the pair (tier, worm).      *)
ThreatMove ==
  /\ tier' \in Tiers
  /\ worm' \in {worm, "LOCKED"}
  /\ tier' = CRITICAL /\ tier # CRITICAL => worm' = "LOCKED"

-----------------------------------------------------------------------------
(* Both ways of moving the tier, scored and forced, keep it within the     *)
(* four tiers, never lift the lock, and engage it on entering CRITICAL.    *)
LEMMA ObserveIsThreatMove ==
  ASSUME tier \in Tiers, NEW s \in Int, ObserveSignal(s)
  PROVE  ThreatMove
<1>1. Clamp(s) \in Int
  BY DEF Clamp
<1>2. TierOf(Clamp(s)) \in Tiers
  BY <1>1 DEF TierOf, Tiers, LOW, MEDIUM, HIGH, CRITICAL
<1>3. QED
  BY <1>2 DEF ObserveSignal, ObserveClamped, DoTransition, TriggerLockdown, ThreatMove

(* The forced transition (force_tier), as above. *)
LEMMA ForceIsThreatMove ==
  ASSUME tier \in Tiers, NEW t \in Tiers, ForceTier(t)
  PROVE  ThreatMove
BY DEF ForceTier, DoTransition, TriggerLockdown, ThreatMove

(* The named tiers are tiers (threat_level.h). *)
LEMMA TiersAreNamed == {LOW, MEDIUM, HIGH, CRITICAL} \subseteq Tiers
BY DEF Tiers, LOW, MEDIUM, HIGH, CRITICAL
=============================================================================
