---------------------------- MODULE RuleService ----------------------------
(***************************************************************************)
(* The rule engine as a library, every rule available to every thread (the *)
(* bridge wires RULE-02, RULE-04 and RULE-05 only), beside an owner who    *)
(* may lift the lock at any moment.                                        *)
(***************************************************************************)
EXTENDS RuleEngine

CONSTANT FailureCounts      \* authentication failures reported per window

ASSUME FailuresAreNats == FailureCounts \subseteq Nat

VARIABLE lifted             \* the lock was lifted since CRITICAL was last entered or locked

ruleServiceVars == <<worm, tier, pc, score, fired, chaosHigh, lifted>>

RuleServiceInit == WormInit /\ ThreatInit /\ RuleInit /\ lifted = FALSE

ChaosWindow(t) == \E high \in BOOLEAN : EvaluateChaosWindow(t, high)

(* The rules that are called with a score or a count. *)
RuleCall(t) ==
  \/ \E s \in Scores : \/ Observe(t, s)
                       \/ EnterEvaluate(t, s)
                       \/ \E anomalous \in BOOLEAN : EvaluatePacketWindow(t, s, anomalous)
  \/ \E n \in FailureCounts : EvaluateAuthFailures(t, n)

Call(t) == RuleCall(t) \/ ChaosWindow(t)

ThreadStep ==
  /\ \E t \in Threads : Call(t) \/ RuleStep(t) \/ Return(t)
  /\ lifted' = (lifted /\ worm' = "NORMAL" /\ tier' = CRITICAL)

LiftLock ==
  /\ Unlock
  /\ lifted' = (lifted \/ (Locked /\ tier = CRITICAL))
  /\ UNCHANGED <<tier, pc, score, fired, chaosHigh>>

RuleServiceNext == ThreadStep \/ LiftLock

RuleServiceSpec == RuleServiceInit /\ [][RuleServiceNext]_ruleServiceVars

-----------------------------------------------------------------------------
(* Types of the rule engine and of the components it drives. *)
RuleTypeOK ==
  /\ worm \in WormStates
  /\ tier \in Tiers
  /\ pc \in [Threads -> RulePCs]
  /\ score \in [Threads -> Scores \cup {NoScore}]
  /\ fired \in [Threads -> BOOLEAN]
  /\ chaosHigh \in 0..SustainedWindows
  /\ lifted \in BOOLEAN

(* Whichever rules run concurrently, and however often the tier moves, the *)
(* lock is open at CRITICAL only if somebody lifted it since: no path into *)
(* CRITICAL, scored or forced, misses the lockdown (do_transition).        *)
CriticalOpenOnlyIfLifted == tier = CRITICAL /\ ~Locked => lifted

(* RULE-05 is documented as a preemptive escalation: a chaos window would  *)
(* never lower the tier (rule_engine.h, evaluate_chaos_window).            *)
ChaosOnlyEscalates ==
  [][(\E t \in Threads : ChaosWindow(t)) => tier' >= tier]_ruleServiceVars
=============================================================================
