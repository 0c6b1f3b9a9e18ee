----------------------------- MODULE RuleEngine -----------------------------
(***************************************************************************)
(* core/rule_engine: the rules as the threads of the process run them.  An *)
(* evaluation is not atomic: every call it makes on the threat machine or  *)
(* on the lock takes and releases that component's mutex, so each is a     *)
(* step of its own and other threads run between two of them.              *)
(*                                                                         *)
(* pc[t] is where thread t stands:                                         *)
(*   idle      not evaluating                                              *)
(*   evaluate  about to enter evaluate_threat_score(score[t])              *)
(*   force     RULE-01: about to force CRITICAL                            *)
(*   belt      RULE-04: about to read the tier                             *)
(*   belt_worm RULE-04: read CRITICAL, about to read the lock              *)
(*   belt_fire RULE-04: read "not locked", about to trigger                *)
(*   returned  back in the caller; fired[t] tells it whether to trigger    *)
(* Bridge adds the program counters of the bridge's own commands.          *)
(***************************************************************************)
EXTENDS ThreatLevel

CONSTANTS Threads,          \* threads that may evaluate rules
          Scores            \* the threat scores they bring

ASSUME ScoresAreInts == Scores \subseteq Int

VARIABLES pc, score, fired,
          chaosHigh         \* chaos_high_count_, kept at its threshold once there

SustainedWindows == 2       \* RULE05_SUSTAINED_WINDOWS
FailureThreshold == 5       \* RULE03_FAILURE_THRESHOLD
CriticalThreshold == 10     \* RULE03_CRITICAL_THRESHOLD

RulePCs == {"idle", "evaluate", "force", "belt", "belt_worm", "belt_fire", "returned"}
NoScore == 0

RuleInit ==
  /\ pc = [t \in Threads |-> "idle"]
  /\ score = [t \in Threads |-> NoScore]
  /\ fired = [t \in Threads |-> FALSE]
  /\ chaosHigh = 0

Goto(t, where) == pc' = [pc EXCEPT ![t] = where]

(* observe_signal called directly, outside any rule (fs_monitor callback,  *)
(* packet window callback): a complete handler.                            *)
Observe(t, s) ==
  /\ pc[t] = "idle"
  /\ ObserveSignal(s)
  /\ UNCHANGED <<pc, score, fired, chaosHigh>>

(* A handler that feeds the threat machine first and then the rules with   *)
(* the same score: the observe_signal command, the event log callback and  *)
(* the demo thread.  fired[t] is result.worm_triggered.                    *)
ObserveThenEvaluate(t, s) ==
  /\ pc[t] = "idle"
  /\ ObserveSignal(s)
  /\ score' = [score EXCEPT ![t] = s]
  /\ fired' = [fired EXCEPT ![t] = tier # CRITICAL /\ tier' = CRITICAL]
  /\ Goto(t, "evaluate")
  /\ UNCHANGED chaosHigh

(* A handler that calls evaluate_threat_score alone (AiTriage::triage). *)
EnterEvaluate(t, s) ==
  /\ pc[t] = "idle"
  /\ score' = [score EXCEPT ![t] = s]
  /\ Goto(t, "evaluate")
  /\ UNCHANGED <<tier, worm, fired, chaosHigh>>

(* RULE-02, evaluate_threat_score: observe, then the belt. *)
EvaluateScore(t) ==
  /\ pc[t] = "evaluate"
  /\ ObserveSignal(score[t])
  /\ score' = [score EXCEPT ![t] = NoScore]
  /\ Goto(t, "belt")
  /\ UNCHANGED <<fired, chaosHigh>>

(* RULE-01, evaluate_packet_window: observe, and force CRITICAL when the   *)
(* window is anomalous.                                                    *)
EvaluatePacketWindow(t, s, anomalous) ==
  /\ pc[t] = "idle"
  /\ ObserveSignal(s)
  /\ Goto(t, IF anomalous THEN "force" ELSE "returned")
  /\ UNCHANGED <<score, fired, chaosHigh>>

ForceCritical(t) ==
  /\ pc[t] = "force"
  /\ ForceTier(CRITICAL)
  /\ Goto(t, "belt")
  /\ UNCHANGED <<score, fired, chaosHigh>>

(* RULE-03, evaluate_auth_failures. *)
EvaluateAuthFailures(t, failures) ==
  /\ pc[t] = "idle"
  /\ \/ /\ failures >= CriticalThreshold
        /\ ForceTier(CRITICAL)
        /\ Goto(t, "belt")
     \/ /\ failures \in FailureThreshold .. CriticalThreshold - 1
        /\ ForceTier(HIGH)
        /\ Goto(t, "returned")
     \/ /\ failures < FailureThreshold
        /\ UNCHANGED <<tier, worm>>
        /\ Goto(t, "returned")
  /\ UNCHANGED <<score, fired, chaosHigh>>

(* RULE-05, evaluate_chaos_window: the engine's mutex is held throughout.  *)
EvaluateChaosWindow(t, high) ==
  /\ pc[t] = "idle"
  /\ chaosHigh' = IF ~high THEN 0
                  ELSE IF chaosHigh = SustainedWindows THEN chaosHigh ELSE chaosHigh + 1
  /\ IF high /\ chaosHigh + 1 >= SustainedWindows
     THEN ForceTier(MEDIUM)
     ELSE UNCHANGED <<tier, worm>>
  /\ UNCHANGED <<pc, score, fired>>

(* RULE-04, apply_rule04_belt: three separate critical sections. *)
BeltReadsTier(t) ==
  /\ pc[t] = "belt"
  /\ Goto(t, IF tier = CRITICAL THEN "belt_worm" ELSE "returned")
  /\ UNCHANGED <<tier, worm, score, fired, chaosHigh>>

BeltReadsLock(t) ==
  /\ pc[t] = "belt_worm"
  /\ Goto(t, IF Locked THEN "returned" ELSE "belt_fire")
  /\ UNCHANGED <<tier, worm, score, fired, chaosHigh>>

BeltFires(t) ==
  /\ pc[t] = "belt_fire"
  /\ TriggerLockdown
  /\ fired' = [fired EXCEPT ![t] = TRUE]
  /\ Goto(t, "returned")
  /\ UNCHANGED <<tier, score, chaosHigh>>

(* The steps inside an evaluation, whoever called it. *)
RuleStep(t) ==
  \/ EvaluateScore(t)
  \/ ForceCritical(t)
  \/ BeltReadsTier(t)
  \/ BeltReadsLock(t)
  \/ BeltFires(t)

(* The caller leaves the handler and drops the result. *)
Return(t) ==
  /\ pc[t] = "returned"
  /\ Goto(t, "idle")
  /\ fired' = [fired EXCEPT ![t] = FALSE]
  /\ UNCHANGED <<tier, worm, score, chaosHigh>>
=============================================================================
