------------------------------- MODULE AiTriage -------------------------------
(***************************************************************************)
(* core/ai_triage: how two models' answers and a raw score become the      *)
(* score given to RULE-02 and the tier that is reported.  An answer is     *)
(* [parsed, route, severity, confident]: confident says whether the        *)
(* confidence reaches ESCALATE_CONFIDENCE_THRESHOLD.  One that never came  *)
(* is NoAnswer; one that fails to parse half-way keeps the fields it had   *)
(* read, so parsed = FALSE comes with any of the others.                   *)
(***************************************************************************)
EXTENDS ThreatLevel

Routes == {"handle", "escalate", "ignore"}
Severities == {"LOW", "MEDIUM", "HIGH", "CRITICAL", "something else"}
Answers == [parsed : BOOLEAN, route : Routes, severity : Severities, confident : BOOLEAN]

(* What parse_fast and parse_heavy start from. *)
NoAnswer == [parsed |-> FALSE, route |-> "handle", severity |-> "LOW", confident |-> FALSE]

(* severity_to_tier, tier_to_score. *)
TierNamed(severity) ==
  CASE severity = "CRITICAL" -> CRITICAL
    [] severity = "HIGH" -> HIGH
    [] severity = "MEDIUM" -> MEDIUM
    [] OTHER -> LOW

AdvisoryScore(t) ==
  CASE t = CRITICAL -> 90 [] t = HIGH -> 76 [] t = MEDIUM -> 50 [] OTHER -> 10

(* The heavy model is asked when the fast one escalates, is unsure or      *)
(* failed; unasked, its answer counts for nothing.                         *)
AsksHeavy(fast) == fast.route = "escalate" \/ ~fast.confident \/ ~fast.parsed

HeavyUsed(fast, heavy) == AsksHeavy(fast) /\ heavy.parsed

Suggested(fast, heavy) ==
  TierNamed(IF HeavyUsed(fast, heavy) THEN heavy.severity ELSE fast.severity)

Usable(fast, heavy) == fast.parsed \/ HeavyUsed(fast, heavy)

(* score_for_rule_engine. *)
ScoreGiven(raw, fast, heavy) ==
  LET advisory == AdvisoryScore(Suggested(fast, heavy))
  IN  IF ~Usable(fast, heavy) \/ raw > advisory THEN raw ELSE advisory

(* final_tier, from the tier the machine has after RULE-02. *)
FinalTier(engineTier, fast, heavy) ==
  IF engineTier >= Suggested(fast, heavy) THEN engineTier ELSE Suggested(fast, heavy)
=============================================================================
