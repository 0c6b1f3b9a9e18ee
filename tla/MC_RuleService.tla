--------------------------- MODULE MC_RuleService ---------------------------
(* Two racing threads, one score per band, failure counts around both of   *)
(* RULE-03's thresholds.                                                   *)
EXTENDS RuleService
=============================================================================
