---------------------------- MODULE ActiveResponse ----------------------------
(***************************************************************************)
(* core/active_response: what an attacker's session is served degrades as  *)
(* it goes on.  serve holds the mutex from the count to the log entry, so  *)
(* it is one step; check_ioc and the queries change nothing.               *)
(***************************************************************************)
EXTENDS Naturals, Sequences

CONSTANTS Sessions,
          Hints,            \* indicators a caller may pass
          Iocs              \* ioc_list_

VARIABLES counts,           \* session_counts_, 0 for a session not in it
          forensicLog       \* forensic_log_

responseVars == <<counts, forensicLog>>

(* response_tier: the tier of the n-th interaction. *)
ResponseTier(n) == CASE n < 3 -> 0 [] n \in 3 .. 5 -> 1 [] n \in 6 .. 9 -> 2 [] OTHER -> 3

ResponseInit ==
  /\ counts = [s \in Sessions |-> 0]
  /\ forensicLog = <<>>

Serve(s, hint) ==
  /\ counts' = [counts EXCEPT ![s] = @ + 1]
  /\ forensicLog' = Append(forensicLog,
       [session |-> s, n |-> counts[s] + 1, tier |-> ResponseTier(counts[s] + 1),
        ioc |-> hint \in Iocs])

ResponseNext == \E s \in Sessions, hint \in Hints : Serve(s, hint)

ResponseSpec == ResponseInit /\ [][ResponseNext]_responseVars

-----------------------------------------------------------------------------
Entries(s) == {k \in DOMAIN forensicLog : forensicLog[k].session = s}

(* What a session is served never gets better again: tiers only rise along *)
(* its entries in the log (response_tier).                                 *)
TiersOnlyRise ==
  \A s \in Sessions : \A j, k \in Entries(s) :
    j < k => forensicLog[j].tier <= forensicLog[k].tier

(* The log accounts for every interaction of every session, once and in    *)
(* order, whoever else was served in between (serve).                      *)
LogAccountsForAll ==
  \A s \in Sessions :
    /\ \A n \in 1 .. counts[s] : \E k \in Entries(s) : forensicLog[k].n = n
    /\ \A j, k \in Entries(s) : j < k => forensicLog[j].n < forensicLog[k].n
=============================================================================
