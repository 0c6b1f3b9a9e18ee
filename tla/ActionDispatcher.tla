--------------------------- MODULE ActionDispatcher ---------------------------
(***************************************************************************)
(* agents/controller: action_dispatcher.cpp and policy_engine.cpp, the     *)
(* step from an agent's answer to a protective action.  An answer o has    *)
(* o.containment, o.iocs and o.text, the IPv4 addresses in each part in    *)
(* the order they are written, o.path, whether a Windows path is in it,    *)
(* and o.resource, the zt_score it names.  What the called component       *)
(* returns is in ok: ok.blocked, ok.moved.                                 *)
(*                                                                         *)
(* An address is the four texts between its dots, one to three digits      *)
(* each, whatever number they make: nothing converts them.                 *)
(***************************************************************************)
EXTENDS Sequences, ZeroTrust

(* ---------------------------- policy_engine.cpp -------------------------- *)
FirewallAgents == {"incident_responder", "breach_simulator", "red_team_coord", "ransomware_hunter"}
QuarantineAgents ==
  {"malware_analyst", "forensics_agent", "forensics_investigator", "threat_hunter"}
DeceptionAgents == {"deception_engineer", "purple_team"}
ZeroTrustAgents == {"zero_trust_engineer", "iam_privilege_auditor"}

(* -------------------------- action_dispatcher.cpp ------------------------ *)
(* is_safe_ip, of an IPv4 address: prefixes of the text, as it is written. *)
SafeIp(a) ==
  \/ a \in {<<"127", "0", "0", "1">>, <<"0", "0", "0", "0">>}
  \/ a[1] = "10"
  \/ a[1] = "192" /\ a[2] = "168"
  \/ a[1] = "172" /\ a[2] \in {"16", "17", "18", "19", "20", "21", "22", "23",
                             "24", "25", "26", "27", "28", "29", "30", "31"}

(* extract_ipv4: the first address that is not safe, if any.               *)
Extracted(s) ==
  {s[i] : i \in {k \in DOMAIN s : ~SafeIp(s[k]) /\ \A j \in 1 .. k-1 : SafeIp(s[j])}}

(* try_firewall_block looks in three places in turn, in the raw text only  *)
(* when neither field gave an address.                                     *)
Targets(o) ==
  IF Extracted(o.containment) # {} THEN Extracted(o.containment)
  ELSE IF Extracted(o.iocs) # {} THEN Extracted(o.iocs)
  ELSE Extracted(o.text)

(* try_zerotrust_deny: the access it asks the engine about. *)
Assessment(o) ==
  [user |-> "an agent's assessment", ssid |-> "ENTERPRISE", from |-> "unknown",
   to |-> "enterprise", action |-> o.resource]

(* dispatch: the four tries in their order, each only when no try before   *)
(* it took its action.                                                     *)
TriesFirewall(agent, o) == agent \in FirewallAgents /\ Targets(o) # {}
BlocksIp(agent, o, ok) == TriesFirewall(agent, o) /\ ok.blocked

TriesQuarantine(agent, o, ok) ==
  ~BlocksIp(agent, o, ok) /\ agent \in QuarantineAgents /\ o.path
MovesFile(agent, o, ok) == TriesQuarantine(agent, o, ok) /\ ok.moved

TriesDeception(agent, o, ok) ==
  ~BlocksIp(agent, o, ok) /\ ~MovesFile(agent, o, ok) /\ agent \in DeceptionAgents

TriesZeroTrust(agent, o, ok) ==
  /\ ~BlocksIp(agent, o, ok) /\ ~MovesFile(agent, o, ok) /\ ~TriesDeception(agent, o, ok)
  /\ agent \in ZeroTrustAgents
Denies(agent, o, ok) ==
  TriesZeroTrust(agent, o, ok) /\ Evaluate(Assessment(o)) \in {"DENY", "QUARANTINE"}

Tried(agent, o, ok) ==
  {t \in {"firewall_block", "quarantine", "deception", "zerotrust_deny"} :
     \/ t = "firewall_block" /\ TriesFirewall(agent, o)
     \/ t = "quarantine" /\ TriesQuarantine(agent, o, ok)
     \/ t = "deception" /\ TriesDeception(agent, o, ok)
     \/ t = "zerotrust_deny" /\ TriesZeroTrust(agent, o, ok)}

(* action_taken. *)
Taken(agent, o, ok) ==
  \/ BlocksIp(agent, o, ok) \/ MovesFile(agent, o, ok)
  \/ TriesDeception(agent, o, ok) \/ Denies(agent, o, ok)

(* action_type: the last try that got as far as its component leaves its   *)
(* name, also when it failed.                                              *)
ActionType(agent, o, ok) ==
  IF TriesZeroTrust(agent, o, ok) THEN "zerotrust_deny"
  ELSE IF TriesDeception(agent, o, ok) THEN "deception"
  ELSE IF TriesQuarantine(agent, o, ok) THEN "quarantine"
  ELSE IF TriesFirewall(agent, o) THEN "firewall_block"
  ELSE "advisory"
=============================================================================
