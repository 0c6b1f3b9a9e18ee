------------------------------- MODULE ZeroTrust -------------------------------
(***************************************************************************)
(* network_arch/zerotrust: the trust decision on one access, and the       *)
(* admission of a device to the network.  Both are functions of the        *)
(* request; an address is represented by the zone its prefix names, or     *)
(* "unknown", an action by its name.                                       *)
(***************************************************************************)
EXTENDS Integers

(* ------------------------- zerotrust_engine.cpp ------------------------- *)
Zones == {"public", "enterprise", "management", "quarantine", "unknown"}
AnomalousActions ==
  {"login_off_hours", "mass_download", "admin_from_public_ssid", "privilege_escalation_attempt"}
KnownUsers == {"kgosi.blanda", "admin", "user1", "user2", "contractor1"}
TrustedSsids == {"eGov", "Astartis-Admin"}

(* zone_policies_: the roles that may enter a zone. *)
MayEnter(zone) ==
  CASE zone = "public" -> {"guest", "contractor"}
    [] zone = "enterprise" -> {"it_admin", "staff", "contractor"}
    [] zone = "management" -> {"it_admin"}
    [] OTHER -> {}

Points(condition, points) == IF condition THEN points ELSE 0

(* calculate_trust_score: all but the last term need a known user. *)
TrustScore(c) ==
  LET known == c.user \in KnownUsers
  IN  Points(known, 40)
      + Points(known /\ c.ssid \in TrustedSsids, 20)
      + Points(known /\ c.from = "enterprise", 20)
      + Points(c.action \notin AnomalousActions, 20)

CrossZoneAllowed(from, to, role) ==
  /\ ~(from = "public" /\ to \in {"enterprise", "management"})
  /\ from # "quarantine"
  /\ role \in MayEnter(to)

(* evaluate, which asks about the role "staff" whoever the user is. *)
Evaluate(c) ==
  IF c.action \in AnomalousActions THEN "MFA_REQUIRED"
  ELSE IF ~CrossZoneAllowed(c.from, c.to, "staff") THEN "DENY"
  ELSE IF TrustScore(c) >= 70 THEN "ALLOW"
  ELSE IF TrustScore(c) >= 40 THEN "LIMITED"
  ELSE "QUARANTINE"

(* ---------------------------- nac_workflow.cpp --------------------------- *)
(* A request: r.ssid, r.user, r.domain ("" for an empty one) and the four  *)
(* posture flags.  An unknown user has the role "guest".                   *)
RoleOf(user) ==
  CASE user \in {"kgosi.blanda", "admin"} -> "it_admin"
    [] user \in {"user1", "user2"} -> "staff"
    [] user = "contractor1" -> "contractor"
    [] OTHER -> "guest"
Directory == KnownUsers \cup {"guest"}

ResourcesOf(role) ==
  CASE role = "it_admin" -> {"file-server", "admin-portal", "print-server", "dc01", "backup-repo"}
    [] role = "staff" -> {"file-server", "print-server", "intranet"}
    [] role = "contractor" -> {"intranet"}
    [] OTHER -> {}

Authenticated(r) == r.ssid = "SmartBots" \/ (r.user # "" /\ r.domain # "")
Identified(r) == Authenticated(r) /\ r.user \in Directory
Compliant(r) == r.updated /\ r.antivirus /\ r.encrypted /\ r.firewall

(* build_decision. *)
Decision(r) ==
  IF r.ssid = "SmartBots"
  THEN [result |-> "ALLOW_LIMITED", vlan |-> "VLAN_100", role |-> "guest", resources |-> {}]
  ELSE IF ~Identified(r)
  THEN [result |-> "DENY", vlan |-> "", role |-> "none", resources |-> {}]
  ELSE IF ~Compliant(r)
  THEN [result |-> "QUARANTINE", vlan |-> "VLAN_300", role |-> "quarantine", resources |-> {}]
  ELSE [result |-> "ALLOW_FULL", vlan |-> "VLAN_200", role |-> RoleOf(r.user),
        resources |-> ResourcesOf(RoleOf(r.user))]

(* process_verbose: which of the eight steps are shown as passed. *)
Steps(r) ==
  LET policy == Decision(r).result \in {"ALLOW_FULL", "ALLOW_LIMITED"}
  IN  << TRUE, Authenticated(r), Identified(r), Compliant(r), policy,
         policy /\ Identified(r), TRUE,
         Decision(r).result \notin {"QUARANTINE", "DENY"} >>
=============================================================================
