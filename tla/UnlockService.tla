---------------------------- MODULE UnlockService ----------------------------
(***************************************************************************)
(* The unlock protocol as a library: any thread may engage the lockdown,   *)
(* open a session, ask for challenges and deliver votes, in any order.     *)
(* Whoever holds a key may sign any challenge ever issued and deliver the  *)
(* request late, twice, out of order or under another approver's name.     *)
(* Tokens are granted, revoked and expire in between.                      *)
(***************************************************************************)
EXTENDS UnlockProtocol

VARIABLES issued,           \* every challenge drawn so far (32 random bytes: never again)
          sessionNonces,    \* those drawn since the session opened
          spent             \* those an accepted vote consumed

serviceVars == <<worm, tokens, prot, registered, votes, challenges,
                 issued, sessionNonces, spent>>
protocolVars == <<prot, registered, votes, challenges>>
history == <<issued, sessionNonces, spent>>

ServiceInit ==
  /\ WormInit
  /\ TokenInit
  /\ UnlockProtocolInit
  /\ issued = {} /\ sessionNonces = {} /\ spent = {}

EngageLockdown ==
  /\ TriggerLockdown
  /\ UNCHANGED <<tokens, protocolVars, history>>

TokenEvent ==
  /\ \E id \in TokenIds : \/ \E s \in Scopes : Grant(id, s)
                          \/ Revoke(id)
                          \/ Expire(id)
  /\ UNCHANGED <<worm, protocolVars, history>>

Register ==
  /\ \E a \in Approvers : RegisterApprover(a)
  /\ UNCHANGED <<worm, tokens, history>>

OpenSession ==
  /\ BeginSession
  /\ sessionNonces' = IF prot = "COLLECTING" THEN sessionNonces ELSE {}
  /\ UNCHANGED <<worm, tokens, issued, spent>>

AskChallenge ==
  \E a \in Approvers, fresh \in Nonces \ issued :
    /\ GetChallenge(a, fresh)
    /\ LET drawn == {challenges'[a]} \ ({challenges[a]} \cup {NoNonce})
       IN /\ issued' = issued \cup drawn
          /\ sessionNonces' = sessionNonces \cup drawn
    /\ UNCHANGED <<worm, tokens, spent>>

DeliverVote ==
  \E a \in Approvers, r \in [key : Approvers, nonce : issued] :
    /\ CastVote(a, r)
    /\ spent' = IF Acceptable(a, r) THEN spent \cup {r.nonce} ELSE spent
    /\ UNCHANGED <<tokens, issued, sessionNonces>>

ServiceNext ==
  \/ EngageLockdown
  \/ TokenEvent
  \/ Register
  \/ OpenSession
  \/ AskChallenge
  \/ DeliverVote

ServiceSpec == ServiceInit /\ [][ServiceNext]_serviceVars

-----------------------------------------------------------------------------
(* Types of unlock_protocol.h and access_token.h; votes_ never counts a    *)
(* name that is not registered.                                            *)
ServiceTypeOK ==
  /\ worm \in WormStates
  /\ tokens \in [TokenIds -> StoredToken]
  /\ UnlockProtocolType
  /\ issued \subseteq Nonces /\ sessionNonces \subseteq issued /\ spent \subseteq issued

(* A vote is counted only against a challenge drawn in the session it is   *)
(* counted in and never consumed before: no request of an earlier session, *)
(* and none delivered twice, is ever counted (cast_vote, begin_session).   *)
VoteIsFresh ==
  [][\A a \in votes' \ votes : challenges[a] \in sessionNonces \ spent]_serviceVars

(* The lockdown is lifted only by the vote that brings the session to the  *)
(* threshold, every one of its voters being registered (cast_vote).        *)
LiftOnlyByQuorum ==
  [][worm = "LOCKED" /\ worm' = "NORMAL" =>
       /\ prot = "COLLECTING" /\ prot' = "GRANTED"
       /\ Cardinality(votes' \cap registered) >= Threshold]_serviceVars

(* What makes freshness inductive: a pending challenge of an open session  *)
(* was drawn in it, has not been consumed, and belongs to one approver.    *)
PendingIsFresh ==
  \A a \in Approvers : challenges[a] # NoNonce =>
    /\ challenges[a] \in issued \ spent
    /\ prot = "COLLECTING" => challenges[a] \in sessionNonces
    /\ \A b \in Approvers \ {a} : challenges[b] # challenges[a]
=============================================================================
