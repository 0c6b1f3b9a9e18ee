--------------------------- MODULE UnlockProtocol ---------------------------
(***************************************************************************)
(* core/unlock_protocol: the multi-party approval that lifts a WORM        *)
(* lockdown.  Every operation holds the protocol's mutex from its first to *)
(* its last statement (the token check and the unlock callback included),  *)
(* so each is one step.  A challenge is a nonce; a signed request is the   *)
(* key that signed it and the nonce it was signed over.                    *)
(***************************************************************************)
EXTENDS Naturals, FiniteSets, WormLock, TokenStore

CONSTANTS Approvers,        \* approver names
          Threshold,        \* threshold_
          TokenOf,          \* the token_id each approver is registered with
          Nonces,           \* the challenges that can be drawn
          NoNonce           \* no challenge pending

ASSUME ApproversFinite == IsFiniteSet(Approvers)
ASSUME ThresholdPositive == Threshold \in Nat \ {0}
ASSUME TokenOfApprover == TokenOf \in [Approvers -> TokenIds]
ASSUME NoNonceFresh == NoNonce \notin Nonces

VARIABLES prot,             \* state_
          registered,       \* keys of approvers_
          votes,            \* approvers whose votes_ entry is true
          challenges        \* challenges_ (NoNonce: no entry)

ProtocolStates == {"IDLE", "COLLECTING", "GRANTED"}
VoteScope == "worm_unlock_vote"
Requests == [key : Approvers, nonce : Nonces]

UnlockProtocolType ==
  /\ prot \in ProtocolStates
  /\ registered \subseteq Approvers
  /\ votes \subseteq registered
  /\ challenges \in [Approvers -> Nonces \cup {NoNonce}]

UnlockProtocolInit ==
  /\ prot = "IDLE"
  /\ registered = {}
  /\ votes = {}
  /\ challenges = [a \in Approvers |-> NoNonce]

(* register_approver: a second registration of a name is ignored. *)
RegisterApprover(a) ==
  /\ registered' = registered \cup {a}
  /\ UNCHANGED <<prot, votes, challenges>>

(* Faulty variants of begin_session: the approvers cleared in place of the *)
(* votes; the pending challenges of the last session kept.                 *)
BeginSessionDropsApprovers ==
  /\ prot' = "COLLECTING"
  /\ registered' = {}
  /\ challenges' = [a \in Approvers |-> NoNonce]
  /\ UNCHANGED votes

BeginSessionKeepsChallenges ==
  /\ IF prot = "COLLECTING"
     THEN UNCHANGED <<prot, votes>>
     ELSE prot' = "COLLECTING" /\ votes' = {}
  /\ UNCHANGED <<registered, challenges>>

(* begin_session: a no-op while a session is open. *)
BeginSession ==
  /\ IF prot = "COLLECTING"
     THEN UNCHANGED <<prot, votes, challenges>>
     ELSE /\ prot' = "COLLECTING"
          /\ votes' = {}
          /\ challenges' = [a \in Approvers |-> NoNonce]
  /\ UNCHANGED registered

(* get_challenge: the pending challenge, or a fresh one, in every protocol *)
(* state.  Its result is challenges'[a]; an unknown name gets none.        *)
GetChallenge(a, fresh) ==
  /\ challenges' = IF a \in registered /\ challenges[a] = NoNonce
                   THEN [challenges EXCEPT ![a] = fresh]
                   ELSE challenges
  /\ UNCHANGED <<prot, registered, votes>>

(* The checks of cast_vote, in its order: session open, known approver, no *)
(* vote yet, live token of the right scope, challenge issued, signature.   *)
Acceptable(a, r) ==
  /\ prot = "COLLECTING"
  /\ a \in registered
  /\ a \notin votes
  /\ CheckAccess(TokenOf[a], VoteScope) = "ok"
  /\ challenges[a] # NoNonce
  /\ r.nonce = challenges[a] /\ r.key = a

(* Faulty variants of accepting a vote: the challenge not consumed; one    *)
(* vote too few; the lock lifted while the session stays open.             *)
AcceptKeepsChallenge(a) ==
  /\ votes' = votes \cup {a}
  /\ IF Cardinality(votes \cup {a}) >= Threshold
     THEN prot' = "GRANTED" /\ Unlock
     ELSE UNCHANGED <<prot, worm>>
  /\ UNCHANGED <<registered, challenges>>

AcceptEarly(a) ==
  /\ votes' = votes \cup {a}
  /\ challenges' = [challenges EXCEPT ![a] = NoNonce]
  /\ IF Cardinality(votes \cup {a}) + 1 >= Threshold
     THEN prot' = "GRANTED" /\ Unlock
     ELSE UNCHANGED <<prot, worm>>
  /\ UNCHANGED registered

AcceptStaysOpen(a) ==
  /\ votes' = votes \cup {a}
  /\ challenges' = [challenges EXCEPT ![a] = NoNonce]
  /\ IF Cardinality(votes \cup {a}) >= Threshold THEN Unlock ELSE UNCHANGED worm
  /\ UNCHANGED <<registered, prot>>

(* The vote is counted, its challenge is consumed, and the vote that       *)
(* reaches the threshold closes the session and calls worm_unlock_.        *)
Accept(a) ==
  /\ votes' = votes \cup {a}
  /\ challenges' = [challenges EXCEPT ![a] = NoNonce]
  /\ IF Cardinality(votes \cup {a}) >= Threshold
     THEN prot' = "GRANTED" /\ Unlock
     ELSE UNCHANGED <<prot, worm>>
  /\ UNCHANGED registered

(* cast_vote: a rejected vote changes nothing but the audit log. *)
CastVote(a, r) ==
  IF Acceptable(a, r)
  THEN Accept(a)
  ELSE UNCHANGED <<prot, registered, votes, challenges, worm>>
=============================================================================
