------------------------- MODULE UnlockService_proofs -------------------------
(***************************************************************************)
(* Theorems about the unlock protocol used concurrently, for any set of    *)
(* approvers, any threshold and any supply of challenges.  PendingIsFresh  *)
(* is the strengthening that makes both action properties provable: what a *)
(* vote is checked against is always a challenge of this session.          *)
(***************************************************************************)
EXTENDS UnlockService, TLAPS

IInv == ServiceTypeOK /\ PendingIsFresh

(* The initial state: no approver, no token, no challenge. *)
THEOREM InitEstablishes == ServiceInit => IInv
<1> SUFFICES ASSUME ServiceInit PROVE IInv
  OBVIOUS
<1> USE DEF ServiceInit, WormInit, TokenInit, UnlockProtocolInit
<1>1. tokens \in [TokenIds -> StoredToken]
  BY DEF NotFound, StoredToken
<1>2. UnlockProtocolType
  BY DEF UnlockProtocolType, ProtocolStates
<1>3. QED
  BY <1>1, <1>2 DEF IInv, ServiceTypeOK, PendingIsFresh, WormStates

(* grant, revoke and expiry leave the protocol alone. *)
LEMMA TokenEventPreserves ==
  ASSUME IInv, TokenEvent
  PROVE  IInv'
<1> USE DEF TokenEvent, protocolVars, history
<1>1. tokens' \in [TokenIds -> StoredToken]
  <2>1. tokens \in [TokenIds -> StoredToken]
    BY DEF IInv, ServiceTypeOK
  <2>2. PICK id \in TokenIds : (\E s \in Scopes : Grant(id, s)) \/ Revoke(id) \/ Expire(id)
    OBVIOUS
  <2>3. CASE \E s \in Scopes : Grant(id, s)
    <3>1. PICK s \in Scopes : Grant(id, s)
      BY <2>3
    <3>2. [scope |-> s, expired |-> FALSE, revoked |-> FALSE] \in StoredToken
      BY DEF StoredToken
    <3>3. QED
      BY <2>1, <3>1, <3>2 DEF Grant
  <2>4. CASE Revoke(id)
    <3>1. [tokens EXCEPT ![id].revoked = TRUE] \in [TokenIds -> StoredToken]
      BY <2>1 DEF StoredToken
    <3>2. QED
      BY <2>1, <2>4, <3>1 DEF Revoke
  <2>5. CASE Expire(id)
    BY <2>1, <2>5 DEF Expire, StoredToken
  <2>6. QED
    BY <2>2, <2>3, <2>4, <2>5
<1>2. QED
  BY <1>1 DEF IInv, ServiceTypeOK, UnlockProtocolType, PendingIsFresh

(* get_challenge draws a nonce never drawn before. *)
LEMMA AskChallengePreserves ==
  ASSUME IInv, AskChallenge
  PROVE  IInv'
<1>1. PICK a \in Approvers, fresh \in Nonces \ issued :
        /\ GetChallenge(a, fresh)
        /\ LET drawn == {challenges'[a]} \ ({challenges[a]} \cup {NoNonce})
           IN /\ issued' = issued \cup drawn
              /\ sessionNonces' = sessionNonces \cup drawn
        /\ UNCHANGED <<worm, tokens, spent>>
  BY DEF AskChallenge
<1>2. CASE a \in registered /\ challenges[a] = NoNonce
  <2>1. challenges' = [challenges EXCEPT ![a] = fresh] /\ challenges'[a] = fresh
    BY <1>1, <1>2 DEF GetChallenge, IInv, ServiceTypeOK, UnlockProtocolType
  <2>2. issued' = issued \cup {fresh} /\ sessionNonces' = sessionNonces \cup {fresh}
    BY <1>1, <1>2, <2>1, NoNonceFresh
  <2>3. ServiceTypeOK'
    BY <1>1, <2>1, <2>2 DEF GetChallenge, IInv, ServiceTypeOK, UnlockProtocolType
  <2>4. PendingIsFresh'
    BY <1>1, <2>1, <2>2
    DEF GetChallenge, IInv, PendingIsFresh, ServiceTypeOK, UnlockProtocolType
  <2>5. QED
    BY <2>3, <2>4 DEF IInv
<1>3. CASE ~(a \in registered /\ challenges[a] = NoNonce)
  <2>1. UNCHANGED <<challenges, issued, sessionNonces>>
    BY <1>1, <1>3 DEF GetChallenge
  <2>2. QED
    BY <1>1, <2>1
    DEF GetChallenge, IInv, PendingIsFresh, ServiceTypeOK, UnlockProtocolType
<1>4. QED
  BY <1>2, <1>3

(* What a delivered vote does: nothing, or it is counted for an approver   *)
(* whose pending challenge it consumes.                                    *)
LEMMA DeliverVoteCases ==
  ASSUME IInv, DeliverVote
  PROVE  \/ UNCHANGED serviceVars
         \/ \E a \in registered :
              /\ prot = "COLLECTING" /\ a \notin votes /\ challenges[a] # NoNonce
              /\ Accept(a)
              /\ spent' = spent \cup {challenges[a]}
              /\ UNCHANGED <<tokens, issued, sessionNonces>>
<1>1. PICK a \in Approvers, r \in [key : Approvers, nonce : issued] :
        /\ CastVote(a, r)
        /\ spent' = IF Acceptable(a, r) THEN spent \cup {r.nonce} ELSE spent
        /\ UNCHANGED <<tokens, issued, sessionNonces>>
  BY DEF DeliverVote
<1>2. CASE Acceptable(a, r)
  BY <1>1, <1>2 DEF CastVote, Acceptable
<1>3. CASE ~Acceptable(a, r)
  BY <1>1, <1>3 DEF CastVote, serviceVars
<1>4. QED
  BY <1>2, <1>3

(* The accepting tail of cast_vote, which consumes the challenge. *)
LEMMA AcceptPreserves ==
  ASSUME IInv, NEW a \in registered, challenges[a] # NoNonce, Accept(a),
         spent' = spent \cup {challenges[a]},
         UNCHANGED <<tokens, issued, sessionNonces>>
  PROVE  IInv'
<1> USE DEF Accept, Unlock
<1>1. a \in Approvers /\ challenges' = [challenges EXCEPT ![a] = NoNonce]
  BY DEF IInv, ServiceTypeOK, UnlockProtocolType
<1>2. challenges[a] \in issued \ spent
  BY <1>1 DEF IInv, PendingIsFresh
<1>3. ServiceTypeOK'
  BY <1>1, <1>2
  DEF IInv, ServiceTypeOK, UnlockProtocolType, WormStates, ProtocolStates
<1>4. prot' = "COLLECTING" => prot = "COLLECTING"
  OBVIOUS
<1>5. PendingIsFresh'
  BY <1>1, <1>2, <1>4 DEF IInv, PendingIsFresh, ServiceTypeOK, UnlockProtocolType
<1>6. QED
  BY <1>3, <1>5 DEF IInv

(* Every operation preserves the invariant. *)
THEOREM NextPreserves == IInv /\ [ServiceNext]_serviceVars => IInv'
<1> SUFFICES ASSUME IInv, [ServiceNext]_serviceVars PROVE IInv'
  OBVIOUS
<1> USE DEF IInv, ServiceTypeOK, PendingIsFresh, UnlockProtocolType, protocolVars, history
<1>1. CASE EngageLockdown
  BY <1>1 DEF EngageLockdown, TriggerLockdown, WormStates
<1>2. CASE TokenEvent
  BY <1>2, TokenEventPreserves
<1>3. CASE Register
  BY <1>3 DEF Register, RegisterApprover
<1>4. CASE OpenSession
  BY <1>4 DEF OpenSession, BeginSession, ProtocolStates
<1>5. CASE AskChallenge
  BY <1>5, AskChallengePreserves
<1>6. CASE DeliverVote
  BY <1>6, DeliverVoteCases, AcceptPreserves DEF serviceVars
<1>7. CASE UNCHANGED serviceVars
  BY <1>7 DEF serviceVars
<1>8. QED
  BY <1>1, <1>2, <1>3, <1>4, <1>5, <1>6, <1>7 DEF ServiceNext

(* The inductive invariant holds in every reachable state. *)
THEOREM InvariantHolds == ServiceSpec => []IInv
BY InitEstablishes, NextPreserves, PTL DEF ServiceSpec

(* Types, and votes only of registered names (cast_vote). *)
THEOREM TypeCorrect == ServiceSpec => []ServiceTypeOK
<1>1. IInv => ServiceTypeOK
  BY DEF IInv
<1>2. QED
  BY <1>1, InvariantHolds, PTL

(* Pending challenges are unspent, distinct and, while a session is open,  *)
(* drawn in it (begin_session clears them, cast_vote erases them).         *)
THEOREM ChallengesAreFresh == ServiceSpec => []PendingIsFresh
<1>1. IInv => PendingIsFresh
  BY DEF IInv
<1>2. QED
  BY <1>1, InvariantHolds, PTL

-----------------------------------------------------------------------------
(* Only an accepted vote adds to votes_ or lifts the lock. *)
LEMMA OtherStepsCountNothing ==
  ASSUME IInv, [ServiceNext]_serviceVars, ~DeliverVote
  PROVE  votes' \subseteq votes /\ (worm = "LOCKED" => worm' = "LOCKED")
<1> USE DEF protocolVars, history
<1>1. CASE EngageLockdown \/ TokenEvent
  BY <1>1 DEF EngageLockdown, TriggerLockdown, TokenEvent
<1>2. CASE Register \/ OpenSession \/ AskChallenge
  BY <1>2 DEF Register, RegisterApprover, OpenSession, BeginSession, AskChallenge, GetChallenge
<1>3. CASE UNCHANGED serviceVars
  BY <1>3 DEF serviceVars
<1>4. QED
  BY <1>1, <1>2, <1>3 DEF ServiceNext

(* No vote is counted against a challenge of an earlier session or one     *)
(* already consumed (cast_vote, begin_session).                            *)
THEOREM CountedVotesAreFresh == ServiceSpec => VoteIsFresh
<1>1. IInv /\ [ServiceNext]_serviceVars =>
        \A a \in votes' \ votes : challenges[a] \in sessionNonces \ spent
  <2> SUFFICES ASSUME IInv, [ServiceNext]_serviceVars
               PROVE  \A a \in votes' \ votes : challenges[a] \in sessionNonces \ spent
    OBVIOUS
  <2>1. CASE DeliverVote
    <3>1. \A a \in registered : prot = "COLLECTING" /\ challenges[a] # NoNonce =>
            challenges[a] \in sessionNonces \ spent
      BY DEF IInv, PendingIsFresh, ServiceTypeOK, UnlockProtocolType
    <3>2. QED
      BY <2>1, <3>1, DeliverVoteCases DEF serviceVars, Accept
  <2>2. CASE ~DeliverVote
    BY <2>2, OtherStepsCountNothing
  <2>3. QED
    BY <2>1, <2>2
<1>2. QED
  BY <1>1, InvariantHolds, PTL DEF ServiceSpec, VoteIsFresh

(* The lock is lifted only by the vote completing a quorum of registered   *)
(* approvers in an open session (cast_vote).                               *)
THEOREM QuorumLifts == ServiceSpec => LiftOnlyByQuorum
<1>1. IInv /\ [ServiceNext]_serviceVars =>
        (worm = "LOCKED" /\ worm' = "NORMAL" =>
           /\ prot = "COLLECTING" /\ prot' = "GRANTED"
           /\ Cardinality(votes' \cap registered) >= Threshold)
  <2> SUFFICES ASSUME IInv, [ServiceNext]_serviceVars, worm = "LOCKED", worm' = "NORMAL"
               PROVE  /\ prot = "COLLECTING" /\ prot' = "GRANTED"
                      /\ Cardinality(votes' \cap registered) >= Threshold
    OBVIOUS
  <2>1. DeliverVote
    BY OtherStepsCountNothing
  <2>2. PICK a \in registered : prot = "COLLECTING" /\ Accept(a)
    BY <2>1, DeliverVoteCases DEF serviceVars
  <2>3. prot' = "GRANTED" /\ Cardinality(votes \cup {a}) >= Threshold
    BY <2>2 DEF Accept
  <2>4. votes' \cap registered = votes \cup {a}
    BY <2>2 DEF Accept, IInv, ServiceTypeOK, UnlockProtocolType
  <2>5. QED
    BY <2>2, <2>3, <2>4
<1>2. QED
  BY <1>1, InvariantHolds, PTL DEF ServiceSpec, LiftOnlyByQuorum
=============================================================================
