---------------------------- MODULE Bridge_proofs ----------------------------
(***************************************************************************)
(* Theorems about Bridge, for any number of threads, approvers, tokens and *)
(* scores.  The properties TLC checks are not inductive as they stand; the *)
(* invariant IInv adds what they silently rely on: every approver is       *)
(* registered before the first command runs, the stdin thread holds the    *)
(* lockdown from the trigger to the opening of the session, and it has     *)
(* locked the entries by then.                                             *)
(***************************************************************************)
EXTENDS Bridge, ThreatLevel_proofs

AllRegistered == registered = Approvers

OpeningMeansLocked == pc[Stdin] \in {"lock_all", "begin_session"} => Locked

SealedBeforeSession == pc[Stdin] = "begin_session" => sealed

IInv ==
  /\ BridgeTypeOK
  /\ AllRegistered
  /\ OpeningMeansLocked
  /\ SealedBeforeSession
  /\ SessionMeansLocked
  /\ CriticalOpenOnlyByQuorum
  /\ SessionSealsStore

(* A score an observation may carry is an integer (observe_signal). *)
LEMMA ScoreIsInt ==
  ASSUME NEW s \in Scores \cup {NoScore}
  PROVE  s \in Int
BY ScoresAreInts DEF NoScore

-----------------------------------------------------------------------------
(* The steps that leave tokens, protocol and command state alone.          *)
RuleTypes ==
  /\ pc' \in [Threads -> BridgePCs]
  /\ \A t \in Sensors : pc'[t] \notin StdinPCs
  /\ score' \in [Threads -> Scores \cup {NoScore}]
  /\ fired' \in [Threads -> BOOLEAN]
  /\ chaosHigh' \in 0..SustainedWindows

(* A sensor callback moves the tier and the lock together, keeps the rule  *)
(* engine's state within its types and leaves the stdin thread where it is.*)
LEMMA SensorHandlerStep ==
  ASSUME IInv, NEW t \in Sensors, SensorHandler(t)
  PROVE  ThreatMove /\ RuleTypes /\ pc'[Stdin] = pc[Stdin]
<1>1. t \in Threads /\ t # Stdin
  BY DEF Sensors
<1>2. CASE \E s \in Scores : Observe(t, s)
  <2>1. PICK s \in Scores : Observe(t, s)
    BY <1>2
  <2>2. ThreatMove
    BY <2>1, ObserveIsThreatMove, ScoreIsInt DEF Observe, IInv, BridgeTypeOK
  <2>3. QED
    BY <2>1, <2>2 DEF Observe, IInv, BridgeTypeOK, RuleTypes
<1>3. CASE \E s \in Scores : ObserveThenEvaluate(t, s)
  <2>1. PICK s \in Scores : ObserveThenEvaluate(t, s)
    BY <1>3
  <2>2. ThreatMove
    BY <2>1, ObserveIsThreatMove, ScoreIsInt DEF ObserveThenEvaluate, IInv, BridgeTypeOK
  <2>3. QED
    BY <1>1, <2>1, <2>2, StdinIsAThread
    DEF ObserveThenEvaluate, Goto, IInv, BridgeTypeOK, RuleTypes, BridgePCs, RulePCs, StdinPCs
<1>4. CASE \E high \in BOOLEAN : EvaluateChaosWindow(t, high)
  <2>1. PICK high \in BOOLEAN : EvaluateChaosWindow(t, high)
    BY <1>4
  <2>2. ThreatMove
    BY <2>1, ForceIsThreatMove, TiersAreNamed
    DEF EvaluateChaosWindow, IInv, BridgeTypeOK, ThreatMove
  <2>3. chaosHigh' \in 0..SustainedWindows
    BY <2>1 DEF EvaluateChaosWindow, IInv, BridgeTypeOK, SustainedWindows
  <2>4. QED
    BY <2>1, <2>2, <2>3 DEF EvaluateChaosWindow, IInv, BridgeTypeOK, RuleTypes
<1>5. QED
  BY <1>2, <1>3, <1>4 DEF SensorHandler

(* What RULE-02 and its belt do on any thread, mutex section by mutex      *)
(* section (evaluate_threat_score).                                        *)
LEMMA EvaluationStep ==
  ASSUME IInv, NEW t \in Threads, Evaluation(t)
  PROVE  /\ ThreatMove /\ RuleTypes
         /\ \/ pc[Stdin] \notin StdinPCs /\ pc'[Stdin] \notin StdinPCs
            \/ pc'[Stdin] = pc[Stdin]
<1> USE DEF Goto
<1>1. CASE EvaluateScore(t)
  <2>1. score[t] \in Int
    BY ScoreIsInt DEF IInv, BridgeTypeOK
  <2>2. ThreatMove
    BY <1>1, <2>1, ObserveIsThreatMove DEF EvaluateScore, IInv, BridgeTypeOK
  <2>3. QED
    BY <1>1, <2>2, StdinIsAThread
    DEF EvaluateScore, IInv, BridgeTypeOK, RuleTypes, BridgePCs, RulePCs, StdinPCs
<1>2. CASE ForceCritical(t)
  <2>1. ThreatMove
    BY <1>2, ForceIsThreatMove, TiersAreNamed DEF ForceCritical, IInv, BridgeTypeOK
  <2>2. QED
    BY <1>2, <2>1, StdinIsAThread
    DEF ForceCritical, IInv, BridgeTypeOK, RuleTypes, BridgePCs, RulePCs, StdinPCs
<1>3. CASE BeltReadsTier(t)
  BY <1>3, StdinIsAThread
  DEF BeltReadsTier, ThreatMove, IInv, BridgeTypeOK, RuleTypes, BridgePCs, RulePCs, StdinPCs
<1>4. CASE BeltReadsLock(t)
  BY <1>4, StdinIsAThread
  DEF BeltReadsLock, ThreatMove, IInv, BridgeTypeOK, RuleTypes, BridgePCs, RulePCs, StdinPCs
<1>5. CASE BeltFires(t)
  BY <1>5, StdinIsAThread
  DEF BeltFires, TriggerLockdown, ThreatMove, IInv, BridgeTypeOK, RuleTypes,
      BridgePCs, RulePCs, StdinPCs
<1>6. QED
  BY <1>1, <1>2, <1>3, <1>4, <1>5 DEF Evaluation, RuleStep

(* A step of the threat machine, or one that at most engages the lock,     *)
(* with the protocol and the command state left alone.                     *)
LEMMA ThreatMovePreserves ==
  ASSUME IInv, ThreatMove, RuleTypes,
         \/ pc[Stdin] \notin StdinPCs /\ pc'[Stdin] \notin StdinPCs
         \/ pc'[Stdin] = pc[Stdin],
         UNCHANGED <<protocolVars, ballot, backup>>,
         sealed' \in {sealed, TRUE},
         tokens' \in [TokenIds -> StoredToken],
         cmd' \in Commands
  PROVE  IInv'
<1> USE DEF protocolVars
<1>1. worm' \in WormStates /\ (Locked => Locked')
  BY DEF IInv, BridgeTypeOK, ThreatMove, WormStates, Locked
<1>2. BridgeTypeOK'
  <2>1. UnlockProtocolType'
    BY DEF IInv, BridgeTypeOK, UnlockProtocolType
  <2>2. pc'[Stdin] = "vote" => ballot' # NoBallot
    BY DEF IInv, BridgeTypeOK, StdinPCs
  <2>3. QED
    BY <1>1, <2>1, <2>2 DEF IInv, BridgeTypeOK, RuleTypes, ThreatMove
<1>3. OpeningMeansLocked' /\ SealedBeforeSession'
  BY <1>1 DEF IInv, OpeningMeansLocked, SealedBeforeSession, StdinPCs
<1>4. SessionMeansLocked' /\ AllRegistered'
  BY <1>1 DEF IInv, SessionMeansLocked, AllRegistered
<1>5. CriticalOpenOnlyByQuorum'
  BY DEF IInv, CriticalOpenOnlyByQuorum, ThreatMove, Locked
<1>6. SessionSealsStore'
  BY DEF IInv, SessionSealsStore, StdinPCs
<1>7. QED
  BY <1>2, <1>3, <1>4, <1>5, <1>6 DEF IInv

-----------------------------------------------------------------------------
(* The initial state: main() has run, no command has been read.            *)
THEOREM InitEstablishes == BridgeInit => IInv
<1> SUFFICES ASSUME BridgeInit PROVE IInv
  OBVIOUS
<1> USE DEF BridgeInit, WormInit, ThreatInit, RuleInit
<1>1. worm \in WormStates /\ tier \in Tiers /\ tier # CRITICAL
  BY DEF WormStates, Tiers, LOW, CRITICAL
<1>2. pc \in [Threads -> BridgePCs] /\ \A t \in Sensors : pc[t] \notin StdinPCs
  BY DEF BridgePCs, RulePCs, StdinPCs, Sensors
<1>3. tokens \in [TokenIds -> StoredToken]
  BY ScopeKnown DEF StoredToken
<1>4. UnlockProtocolType
  BY DEF UnlockProtocolType, ProtocolStates
<1>5. pc[Stdin] = "idle"
  BY StdinIsAThread
<1>6. BridgeTypeOK
  <2>1. score \in [Threads -> Scores \cup {NoScore}] /\ fired \in [Threads -> BOOLEAN]
    OBVIOUS
  <2>2. chaosHigh \in 0..SustainedWindows
    BY DEF SustainedWindows
  <2>3. /\ cmd \in Commands /\ ballot \in Requests \cup {NoBallot}
        /\ sealed \in BOOLEAN /\ backup \in {"UNLOCKED", "IMMUTABLE"}
    BY DEF Commands
  <2>4. QED
    BY <1>1, <1>2, <1>3, <1>4, <1>5, <2>1, <2>2, <2>3 DEF BridgeTypeOK
<1>7. QED
  BY <1>1, <1>5, <1>6
  DEF IInv, AllRegistered, OpeningMeansLocked, SealedBeforeSession, SessionMeansLocked,
      CriticalOpenOnlyByQuorum, SessionSealsStore

-----------------------------------------------------------------------------
(* The steps of the program that touch neither session nor backups.        *)
LEMMA SensorPreserves ==
  ASSUME IInv, NEW t \in Sensors, Sensor(t)
  PROVE  IInv'
<1>1. t \in Threads /\ t # Stdin
  BY DEF Sensors
<1>2. CASE SensorHandler(t)
  BY <1>2, SensorHandlerStep, ThreatMovePreserves
  DEF SensorHandler, commandVars, IInv, BridgeTypeOK
<1>3. CASE SensorReturns(t)
  BY <1>1, <1>3, ThreatMovePreserves, StdinIsAThread
  DEF SensorReturns, Return, Goto, ThreatMove, RuleTypes, commandVars, IInv, BridgeTypeOK,
      BridgePCs, RulePCs, StdinPCs
<1>4. CASE DemoTriggersLockdown(t)
  BY <1>1, <1>4, ThreatMovePreserves, StdinIsAThread
  DEF DemoTriggersLockdown, TriggerLockdown, Goto, ThreatMove, RuleTypes, commandVars,
      IInv, BridgeTypeOK, BridgePCs, RulePCs, StdinPCs
<1>5. CASE DemoLocksAll(t)
  BY <1>1, <1>5, ThreatMovePreserves, StdinIsAThread
  DEF DemoLocksAll, Goto, ThreatMove, RuleTypes, IInv, BridgeTypeOK,
      BridgePCs, RulePCs, StdinPCs
<1>6. QED
  BY <1>2, <1>3, <1>4, <1>5 DEF Sensor

(* An evaluation touches neither the session nor the backups. *)
LEMMA EvaluationPreserves ==
  ASSUME IInv, NEW t \in Threads, Evaluation(t)
  PROVE  IInv'
BY EvaluationStep, ThreatMovePreserves DEF Evaluation, commandVars, IInv, BridgeTypeOK

(* The death of an approver's token touches the token store only. *)
LEMMA TokenExpiresPreserves ==
  ASSUME IInv, TokenExpires
  PROVE  IInv'
<1>1. PICK id \in TokenIds : Expire(id)
  BY DEF TokenExpires
<1>2. tokens' \in [TokenIds -> StoredToken]
  BY <1>1 DEF Expire, StoredToken, IInv, BridgeTypeOK
<1>3. ThreatMove /\ RuleTypes
  BY DEF TokenExpires, ruleVars, ThreatMove, RuleTypes, IInv, BridgeTypeOK
<1>4. QED
  BY <1>2, <1>3, ThreatMovePreserves
  DEF TokenExpires, ruleVars, commandVars, IInv, BridgeTypeOK

-----------------------------------------------------------------------------
(* The commands that leave the session alone. *)
LEMMA QuietCommandPreserves ==
  ASSUME IInv,
         CmdObserveSignal \/ CmdReturns \/ CmdTriageEvent \/ CmdPushChaos
  PROVE  IInv'
<1> USE StdinIsAThread DEF Goto
<1>1. CASE CmdObserveSignal
  <2>1. PICK s \in Scores : ObserveThenEvaluate(Stdin, s)
    BY <1>1 DEF CmdObserveSignal
  <2>2. ThreatMove
    BY <2>1, ObserveIsThreatMove, ScoreIsInt DEF ObserveThenEvaluate, IInv, BridgeTypeOK
  <2>3. RuleTypes /\ pc[Stdin] \notin StdinPCs /\ pc'[Stdin] \notin StdinPCs
    BY <2>1 DEF ObserveThenEvaluate, RuleTypes, IInv, BridgeTypeOK, Sensors,
                BridgePCs, RulePCs, StdinPCs
  <2>4. QED
    BY <1>1, <2>2, <2>3, ThreatMovePreserves
    DEF CmdObserveSignal, IInv, BridgeTypeOK, Commands
<1>2. CASE CmdReturns
  BY <1>2, ThreatMovePreserves
  DEF CmdReturns, TriggerLockdown, ThreatMove, RuleTypes, IInv, BridgeTypeOK, Sensors,
      Commands, BridgePCs, RulePCs, StdinPCs
<1>3. CASE CmdTriageEvent
  <2>1. PICK s \in Scores : EnterEvaluate(Stdin, s)
    BY <1>3 DEF CmdTriageEvent
  <2>2. ThreatMove
    BY <2>1 DEF EnterEvaluate, ThreatMove, IInv, BridgeTypeOK
  <2>3. RuleTypes /\ pc[Stdin] \notin StdinPCs /\ pc'[Stdin] \notin StdinPCs
    BY <2>1 DEF EnterEvaluate, RuleTypes, IInv, BridgeTypeOK, Sensors,
                BridgePCs, RulePCs, StdinPCs
  <2>4. QED
    BY <1>3, <2>2, <2>3, ThreatMovePreserves
    DEF CmdTriageEvent, IInv, BridgeTypeOK, Commands
<1>4. CASE CmdPushChaos
  <2>1. PICK high \in BOOLEAN : EvaluateChaosWindow(Stdin, high)
    BY <1>4 DEF CmdPushChaos
  <2>2. ThreatMove
    BY <2>1, ForceIsThreatMove, TiersAreNamed
    DEF EvaluateChaosWindow, IInv, BridgeTypeOK, ThreatMove
  <2>3. chaosHigh' \in 0..SustainedWindows
    BY <2>1 DEF EvaluateChaosWindow, IInv, BridgeTypeOK, SustainedWindows
  <2>4. RuleTypes
    BY <2>1, <2>3 DEF EvaluateChaosWindow, IInv, BridgeTypeOK, RuleTypes
  <2>5. QED
    BY <1>4, <2>1, <2>2, <2>4, ThreatMovePreserves
    DEF CmdPushChaos, commandVars, IInv, BridgeTypeOK, EvaluateChaosWindow
<1>5. QED
  BY <1>1, <1>2, <1>3, <1>4

(* worm_trigger, call by call: the lockdown, the entries, the session, the *)
(* backups.                                                                *)
LEMMA WormTriggerPreserves ==
  ASSUME IInv,
         CmdWormTrigger \/ CmdLocksAll \/ CmdBeginsSession \/ CmdLocksBackups
  PROVE  IInv'
<1> USE StdinIsAThread DEF Goto, protocolVars, commandVars
<1>0. \A t \in Sensors : t \in Threads /\ t # Stdin
  BY DEF Sensors
<1>1. CASE CmdWormTrigger
  <2> USE <1>1 DEF CmdWormTrigger, TriggerLockdown
  <2>1. worm' = "LOCKED" /\ Locked'
    BY DEF Locked
  <2>2. /\ pc' \in [Threads -> BridgePCs]
        /\ \A t \in Sensors : pc'[t] \notin StdinPCs
        /\ pc'[Stdin] \in {"idle", "lock_all"}
    BY <1>0 DEF IInv, BridgeTypeOK, BridgePCs, StdinPCs
  <2>3. BridgeTypeOK'
    BY <2>1, <2>2 DEF IInv, BridgeTypeOK, UnlockProtocolType, WormStates, Commands
  <2>4. QED
    BY <2>1, <2>2, <2>3
    DEF IInv, AllRegistered, OpeningMeansLocked, SealedBeforeSession, SessionMeansLocked,
        CriticalOpenOnlyByQuorum, SessionSealsStore
<1>2. CASE CmdLocksAll
  <2> USE <1>2 DEF CmdLocksAll
  <2>1. /\ pc' \in [Threads -> BridgePCs]
        /\ \A t \in Sensors : pc'[t] \notin StdinPCs
        /\ pc'[Stdin] = "begin_session"
    BY <1>0 DEF IInv, BridgeTypeOK, BridgePCs, StdinPCs
  <2>2. Locked /\ Locked'
    BY DEF IInv, OpeningMeansLocked, Locked
  <2>3. BridgeTypeOK'
    BY <2>1 DEF IInv, BridgeTypeOK, UnlockProtocolType
  <2>4. QED
    BY <2>1, <2>2, <2>3
    DEF IInv, AllRegistered, OpeningMeansLocked, SealedBeforeSession, SessionMeansLocked,
        CriticalOpenOnlyByQuorum, SessionSealsStore
<1>3. CASE CmdBeginsSession
  <2> USE <1>3 DEF CmdBeginsSession
  <2>1. /\ pc' \in [Threads -> BridgePCs]
        /\ \A t \in Sensors : pc'[t] \notin StdinPCs
        /\ pc'[Stdin] = "lock_backups"
    BY <1>0 DEF IInv, BridgeTypeOK, BridgePCs, StdinPCs
  <2>2. Locked /\ Locked' /\ sealed /\ sealed'
    BY DEF IInv, OpeningMeansLocked, SealedBeforeSession, Locked
  <2>3. UnlockProtocolType' /\ registered' = registered
    BY DEF BeginSession, IInv, BridgeTypeOK, UnlockProtocolType, ProtocolStates
  <2>4. BridgeTypeOK'
    BY <2>1, <2>3 DEF IInv, BridgeTypeOK
  <2>5. QED
    BY <2>1, <2>2, <2>3, <2>4
    DEF IInv, AllRegistered, OpeningMeansLocked, SealedBeforeSession, SessionMeansLocked,
        CriticalOpenOnlyByQuorum, SessionSealsStore
<1>4. CASE CmdLocksBackups
  <2> USE <1>4 DEF CmdLocksBackups
  <2>1. /\ pc' \in [Threads -> BridgePCs]
        /\ \A t \in Sensors : pc'[t] \notin StdinPCs
        /\ pc'[Stdin] = "idle"
    BY <1>0 DEF IInv, BridgeTypeOK, BridgePCs, RulePCs, StdinPCs
  <2>2. backup' = "IMMUTABLE"
    BY DEF IInv, BridgeTypeOK
  <2>3. BridgeTypeOK'
    BY <2>1, <2>2 DEF IInv, BridgeTypeOK, UnlockProtocolType, Commands
  <2>4. QED
    BY <2>1, <2>2, <2>3
    DEF IInv, AllRegistered, OpeningMeansLocked, SealedBeforeSession, SessionMeansLocked,
        CriticalOpenOnlyByQuorum, SessionSealsStore, Locked
<1>5. QED
  BY <1>1, <1>2, <1>3, <1>4

(* unlock_vote: the challenge is there because every approver is           *)
(* registered, and the vote that lifts the lockdown closes its session.    *)
LEMMA UnlockVotePreserves ==
  ASSUME IInv, CmdUnlockVote \/ CmdCastsVote
  PROVE  IInv'
<1> USE StdinIsAThread DEF Goto, protocolVars, commandVars
<1>0. \A t \in Sensors : t \in Threads /\ t # Stdin
  BY DEF Sensors
<1>1. CASE CmdUnlockVote
  <2> USE <1>1 DEF CmdUnlockVote
  <2>1. PICK a \in Approvers, fresh \in Nonces :
          GetChallenge(a, fresh) /\ ballot' = [key |-> a, nonce |-> challenges'[a]]
    OBVIOUS
  <2>2. /\ pc' \in [Threads -> BridgePCs]
        /\ \A t \in Sensors : pc'[t] \notin StdinPCs
        /\ pc'[Stdin] = "vote"
    BY <1>0 DEF IInv, BridgeTypeOK, BridgePCs, StdinPCs
  <2>3. UnlockProtocolType' /\ challenges'[a] \in Nonces
    BY <2>1 DEF GetChallenge, IInv, BridgeTypeOK, UnlockProtocolType, AllRegistered
  <2>4. ballot' \in Requests /\ ballot' # NoBallot
    BY <2>1, <2>3, NoBallotFresh DEF Requests
  <2>5. BridgeTypeOK'
    BY <2>2, <2>3, <2>4 DEF IInv, BridgeTypeOK, Commands
  <2>6. QED
    BY <2>1, <2>2, <2>5
    DEF GetChallenge, IInv, AllRegistered, OpeningMeansLocked, SealedBeforeSession,
        SessionMeansLocked, CriticalOpenOnlyByQuorum, SessionSealsStore, Locked
<1>2. CASE CmdCastsVote
  <2> USE <1>2 DEF CmdCastsVote
  <2> DEFINE a == ballot.key
  <2>1. a \in Approvers
    BY DEF IInv, BridgeTypeOK, Requests
  <2>2. /\ pc' \in [Threads -> BridgePCs]
        /\ \A t \in Sensors : pc'[t] \notin StdinPCs
        /\ pc'[Stdin] = "idle"
    BY <1>0 DEF IInv, BridgeTypeOK, BridgePCs, RulePCs, StdinPCs
  <2>3. /\ worm' \in WormStates /\ UnlockProtocolType' /\ registered' = registered
        /\ prot' # "IDLE" => prot # "IDLE"
    BY <2>1 DEF CastVote, Acceptable, Accept, Unlock, IInv, BridgeTypeOK,
                UnlockProtocolType, WormStates, ProtocolStates
  <2>4. BridgeTypeOK'
    BY <2>2, <2>3 DEF IInv, BridgeTypeOK, Commands
  <2>5. SessionMeansLocked'
    BY DEF CastVote, Acceptable, Accept, Unlock, IInv, SessionMeansLocked, Locked
  <2>6. CriticalOpenOnlyByQuorum'
    BY DEF CastVote, Acceptable, Accept, Unlock, IInv, CriticalOpenOnlyByQuorum,
           SessionMeansLocked, Locked
  <2>7. QED
    BY <2>2, <2>3, <2>4, <2>5, <2>6
    DEF IInv, AllRegistered, OpeningMeansLocked, SealedBeforeSession, SessionSealsStore
<1>3. QED
  BY <1>1, <1>2

-----------------------------------------------------------------------------
(* Every step of the program preserves the invariant. *)
THEOREM NextPreserves == IInv /\ [BridgeNext]_bridgeVars => IInv'
<1> SUFFICES ASSUME IInv, [BridgeNext]_bridgeVars PROVE IInv'
  OBVIOUS
<1>1. CASE Command
  BY <1>1, QuietCommandPreserves, WormTriggerPreserves, UnlockVotePreserves DEF Command
<1>2. CASE \E t \in Sensors : Sensor(t)
  BY <1>2, SensorPreserves
<1>3. CASE \E t \in Threads : Evaluation(t)
  BY <1>3, EvaluationPreserves
<1>4. CASE TokenExpires
  BY <1>4, TokenExpiresPreserves
<1>5. CASE UNCHANGED bridgeVars
  BY <1>5
  DEF bridgeVars, IInv, BridgeTypeOK, AllRegistered, OpeningMeansLocked, SealedBeforeSession,
      SessionMeansLocked, CriticalOpenOnlyByQuorum, SessionSealsStore, UnlockProtocolType, Locked
<1>6. QED
  BY <1>1, <1>2, <1>3, <1>4, <1>5 DEF BridgeNext

(* The inductive invariant holds in every reachable state. *)
THEOREM InvariantHolds == BridgeSpec => []IInv
BY InitEstablishes, NextPreserves, PTL DEF BridgeSpec

(* The wired state stays within its types (the globals of the bridge). *)
THEOREM TypeCorrect == BridgeSpec => []BridgeTypeOK
<1>1. IInv => BridgeTypeOK
  BY DEF IInv
<1>2. QED
  BY <1>1, InvariantHolds, PTL

(* A session is only ever open under a lockdown (worm_trigger, cast_vote). *)
THEOREM SessionsAreLocked == BridgeSpec => []SessionMeansLocked
<1>1. IInv => SessionMeansLocked
  BY DEF IInv
<1>2. QED
  BY <1>1, InvariantHolds, PTL

(* No interleaving leaves CRITICAL without its lockdown unless a quorum    *)
(* opened it (do_transition, cast_vote).                                   *)
THEOREM CriticalIsLocked == BridgeSpec => []CriticalOpenOnlyByQuorum
<1>1. IInv => CriticalOpenOnlyByQuorum
  BY DEF IInv
<1>2. QED
  BY <1>1, InvariantHolds, PTL

(* A session implies sealed entries and backups (calls of worm_trigger). *)
THEOREM SessionsSealTheStore == BridgeSpec => []SessionSealsStore
<1>1. IInv => SessionSealsStore
  BY DEF IInv
<1>2. QED
  BY <1>1, InvariantHolds, PTL

-----------------------------------------------------------------------------
(* A step that neither opens a session nor counts a vote: whatever a       *)
(* sensor, a rule or a plain command does to the lock and the protocol.    *)
QuietStep ==
  /\ ThreatMove
  /\ UNCHANGED protocolVars
  /\ pc'[Stdin] \notin StdinPCs \/ pc'[Stdin] = pc[Stdin]

SessionStep ==
  \/ CmdWormTrigger \/ CmdLocksAll \/ CmdBeginsSession \/ CmdLocksBackups
  \/ CmdUnlockVote \/ CmdCastsVote

(* Every step is quiet, or one of those of worm_trigger and unlock_vote. *)
LEMMA StepIsQuietOrSession ==
  ASSUME IInv, BridgeNext
  PROVE  QuietStep \/ SessionStep
<1> USE StdinIsAThread DEF QuietStep, Goto
<1>0. \A t \in Sensors : t \in Threads /\ t # Stdin
  BY DEF Sensors
<1>1. ASSUME NEW t \in Sensors, Sensor(t) PROVE QuietStep
  <2>1. CASE SensorHandler(t)
    BY <2>1, SensorHandlerStep DEF SensorHandler
  <2>2. CASE SensorReturns(t) \/ DemoTriggersLockdown(t) \/ DemoLocksAll(t)
    BY <2>2, <1>0
    DEF SensorReturns, Return, DemoTriggersLockdown, DemoLocksAll, TriggerLockdown,
        ThreatMove, IInv, BridgeTypeOK
  <2>3. QED
    BY <1>1, <2>1, <2>2 DEF Sensor
<1>2. ASSUME NEW t \in Threads, Evaluation(t) PROVE QuietStep
  BY <1>2, EvaluationStep DEF Evaluation
<1>3. CASE TokenExpires
  BY <1>3 DEF TokenExpires, ruleVars, ThreatMove, IInv, BridgeTypeOK
<1>4. CASE CmdObserveSignal
  <2>1. PICK s \in Scores : ObserveThenEvaluate(Stdin, s)
    BY <1>4 DEF CmdObserveSignal
  <2>2. ThreatMove
    BY <2>1, ObserveIsThreatMove, ScoreIsInt DEF ObserveThenEvaluate, IInv, BridgeTypeOK
  <2>3. QED
    BY <1>4, <2>1, <2>2
    DEF CmdObserveSignal, ObserveThenEvaluate, IInv, BridgeTypeOK, StdinPCs
<1>5. CASE CmdPushChaos
  BY <1>5, ForceIsThreatMove, TiersAreNamed
  DEF CmdPushChaos, EvaluateChaosWindow, ThreatMove, IInv, BridgeTypeOK
<1>6. CASE CmdReturns \/ CmdTriageEvent
  BY <1>6
  DEF CmdReturns, CmdTriageEvent, EnterEvaluate, TriggerLockdown, ThreatMove,
      IInv, BridgeTypeOK, StdinPCs
<1>7. QED
  BY <1>1, <1>2, <1>3, <1>4, <1>5, <1>6 DEF BridgeNext, Command, SessionStep

(* A lockdown engaged without a session stays for ever (worm_trigger       *)
(* returns early when the lock is already engaged, and cast_vote needs an  *)
(* open session).                                                          *)
THEOREM OrphansStay == BridgeSpec => OrphanedIsForever
<1>1. IInv /\ [BridgeNext]_bridgeVars => (Orphaned => Orphaned')
  <2> SUFFICES ASSUME IInv, [BridgeNext]_bridgeVars, Orphaned PROVE Orphaned'
    OBVIOUS
  <2> USE StdinIsAThread DEF Goto, Orphaned, Locked, IInv, BridgeTypeOK
  <2>1. CASE QuietStep
    BY <2>1 DEF QuietStep, ThreatMove, protocolVars, StdinPCs
  <2>2. CASE CmdWormTrigger
    BY <2>2 DEF CmdWormTrigger, TriggerLockdown, protocolVars
  <2>3. CASE CmdLocksAll \/ CmdBeginsSession
    BY <2>3 DEF CmdLocksAll, CmdBeginsSession
  <2>4. CASE CmdLocksBackups
    BY <2>4 DEF CmdLocksBackups, protocolVars
  <2>5. CASE CmdUnlockVote
    BY <2>5 DEF CmdUnlockVote, GetChallenge
  <2>6. CASE CmdCastsVote
    BY <2>6 DEF CmdCastsVote, CastVote, Acceptable
  <2>7. CASE UNCHANGED bridgeVars
    BY <2>7 DEF bridgeVars
  <2>8. QED
    BY <2>1, <2>2, <2>3, <2>4, <2>5, <2>6, <2>7, StepIsQuietOrSession DEF SessionStep
<1>2. QED
  BY <1>1, InvariantHolds, PTL DEF BridgeSpec, OrphanedIsForever

-----------------------------------------------------------------------------
(* The bridge implements QuorumLock: it starts unlocked with no ballot,    *)
(* and every step engages the lock, counts a ballot, lifts the lock on a   *)
(* quorum, or changes neither (trigger_lockdown, cast_vote).               *)
THEOREM BridgeImplementsPromise == BridgeSpec => LiftsByQuorumOnly
<1>1. BridgeInit => Promise!Init
  BY DEF BridgeInit, WormInit, Promise!Init, Locked, CountedBallots
<1>2. IInv /\ [BridgeNext]_bridgeVars => [Promise!Next]_<<Locked, CountedBallots>>
  <2> SUFFICES ASSUME IInv, [BridgeNext]_bridgeVars
               PROVE  Promise!Next \/ UNCHANGED <<Locked, CountedBallots>>
    OBVIOUS
  <2>1. CASE QuietStep \/ CmdWormTrigger
    <3>1. worm' \in {worm, "LOCKED"} /\ UNCHANGED <<prot, votes>>
      BY <2>1 DEF QuietStep, ThreatMove, protocolVars, CmdWormTrigger, TriggerLockdown
    <3>2. CountedBallots' = CountedBallots
      BY <3>1 DEF CountedBallots
    <3>3. ~Locked => CountedBallots = {}
      BY DEF IInv, SessionMeansLocked, CountedBallots
    <3>4. QED
      BY <3>1, <3>2, <3>3 DEF Promise!Next, Promise!Engage, Locked
  <2>2. CASE CmdLocksAll \/ CmdLocksBackups \/ CmdUnlockVote \/ UNCHANGED bridgeVars
    BY <2>2
    DEF CmdLocksAll, CmdLocksBackups, CmdUnlockVote, GetChallenge, bridgeVars,
        protocolVars, Locked, CountedBallots
  <2>3. CASE CmdBeginsSession
    BY <2>3 DEF CmdBeginsSession, BeginSession, Locked, CountedBallots
  <2>4. CASE CmdCastsVote
    <3> DEFINE a == ballot.key
    <3>1. CASE ~Acceptable(a, ballot)
      BY <2>4, <3>1 DEF CmdCastsVote, CastVote, Locked, CountedBallots
    <3>2. CASE Acceptable(a, ballot)
      <4>1. /\ Accept(a) /\ a \in Approvers
            /\ CountedBallots = votes /\ a \notin votes /\ Locked
            /\ votes \cup {a} \subseteq Approvers
        BY <2>4, <3>2
        DEF CmdCastsVote, CastVote, Acceptable, CountedBallots, IInv, SessionMeansLocked,
            BridgeTypeOK, UnlockProtocolType
      <4>2. CASE Cardinality(votes \cup {a}) >= Threshold
        <5>1. CountedBallots' = {} /\ ~Locked'
          BY <4>1, <4>2 DEF Accept, Unlock, CountedBallots, Locked
        <5>2. Promise!Lift(a)
          BY <4>1, <4>2, <5>1 DEF Promise!Lift, Quora
        <5>3. QED
          BY <4>1, <5>2 DEF Promise!Next
      <4>3. CASE ~(Cardinality(votes \cup {a}) >= Threshold)
        <5>1. CountedBallots' = votes \cup {a} /\ Locked' = Locked
          BY <3>2, <4>1, <4>3 DEF Accept, Acceptable, CountedBallots, Locked
        <5>2. votes \cup {a} \notin Quora
          BY <4>3 DEF Quora
        <5>3. Promise!Ballot(a)
          BY <4>1, <5>1, <5>2 DEF Promise!Ballot
        <5>4. QED
          BY <4>1, <5>3 DEF Promise!Next
      <4>4. QED
        BY <4>2, <4>3
    <3>3. QED
      BY <3>1, <3>2
  <2>5. QED
    BY <2>1, <2>2, <2>3, <2>4, StepIsQuietOrSession DEF SessionStep
<1>3. QED
  BY <1>1, <1>2, InvariantHolds, PTL DEF BridgeSpec, LiftsByQuorumOnly, Promise!Spec
=============================================================================
