------------------------------- MODULE Bridge -------------------------------
(***************************************************************************)
(* bridge/astartis_bridge.cpp: how the process wires the threat machine,   *)
(* the rule engine, the WORM lock and the unlock protocol together.  One   *)
(* thread reads commands from stdin and runs each to its end; the monitor  *)
(* callbacks and the detached demo thread run beside it.                   *)
(*                                                                         *)
(* Further program counters, beyond those of RuleEngine:                   *)
(*   lock_all, begin_session, lock_backups   the tail of worm_trigger      *)
(*   vote                                    unlock_vote, challenge signed *)
(*   demo_lock_all                           the end of run_demo           *)
(***************************************************************************)
EXTENDS RuleEngine, UnlockProtocol

CONSTANTS Stdin,            \* the thread of stdin_loop
          NoBallot

ASSUME StdinIsAThread == Stdin \in Threads
ASSUME ScopeKnown == VoteScope \in Scopes
ASSUME NoBallotFresh == NoBallot \notin Requests

VARIABLES cmd,              \* the command the stdin thread is executing
          ballot,           \* signed_req of the unlock_vote being executed
          sealed,           \* every entry populate() created is individually locked
          backup            \* VeeamInterface repo_.lock_state

bridgeVars == <<worm, tier, pc, score, fired, chaosHigh, tokens, prot, registered,
                votes, challenges, cmd, ballot, sealed, backup>>
ruleVars == <<pc, score, fired, chaosHigh>>
protocolVars == <<prot, registered, votes, challenges>>
commandVars == <<cmd, ballot, sealed, backup>>

Sensors == Threads \ {Stdin}
Commands == {"none", "observe_signal", "triage_event", "worm_trigger", "unlock_vote"}
StdinPCs == {"lock_all", "begin_session", "lock_backups", "vote"}
BridgePCs == RulePCs \cup StdinPCs \cup {"demo_lock_all"}

(* main() has populated the sandbox, granted the approvers' 24 h tokens    *)
(* and registered the approvers before any thread starts.                  *)
BridgeInit ==
  /\ WormInit /\ ThreatInit /\ RuleInit
  /\ tokens = [id \in TokenIds |->
                 [scope |-> VoteScope, expired |-> FALSE, revoked |-> FALSE]]
  /\ prot = "IDLE"
  /\ registered = Approvers
  /\ votes = {}
  /\ challenges = [a \in Approvers |-> NoNonce]
  /\ cmd = "none"
  /\ ballot = NoBallot
  /\ sealed = FALSE
  /\ backup = "UNLOCKED"

-----------------------------------------------------------------------------
(* Callbacks of fs_monitor, the packet sensor and the event log, and the   *)
(* body of the demo thread.  None of them touches the unlock protocol.     *)
SensorHandler(t) ==
  /\ \/ \E s \in Scores : Observe(t, s) \/ ObserveThenEvaluate(t, s)
     \/ \E high \in BOOLEAN : EvaluateChaosWindow(t, high)
  /\ UNCHANGED <<tokens, protocolVars, commandVars>>

DemoTriggersLockdown(t) ==
  /\ pc[t] = "idle"
  /\ TriggerLockdown
  /\ Goto(t, "demo_lock_all")
  /\ UNCHANGED <<tier, score, fired, chaosHigh, tokens, protocolVars, commandVars>>

DemoLocksAll(t) ==
  /\ pc[t] = "demo_lock_all"
  /\ sealed' = TRUE
  /\ Goto(t, "idle")
  /\ UNCHANGED <<worm, tier, score, fired, chaosHigh, tokens, protocolVars, cmd, ballot, backup>>

SensorReturns(t) ==
  /\ Return(t)
  /\ UNCHANGED <<tokens, protocolVars, commandVars>>

-----------------------------------------------------------------------------
(* dispatch: the commands of the stdin thread. *)
CmdObserveSignal ==
  /\ \E s \in Scores : ObserveThenEvaluate(Stdin, s)
  /\ cmd' = "observe_signal"
  /\ UNCHANGED <<tokens, protocolVars, ballot, sealed, backup>>

(* observe_signal ends by engaging the lock itself when either evaluation  *)
(* reported that it had; triage_event drops the result.                    *)
CmdReturns ==
  /\ pc[Stdin] = "returned"
  /\ IF cmd = "observe_signal" /\ fired[Stdin] THEN TriggerLockdown ELSE UNCHANGED worm
  /\ Goto(Stdin, "idle")
  /\ fired' = [fired EXCEPT ![Stdin] = FALSE]
  /\ cmd' = "none"
  /\ UNCHANGED <<tier, score, chaosHigh, tokens, protocolVars, ballot, sealed, backup>>

CmdTriageEvent ==
  /\ \E s \in Scores : EnterEvaluate(Stdin, s)
  /\ cmd' = "triage_event"
  /\ UNCHANGED <<tokens, protocolVars, ballot, sealed, backup>>

(* push_chaos completes at most one window, whose callback runs RULE-05. *)
CmdPushChaos ==
  /\ \E high \in BOOLEAN : EvaluateChaosWindow(Stdin, high)
  /\ UNCHANGED <<tokens, protocolVars, commandVars>>

(* A faulty worm_trigger that goes on whether or not it changed the lock.  *)
CmdWormTriggerAlways ==
  /\ pc[Stdin] = "idle"
  /\ TriggerLockdown
  /\ Goto(Stdin, "lock_all") /\ cmd' = "worm_trigger"
  /\ UNCHANGED <<tier, score, fired, chaosHigh, tokens, protocolVars, ballot, sealed, backup>>

(* worm_trigger: only the call that changed the lock goes on to lock the   *)
(* entries, open a voting session and lock the backups.                    *)
CmdWormTrigger ==
  /\ pc[Stdin] = "idle"
  /\ TriggerLockdown
  /\ IF Locked
     THEN UNCHANGED <<pc, cmd>>
     ELSE Goto(Stdin, "lock_all") /\ cmd' = "worm_trigger"
  /\ UNCHANGED <<tier, score, fired, chaosHigh, tokens, protocolVars, ballot, sealed, backup>>

CmdLocksAll ==
  /\ pc[Stdin] = "lock_all"
  /\ sealed' = TRUE
  /\ Goto(Stdin, "begin_session")
  /\ UNCHANGED <<worm, tier, score, fired, chaosHigh, tokens, protocolVars, cmd, ballot, backup>>

CmdBeginsSession ==
  /\ pc[Stdin] = "begin_session"
  /\ BeginSession
  /\ Goto(Stdin, "lock_backups")
  /\ UNCHANGED <<worm, tier, score, fired, chaosHigh, tokens, commandVars>>

(* A faulty lock_backups with its idempotence guard inverted. *)
CmdLocksBackupsInverted ==
  /\ pc[Stdin] = "lock_backups"
  /\ backup' = IF backup = "UNLOCKED" THEN backup ELSE "IMMUTABLE"
  /\ Goto(Stdin, "idle")
  /\ cmd' = "none"
  /\ UNCHANGED <<worm, tier, score, fired, chaosHigh, tokens, protocolVars, ballot, sealed>>

(* lock_backups: UNLOCKED becomes IMMUTABLE, anything else stays. *)
CmdLocksBackups ==
  /\ pc[Stdin] = "lock_backups"
  /\ backup' = IF backup = "UNLOCKED" THEN "IMMUTABLE" ELSE backup
  /\ Goto(Stdin, "idle")
  /\ cmd' = "none"
  /\ UNCHANGED <<worm, tier, score, fired, chaosHigh, tokens, protocolVars, ballot, sealed>>

(* unlock_vote: fetch the approver's challenge, sign it with that          *)
(* approver's identity, cast the vote.                                     *)
CmdUnlockVote ==
  /\ pc[Stdin] = "idle"
  /\ \E a \in Approvers, fresh \in {n \in Nonces : \A b \in Approvers : challenges[b] # n} :
       /\ GetChallenge(a, fresh)
       /\ ballot' = [key |-> a, nonce |-> challenges'[a]]
  /\ Goto(Stdin, "vote")
  /\ cmd' = "unlock_vote"
  /\ UNCHANGED <<worm, tier, score, fired, chaosHigh, tokens, sealed, backup>>

CmdCastsVote ==
  /\ pc[Stdin] = "vote"
  /\ CastVote(ballot.key, ballot)
  /\ ballot' = NoBallot
  /\ Goto(Stdin, "idle")
  /\ cmd' = "none"
  /\ UNCHANGED <<tier, score, fired, chaosHigh, tokens, sealed, backup>>

-----------------------------------------------------------------------------
Evaluation(t) ==
  /\ RuleStep(t)
  /\ UNCHANGED <<tokens, protocolVars, commandVars>>

(* 24 hours after start-up a token is dead; nothing grants another one. *)
TokenExpires ==
  /\ \E id \in TokenIds : Expire(id)
  /\ UNCHANGED <<worm, tier, ruleVars, protocolVars, commandVars>>

Command ==
  \/ CmdObserveSignal \/ CmdReturns
  \/ CmdTriageEvent
  \/ CmdPushChaos
  \/ CmdWormTrigger \/ CmdLocksAll \/ CmdBeginsSession \/ CmdLocksBackups
  \/ CmdUnlockVote \/ CmdCastsVote

Sensor(t) ==
  \/ SensorHandler(t) \/ SensorReturns(t)
  \/ DemoTriggersLockdown(t) \/ DemoLocksAll(t)

BridgeNext ==
  \/ Command
  \/ \E t \in Sensors : Sensor(t)
  \/ \E t \in Threads : Evaluation(t)
  \/ TokenExpires

BridgeSpec == BridgeInit /\ [][BridgeNext]_bridgeVars
-----------------------------------------------------------------------------
(* The types of the wired state (astartis_bridge.cpp globals). *)
BridgeTypeOK ==
  /\ worm \in WormStates
  /\ tier \in Tiers
  /\ pc \in [Threads -> BridgePCs]
  /\ \A t \in Sensors : pc[t] \notin StdinPCs
  /\ score \in [Threads -> Scores \cup {NoScore}]
  /\ fired \in [Threads -> BOOLEAN]
  /\ chaosHigh \in 0..SustainedWindows
  /\ tokens \in [TokenIds -> StoredToken]
  /\ UnlockProtocolType
  /\ cmd \in Commands
  /\ ballot \in Requests \cup {NoBallot}
  /\ pc[Stdin] = "vote" => ballot # NoBallot
  /\ sealed \in BOOLEAN
  /\ backup \in {"UNLOCKED", "IMMUTABLE"}

(* Votes are only ever collected while the lockdown is engaged: no session *)
(* survives the lifting it led to, and none is open ahead of a lockdown    *)
(* (worm_trigger, unlock_vote, cast_vote).                                 *)
SessionMeansLocked == prot = "COLLECTING" => Locked

(* At tier CRITICAL the lock is open only because a quorum opened it:      *)
(* whatever the interleaving of the sensors, the belt and the commands, no *)
(* escalation to CRITICAL is left without its lockdown (do_transition).    *)
CriticalOpenOnlyByQuorum ==
  tier = CRITICAL /\ ~Locked =>
    prot = "GRANTED" /\ Cardinality(votes) >= Threshold

(* Once a session was opened the populated entries are sealed and, but for *)
(* the last call of the command that opened it, the backups are immutable  *)
(* (the order of calls in worm_trigger).                                   *)
SessionSealsStore ==
  prot # "IDLE" => sealed /\ (backup = "IMMUTABLE" \/ pc[Stdin] = "lock_backups")

(* A lockdown no session goes with: engaged by a sensor, a rule or the     *)
(* demo, and not by the worm_trigger command in progress.                  *)
Orphaned ==
  /\ Locked
  /\ prot # "COLLECTING"
  /\ pc[Stdin] \notin {"lock_all", "begin_session"}

(* An orphaned lockdown is never lifted: no command, vote or sensor leads  *)
(* out of it, because a session is opened only by the worm_trigger that    *)
(* changed the lock (worm_trigger, cast_vote, worm_unlock is disabled).    *)
OrphanedIsForever == [][Orphaned => Orphaned']_bridgeVars

(* The lockdown is what QuorumLock promises: ballots belong to the current *)
(* engagement and only the one completing a quorum lifts it.               *)
CountedBallots == IF prot = "COLLECTING" THEN votes ELSE {}
Quora == {Q \in SUBSET Approvers : Cardinality(Q) >= Threshold}

Promise == INSTANCE QuorumLock
  WITH Voters <- Approvers, Quorums <- Quora, locked <- Locked, ballots <- CountedBallots

LiftsByQuorumOnly == Promise!Spec

(* What the comments of worm_trigger say of every lockdown (a fresh voting *)
(* session is opened and the backups are locked whenever one is engaged);  *)
(* looked at when no command or handler is half-way.                       *)
LockdownIsComplete ==
  Locked /\ (\A t \in Threads : pc[t] = "idle") =>
    prot = "COLLECTING" /\ backup = "IMMUTABLE"
=============================================================================
