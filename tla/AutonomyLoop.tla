----------------------------- MODULE AutonomyLoop -----------------------------
(***************************************************************************)
(* core/autonomy_loop: a ring of security signals and the thread that, at  *)
(* every tick, answers the threat level, hands a batch of signals to one   *)
(* agent and gives the next agent of the rotation its routine check.       *)
(* Inbound calls come from any thread under the mutexes of the ring and of *)
(* the level.                                                              *)
(*                                                                         *)
(* loopPC: none (no thread), head (about to read running_), respond, drain,*)
(* submit (with a batch), rotate, sleep, done (the function returned).     *)
(***************************************************************************)
EXTENDS Naturals, Sequences, FiniteSets

CONSTANTS Rotation,         \* k_soc_rotation
          Loaded,           \* agents the controller knows: submit_task refuses others
          SignalScores,     \* scores of the signals
          RingSize,         \* 100 signals kept
          BatchSize,        \* 20 signals drained per tick
          LevelsNotified,   \* threat levels somebody reports to the loop
          MaxSignals        \* bound: signals pushed in a behaviour

ASSUME RingIsPositive == {RingSize, BatchSize, MaxSignals} \subseteq Nat \ {0}
ASSUME SignalScoresAreNats == SignalScores \subseteq Nat
ASSUME RotationIsNotEmpty == Len(Rotation) \in Nat \ {0}
ASSUME LevelsAreKnown == LevelsNotified \subseteq {"LOW", "MEDIUM", "HIGH", "CRITICAL"}

VARIABLES ring,             \* pending_signals_, oldest first
          loopRunning,      \* running_
          loopPC,
          batch,            \* the signals taken off the ring in this tick
          turn,             \* soc_rotation_index_, modulo the rotation
          level,            \* current_threat_level_
          asked,            \* tasks the controller accepted in the loop's last step
          signals,          \* history: signals pushed
          handed,           \* history: signals handed over, with the task's priority
          refused,          \* history: signals of a batch whose task was refused
          dropped           \* history: signals a full ring dropped

autonomyVars ==
  <<ring, loopRunning, loopPC, batch, turn, level, asked, signals, handed, refused, dropped>>

HighPriority == 0
NormalPriority == 1
LowPriority == 2
Levels == {"LOW", "MEDIUM", "HIGH", "CRITICAL"}
LoopPCs == {"none", "head", "respond", "drain", "submit", "rotate", "sleep", "done"}
Signals == [id : 1 .. MaxSignals, score : SignalScores]

AutonomyInit ==
  /\ ring = <<>>
  /\ loopRunning = FALSE
  /\ loopPC = "none"
  /\ batch = <<>>
  /\ turn = 0
  /\ level = "LOW"
  /\ asked = {}
  /\ signals = 0
  /\ handed = {} /\ refused = {} /\ dropped = {}

SignalsIn(s) == {s[i] : i \in DOMAIN s}
FirstOf(s, n) == SubSeq(s, 1, n)
AfterFirst(s, n) == SubSeq(s, n + 1, Len(s))

(* submit_task returns an id for an agent that is loaded, else nothing. *)
Asks(tasks) == asked' = {task \in tasks : task[1] \in Loaded}

-----------------------------------------------------------------------------
(* push_signal: the oldest signals leave a ring that is too long. *)
PushSignal(score) ==
  LET signal == [id |-> signals + 1, score |-> score]
      longer == Append(ring, signal)
      excess == IF Len(longer) > RingSize THEN Len(longer) - RingSize ELSE 0
  IN /\ signals < MaxSignals
     /\ signals' = signals + 1
     /\ ring' = AfterFirst(longer, excess)
     /\ dropped' = dropped \cup SignalsIn(FirstOf(longer, excess))
     /\ UNCHANGED <<loopRunning, loopPC, batch, turn, level, asked, handed, refused>>

(* notify_threat_level; the bridge never calls it. *)
NotifyThreatLevel(l) ==
  /\ level' = l
  /\ UNCHANGED <<ring, loopRunning, loopPC, batch, turn, asked, signals, handed, refused, dropped>>

(* start: nothing when already running. *)
LoopStarts ==
  /\ ~loopRunning
  /\ loopRunning' = TRUE
  /\ loopPC' = "head"
  /\ UNCHANGED <<ring, batch, turn, level, asked, signals, handed, refused, dropped>>

(* stop: running_ is cleared, then the thread is joined. *)
LoopStops ==
  /\ loopRunning
  /\ loopRunning' = FALSE
  /\ UNCHANGED <<ring, loopPC, batch, turn, level, asked, signals, handed, refused, dropped>>

LoopJoins ==
  /\ loopPC = "done"
  /\ loopPC' = "none"
  /\ UNCHANGED <<ring, loopRunning, batch, turn, level, asked, signals, handed, refused, dropped>>

-----------------------------------------------------------------------------
inbound == <<loopRunning, level, signals, dropped>>

LoopHead ==
  /\ loopPC = "head"
  /\ loopPC' = IF loopRunning THEN "respond" ELSE "done"
  /\ Asks({})
  /\ UNCHANGED <<ring, batch, turn, handed, refused, inbound>>

Responders == {"incident_responder", "threat_hunter", "forensics_investigator"}

(* tick_threat_response. *)
RespondsToThreat ==
  /\ loopPC = "respond"
  /\ loopPC' = "drain"
  /\ Asks(CASE level \in {"HIGH", "CRITICAL"} -> Responders \X {HighPriority}
            [] level = "MEDIUM" -> {<<"alert_triage", NormalPriority>>}
            [] level = "LOW" -> {})
  /\ UNCHANGED <<ring, batch, turn, handed, refused, inbound>>

(* A faulty drain that leaves what it takes in the ring. *)
DrainsCopies ==
  /\ loopPC = "drain"
  /\ LET take == IF Len(ring) < BatchSize THEN Len(ring) ELSE BatchSize
     IN /\ batch' = FirstOf(ring, take)
        /\ loopPC' = IF take = 0 THEN "rotate" ELSE "submit"
  /\ Asks({})
  /\ UNCHANGED <<ring, turn, handed, refused, inbound>>

(* tick_signal_drain: a batch leaves the ring under its mutex ...          *)
Drains ==
  /\ loopPC = "drain"
  /\ LET take == IF Len(ring) < BatchSize THEN Len(ring) ELSE BatchSize
     IN /\ batch' = FirstOf(ring, take)
        /\ ring' = AfterFirst(ring, take)
        /\ loopPC' = IF take = 0 THEN "rotate" ELSE "submit"
  /\ Asks({})
  /\ UNCHANGED <<turn, handed, refused, inbound>>

Route(score) ==
  CASE score >= 60 -> <<"incident_responder", HighPriority>>
    [] score >= 40 /\ score < 60 -> <<"alert_triage", NormalPriority>>
    [] OTHER -> <<"siem_analyst", LowPriority>>

MostSevere(s) == CHOOSE x \in SignalsIn(s) : \A y \in SignalsIn(s) : y.score <= x.score

(* ... and goes as one task where its most severe signal asks for; when    *)
(* the agent is not loaded, the batch is gone.                             *)
SubmitsBatch ==
  /\ loopPC = "submit"
  /\ loopPC' = "rotate"
  /\ LET task == Route(MostSevere(batch).score)
     IN /\ Asks({task})
        /\ IF task[1] \in Loaded
           THEN /\ handed' = handed \cup {[signal |-> s, priority |-> task[2]] : s \in SignalsIn(batch)}
                /\ UNCHANGED refused
           ELSE /\ refused' = refused \cup SignalsIn(batch)
                /\ UNCHANGED handed
  /\ batch' = <<>>
  /\ UNCHANGED <<ring, turn, inbound>>

(* A faulty rotation that waits for an agent that accepts. *)
RotatesWhenAccepted ==
  /\ loopPC = "rotate"
  /\ loopPC' = "sleep"
  /\ Asks({<<Rotation[turn + 1], LowPriority>>})
  /\ turn' = IF Rotation[turn + 1] \in Loaded THEN (turn + 1) % Len(Rotation) ELSE turn
  /\ UNCHANGED <<ring, batch, handed, refused, inbound>>

(* tick_soc_rotation, then the heartbeat entry: the turn is spent whether  *)
(* the task is accepted or not.                                            *)
Rotates ==
  /\ loopPC = "rotate"
  /\ loopPC' = "sleep"
  /\ Asks({<<Rotation[turn + 1], LowPriority>>})
  /\ turn' = (turn + 1) % Len(Rotation)
  /\ UNCHANGED <<ring, batch, handed, refused, inbound>>

(* The interval is over, or a half-second step found running_ cleared. *)
Wakes ==
  /\ loopPC = "sleep"
  /\ loopPC' = "head"
  /\ Asks({})
  /\ UNCHANGED <<ring, batch, turn, handed, refused, inbound>>

LoopStep == LoopHead \/ RespondsToThreat \/ Drains \/ SubmitsBatch \/ Rotates \/ Wakes
-----------------------------------------------------------------------------
(* Types of autonomy_loop.h; a batch is in hand exactly while it is being  *)
(* submitted, and only loaded agents are asked anything.                   *)
AutonomyTypeOK ==
  /\ ring \in Seq(Signals) /\ Len(ring) <= RingSize
  /\ loopRunning \in BOOLEAN
  /\ loopPC \in LoopPCs
  /\ batch \in Seq(Signals) /\ Len(batch) <= BatchSize
  /\ batch # <<>> <=> loopPC = "submit"
  /\ turn \in 0 .. Len(Rotation) - 1
  /\ level \in Levels
  /\ asked \subseteq Loaded \X {HighPriority, NormalPriority, LowPriority}
  /\ signals \in 0 .. MaxSignals
  /\ handed \subseteq [signal : Signals, priority : {HighPriority, NormalPriority, LowPriority}]
  /\ refused \subseteq Signals /\ dropped \subseteq Signals

(* Every signal pushed is in one place: waiting in the ring, in the batch, *)
(* handed over, refused with its batch, or dropped by a full ring.  The    *)
(* ring is in the order of the pushes and newer than all that left it, and *)
(* no signal is handed over less urgently than it asks for by itself       *)
(* (push_signal, tick_signal_drain).                                       *)
HandedSignals == {h.signal : h \in handed}
Ids(S) == {s.id : s \in S}
SignalsOnceInOrder ==
  /\ \A id \in 1 .. signals :
       Cardinality({p \in {1, 2, 3, 4, 5} :
         id \in Ids(<<SignalsIn(ring), SignalsIn(batch), HandedSignals, refused, dropped>>[p])}) = 1
  /\ \A i, j \in DOMAIN ring : i < j => ring[i].id < ring[j].id
  /\ \A s \in SignalsIn(ring), old \in SignalsIn(batch) \cup HandedSignals \cup refused \cup dropped :
       old.id < s.id
  /\ \A h \in handed : h.priority <= Route(h.signal.score)[2]

(* As long as the loop runs, every agent of the rotation has its turn      *)
(* again and again, also when some of them are not loaded.                 *)
RotationIsFair == \A i \in 0 .. Len(Rotation) - 1 : []<>(turn = i \/ ~loopRunning)
=============================================================================
