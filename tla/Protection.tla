------------------------------ MODULE Protection ------------------------------
(***************************************************************************)
(* The process started with --protect or --dashboard, in four parts.       *)
(*                                                                         *)
(* rules    any thread calls any rule, with windows of any verdict:        *)
(*          RuleService as it is.                                          *)
(* windows  any thread pushes samples, and the windows the chaos detector  *)
(*          completes are what RULE-05 is given (on_chaos_window).         *)
(* agents   main starts the monitors and the autonomy loop, their threads  *)
(*          bring signals and tasks, and after the last command main stops *)
(*          and joins them.                                                *)
(* dashboard  main starts the writer and the server of the dashboard, its  *)
(*          connections are answered, and main stops and joins both.       *)
(*                                                                         *)
(* The first three meet in the callbacks of the monitors only, which feed  *)
(* the rules and the ring and read neither, and the rules accept every     *)
(* window at every moment, so nothing the detector reports can surprise    *)
(* them; the dashboard copies what the others keep and changes none of it. *)
(* So each part is checked by itself, the others at rest, and "part" says  *)
(* which one a behaviour follows.                                          *)
(***************************************************************************)
EXTENDS RuleService, ChaosDetector, AutonomyLoop, Monitors, Dashboard

CONSTANT EventScores        \* scores of the monitored events

InfectedScore == 90         \* of an infected file

ASSUME FeedersAreThreads == Feeders \subseteq Threads
ASSUME ScoresAreSignals == EventScores \cup {InfectedScore} \subseteq SignalScores

VARIABLES part,             \* the part a behaviour follows
          stage,            \* where main stands
          loopExists        \* g_autonomy_loop is assigned

threatVars == <<ruleServiceVars, chaosVars>>
agentVars == <<autonomyVars, monitorVars, stage, loopExists>>
protectionVars == <<threatVars, agentVars, dashboardVars, part>>

Stages == {"packets", "events", "files", "create", "start", "up", "loop_stop", "loop_join",
           "files_stop", "files_signal", "files_join", "events_stop", "packets_stop",
           "packets_join", "writer", "server", "server_stop", "server_close", "server_join",
           "writer_stop", "writer_join", "ended"}
Parts == {"rules", "windows", "agents", "dashboard"}

ProtectionInit ==
  /\ RuleServiceInit /\ ChaosInit /\ AutonomyInit /\ MonitorInit /\ DashboardInit
  /\ part \in Parts
  /\ part # "dashboard" => configFile = NoConfig
  /\ stage = IF part = "dashboard" THEN "writer" ELSE "packets"
  /\ loopExists = FALSE

-----------------------------------------------------------------------------
RulesNext ==
  /\ part = "rules"
  /\ RuleServiceNext
  /\ UNCHANGED <<chaosVars, agentVars, dashboardVars, part>>

-----------------------------------------------------------------------------
(* on_chaos_window: the window goes to RULE-05, which never triggers the   *)
(* lock itself, and to the snapshot, which nothing decides on.             *)
ReportsWindow(t) ==
  /\ Reports(t)
  /\ \E high \in BOOLEAN :
       /\ high => MayBeHigh(t)
       /\ EvaluateChaosWindow(t, high)

WindowsNext ==
  /\ part = "windows"
  /\ \E t \in Feeders :
       \/ ReportsWindow(t)
       \/ DetectorStep(t) /\ UNCHANGED <<worm, tier, pc, score, fired, chaosHigh>>
  /\ UNCHANGED <<lifted, agentVars, dashboardVars, part>>

-----------------------------------------------------------------------------
(* Main. *)
AgentsOnly == part = "agents" /\ UNCHANGED <<threatVars, dashboardVars, part>>

At(here, next) == stage = here /\ stage' = next

quietLoop == <<autonomyVars, loopExists>>
quietAll == <<autonomyVars, monitorVars, loopExists>>

StartsPackets == At("packets", "events") /\ PacketsStart /\ UNCHANGED quietLoop
StartsEvents == At("events", "files") /\ EventsStart /\ UNCHANGED quietLoop
StartsFiles == At("files", "create") /\ FilesStart /\ UNCHANGED quietLoop

(* The loop is created if there is an agent controller, then started: the  *)
(* monitors' callbacks find the pointer as soon as it is assigned.         *)
CreatesLoop ==
  /\ stage = "create"
  /\ \/ stage' = "start" /\ loopExists' = TRUE
     \/ stage' = "up" /\ UNCHANGED loopExists
  /\ UNCHANGED <<autonomyVars, monitorVars>>

StartsLoop == At("start", "up") /\ LoopStarts /\ UNCHANGED <<monitorVars, loopExists>>

InputEnds == At("up", "loop_stop") /\ UNCHANGED quietAll

(* Each stop() returns at once when its running_ is already clear. *)
StopsLoop ==
  \/ At("loop_stop", "loop_join") /\ LoopStops /\ UNCHANGED <<monitorVars, loopExists>>
  \/ At("loop_stop", "files_stop") /\ ~loopRunning /\ UNCHANGED quietAll

JoinsLoop == At("loop_join", "files_stop") /\ LoopJoins /\ UNCHANGED <<monitorVars, loopExists>>

StopsFiles ==
  \/ At("files_stop", "files_signal") /\ filesRunning /\ FilesStop /\ UNCHANGED quietLoop
  \/ At("files_stop", "events_stop") /\ ~filesRunning /\ UNCHANGED quietAll

SignalsFiles == At("files_signal", "files_join") /\ FilesSignal /\ UNCHANGED quietLoop
JoinsFiles == At("files_join", "events_stop") /\ FilesJoin /\ UNCHANGED quietLoop
StopsEvents == At("events_stop", "packets_stop") /\ EventsStop /\ UNCHANGED quietLoop
StopsPackets == At("packets_stop", "packets_join") /\ PacketsStop /\ UNCHANGED quietLoop
JoinsPackets == At("packets_join", "ended") /\ PacketsJoin /\ UNCHANGED quietLoop

StartUp == StartsPackets \/ StartsEvents \/ StartsFiles \/ CreatesLoop \/ StartsLoop
ShutDown ==
  \/ StopsLoop \/ JoinsLoop
  \/ StopsFiles \/ SignalsFiles \/ JoinsFiles
  \/ StopsEvents \/ StopsPackets \/ JoinsPackets

-----------------------------------------------------------------------------
(* The monitors' threads.  A callback pushes its signal if the loop        *)
(* exists; otherwise the signal never reaches the agents.                  *)
Signalled(s) == IF loopExists THEN PushSignal(s) ELSE UNCHANGED autonomyVars

(* A change to a file that is clean, or infected: scanned, and signalled.  *)
ReportsChange(r) ==
  /\ WatchReports(r)
  /\ \/ UNCHANGED autonomyVars
     \/ Signalled(InfectedScore)
  /\ UNCHANGED <<stage, loopExists>>

ReportsEvent(c) ==
  /\ EventDelivered(c)
  /\ \/ UNCHANGED autonomyVars
     \/ \E s \in EventScores : Signalled(s)
  /\ UNCHANGED <<stage, loopExists>>

quietMain == <<autonomyVars, stage, loopExists>>
WatcherMoves(r) == (WatchHead(r) \/ WatchLeaves(r)) /\ UNCHANGED quietMain
WatcherStep(r) == WatcherMoves(r) \/ ReportsChange(r)
CaptureStops == ~packetsRunning /\ CaptureEnds /\ UNCHANGED quietMain
LoopThreadStep == LoopStep /\ UNCHANGED <<monitorVars, stage, loopExists>>

Outside ==
  \/ packetsRunning /\ CaptureEnds /\ UNCHANGED quietMain
  \/ \E r \in Roots : (ChangeArrives(r) \/ WaitFails(r)) /\ UNCHANGED quietMain
  \/ \E c \in Channels : EventArrives(c) /\ UNCHANGED quietMain
  \/ \E l \in LevelsNotified : NotifyThreatLevel(l) /\ UNCHANGED <<monitorVars, stage, loopExists>>

AgentsNext ==
  /\ AgentsOnly
  /\ \/ StartUp \/ InputEnds \/ ShutDown
     \/ \E r \in Roots : WatcherStep(r)
     \/ \E c \in Channels : ReportsEvent(c)
     \/ CaptureStops \/ LoopThreadStep \/ Outside

-----------------------------------------------------------------------------
(* The same main with --dashboard alone: no monitor is there to stop.  The *)
(* server stops before the writer, whatever its connections are at.        *)
DashboardOnly == part = "dashboard" /\ UNCHANGED <<threatVars, autonomyVars, monitorVars, loopExists, part>>

StartsWriter == At("writer", "server") /\ WriterStarts
StartsServer == At("server", "up") /\ ServerStarts
DashboardInputEnds == At("up", "server_stop") /\ UNCHANGED dashboardVars
StopsServer ==
  \/ At("server_stop", "server_close") /\ serverRunning /\ ServerStops
  \/ At("server_stop", "writer_stop") /\ ~serverRunning /\ UNCHANGED dashboardVars
ClosesServer == At("server_close", "server_join") /\ ServerCloses
JoinsServer == At("server_join", "writer_stop") /\ ServerJoins
StopsWriter == At("writer_stop", "writer_join") /\ WriterStops
JoinsWriter == At("writer_join", "ended") /\ WriterJoins

DashboardMain ==
  \/ StartsWriter \/ StartsServer
  \/ StopsServer \/ ClosesServer \/ JoinsServer \/ StopsWriter \/ JoinsWriter

DashboardNext ==
  /\ DashboardOnly
  /\ \/ DashboardMain \/ DashboardInputEnds
     \/ /\ stage # "ended"
        /\ \/ WriterStep \/ AcceptorHead \/ AcceptFails
           \/ \E c \in Conns : Accepts(c) \/ ConnStep(c)
        /\ UNCHANGED stage

ProtectionNext == RulesNext \/ WindowsNext \/ AgentsNext \/ DashboardNext

(* The threads of the process go on when they can; nothing is assumed of   *)
(* the commands, the files, the event log or the service that reads it,    *)
(* and nothing of a watcher inside its callback: it scans through clamd,   *)
(* whose answer is received without a timeout (clamd_scanner.cpp).         *)
ProtectionSpec ==
  /\ ProtectionInit /\ [][ProtectionNext]_protectionVars
  /\ WF_protectionVars(AgentsOnly /\ (StartUp \/ ShutDown))
  /\ WF_protectionVars(AgentsOnly /\ LoopThreadStep)
  /\ WF_protectionVars(AgentsOnly /\ CaptureStops)
  /\ \A r \in Roots : WF_protectionVars(AgentsOnly /\ WatcherMoves(r))
  /\ WF_protectionVars(DashboardOnly /\ DashboardMain)
  /\ WF_protectionVars(DashboardOnly /\ WriterStep /\ UNCHANGED stage)
  /\ WF_protectionVars(DashboardOnly /\ AcceptorLeaves /\ UNCHANGED stage)
-----------------------------------------------------------------------------
(* Types of the composition. *)
ProtectionTypeOK ==
  /\ RuleTypeOK /\ ChaosTypeOK /\ AutonomyTypeOK /\ MonitorTypeOK /\ DashboardTypeOK
  /\ part \in Parts
  /\ stage \in Stages
  /\ loopExists \in BOOLEAN

(* RULE-05 sustains its escalation on two windows of different samples,    *)
(* but for the two races in which a push without a mutex counts one burst  *)
(* twice (push, flush_window, evaluate_chaos_window).                      *)
SustainedOnDistinctSamples ==
  /\ SamplesReportedOnce
  /\ part = "windows" /\ ~torn /\ ~twice => chaosHigh * MinSamples <= pushed

(* No watcher is left in its callback for ever: clamd answers or closes    *)
(* the connection.  Nothing in the code sees to it.                        *)
ScansEnd == \A r \in Roots : []<>(watcher[r] # "callback")

(* Once the input has ended, main returns if no scan hangs: no join of the *)
(* shutdown waits for a thread that does not leave, however often files    *)
(* change meanwhile and whatever command a connection of the dashboard     *)
(* waits for (main, and stop of FsMonitor, AutonomyLoop, PacketSensor,     *)
(* DashboardServer, Writer).                                               *)
ShutdownEnds == ScansEnd => (stage \in {"loop_stop", "server_stop"} ~> stage = "ended")

(* When main returns and the globals are destroyed, no thread of theirs is *)
(* left, no subscription is open, and no batch of signals and no write of  *)
(* the dashboard's data was cut off; from the loop's join on, no task is   *)
(* asked for any more.  (The dashboard's connections are not joined: they  *)
(* may be left.)                                                           *)
NobodyRunsAtTheEnd ==
  /\ stage \in {"files_stop", "files_signal", "files_join", "events_stop", "packets_stop",
                "packets_join", "ended"} => loopPC = "none" /\ batch = <<>>
  /\ stage \in {"events_stop", "packets_stop", "packets_join", "ended"} =>
       \A r \in Roots : watcher[r] = "none"
  /\ stage = "ended" => capture = "none" /\ subscribed = {}
  /\ stage \in {"writer_stop", "writer_join", "ended"} => acceptor = "none"
  /\ stage = "ended" => writer = "none"
=============================================================================
