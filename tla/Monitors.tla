------------------------------- MODULE Monitors -------------------------------
(***************************************************************************)
(* The threads of --protect that bring signals: core/fs_monitor (one       *)
(* watcher per directory), core/event_log_monitor (callbacks of the event  *)
(* log service) and core/packet_sensor (one capture thread), with their    *)
(* start and stop.  What their callbacks do is conjoined in Protection.    *)
(*                                                                         *)
(* watcher[r]: none, head (about to read running_), waiting (for a change  *)
(* or the stop event), callback (with a change), done.                     *)
(* capture: none, loop, done.                                              *)
(***************************************************************************)
EXTENDS Naturals

CONSTANTS Roots,            \* watched directories
          Channels          \* event log channels

VARIABLES filesRunning,     \* FsMonitor::running_
          stopEvents,       \* the stop events are set
          watcher,
          eventsRunning,    \* EventLogMonitor::running_
          subscribed,       \* channels with an open subscription
          delivering,       \* channels whose callback passed the test of running_
          packetsRunning,   \* PacketSensor::running_
          capture

fileVars == <<filesRunning, stopEvents, watcher>>
eventVars == <<eventsRunning, subscribed, delivering>>
packetVars == <<packetsRunning, capture>>
monitorVars == <<fileVars, eventVars, packetVars>>

WatcherPCs == {"none", "head", "waiting", "callback", "done"}
CapturePCs == {"none", "loop", "done"}

MonitorInit ==
  /\ filesRunning = FALSE /\ stopEvents = FALSE
  /\ watcher = [r \in Roots |-> "none"]
  /\ eventsRunning = FALSE
  /\ subscribed = {} /\ delivering = {}
  /\ packetsRunning = FALSE /\ capture = "none"

GotoWatch(r, where) == watcher' = [watcher EXCEPT ![r] = where]
-----------------------------------------------------------------------------
(* FsMonitor::start: a watcher for every root that can be opened. *)
FilesStart ==
  /\ \E opened \in SUBSET Roots :
       /\ watcher' = [r \in Roots |-> IF r \in opened THEN "head" ELSE "none"]
       /\ filesRunning' = (opened # {})
  /\ UNCHANGED <<stopEvents, eventVars, packetVars>>

(* FsMonitor::stop: running_, the stop events, the joins. *)
FilesStop ==
  /\ filesRunning' = FALSE
  /\ UNCHANGED <<stopEvents, watcher, eventVars, packetVars>>

FilesSignal ==
  /\ stopEvents' = TRUE
  /\ UNCHANGED <<filesRunning, watcher, eventVars, packetVars>>

(* A faulty stop that does not wait for its threads. *)
FilesJoinNobody ==
  /\ UNCHANGED <<watcher, filesRunning, stopEvents, eventVars, packetVars>>

FilesJoin ==
  /\ \A r \in Roots : watcher[r] \in {"none", "done"}
  /\ watcher' = [r \in Roots |-> "none"]
  /\ UNCHANGED <<filesRunning, stopEvents, eventVars, packetVars>>

(* A faulty loop that looks at the stop event only. *)
WatchHeadAlways(r) ==
  /\ watcher[r] = "head"
  /\ \E next \in {"waiting", "done"} : GotoWatch(r, next)
  /\ UNCHANGED <<filesRunning, stopEvents, eventVars, packetVars>>

(* The head of watch_loop: the read that is issued may fail, which ends    *)
(* the thread for good.                                                    *)
WatchHead(r) ==
  /\ watcher[r] = "head"
  /\ \E next \in (IF filesRunning THEN {"waiting", "done"} ELSE {"done"}) : GotoWatch(r, next)
  /\ UNCHANGED <<filesRunning, stopEvents, eventVars, packetVars>>

(* A change is there: it is looked at before the stop event. *)
ChangeArrives(r) ==
  /\ watcher[r] = "waiting"
  /\ GotoWatch(r, "callback")
  /\ UNCHANGED <<filesRunning, stopEvents, eventVars, packetVars>>

(* The wait or the result was useless: back to the head. *)
WaitFails(r) ==
  /\ watcher[r] = "waiting"
  /\ GotoWatch(r, "head")
  /\ UNCHANGED <<filesRunning, stopEvents, eventVars, packetVars>>

WatchLeaves(r) ==
  /\ watcher[r] = "waiting" /\ stopEvents
  /\ GotoWatch(r, "done")
  /\ UNCHANGED <<filesRunning, stopEvents, eventVars, packetVars>>

(* One record of the buffer, to which the callback is called (unless its   *)
(* extension is filtered out); more may follow.                            *)
WatchReports(r) ==
  /\ watcher[r] = "callback"
  /\ \E next \in {"callback", "head"} : GotoWatch(r, next)
  /\ UNCHANGED <<filesRunning, stopEvents, eventVars, packetVars>>

-----------------------------------------------------------------------------
(* EventLogMonitor::start, with the channels whose subscription is granted *)
(* (none: start fails and nothing runs).                                   *)
EventsStart ==
  /\ subscribed' \in SUBSET Channels
  /\ eventsRunning' = (subscribed' # {})
  /\ UNCHANGED <<delivering, fileVars, packetVars>>

(* stop: the subscriptions are closed.  The dispatch thread it joins only  *)
(* waits for the event stop() has just set.  A callback that passed its    *)
(* test of running_ is not waited for.                                     *)
EventsStop ==
  /\ eventsRunning' = FALSE
  /\ subscribed' = {}
  /\ UNCHANGED <<delivering, fileVars, packetVars>>

(* evt_callback, delivered by the service; without running_ it does nothing. *)
EventArrives(c) ==
  /\ c \in subscribed \ delivering /\ eventsRunning
  /\ delivering' = delivering \cup {c}
  /\ UNCHANGED <<eventsRunning, subscribed, fileVars, packetVars>>

(* on_event: a monitored event is scored and forwarded, another dropped. *)
EventDelivered(c) ==
  /\ c \in delivering
  /\ delivering' = delivering \ {c}
  /\ UNCHANGED <<eventsRunning, subscribed, fileVars, packetVars>>

-----------------------------------------------------------------------------
(* PacketSensor::start, on an adapter or on the synthetic injector. *)
PacketsStart ==
  /\ packetsRunning' = TRUE
  /\ capture' = "loop"
  /\ UNCHANGED <<fileVars, eventVars>>

PacketsStop ==
  /\ packetsRunning' = FALSE
  /\ UNCHANGED <<capture, fileVars, eventVars>>

(* The join; the partial window is then flushed by the stopping thread. *)
PacketsJoin ==
  /\ capture = "done"
  /\ capture' = "none"
  /\ UNCHANGED <<packetsRunning, fileVars, eventVars>>

(* capture_loop, synthetic_loop: packets and windows go to the callback    *)
(* within a round; the loop ends because it must or because capturing      *)
(* failed.                                                                 *)
CaptureEnds ==
  /\ capture = "loop"
  /\ capture' = "done"
  /\ UNCHANGED <<packetsRunning, fileVars, eventVars>>

-----------------------------------------------------------------------------
(* Types of the monitors' headers. *)
MonitorTypeOK ==
  /\ filesRunning \in BOOLEAN /\ stopEvents \in BOOLEAN
  /\ watcher \in [Roots -> WatcherPCs]
  /\ eventsRunning \in BOOLEAN
  /\ subscribed \subseteq Channels /\ delivering \subseteq Channels
  /\ packetsRunning \in BOOLEAN
  /\ capture \in CapturePCs
=============================================================================
