# A TLA+ verification of Astartis

Astartis is a ransomware-defence process for one host: sensors feed a threat
score to a state machine, rules decide when the host is in a critical state,
and a WORM ("write once, read many") lockdown then stops every write until a
quorum of human approvers lifts it. Beside that core, language-model agents
triage signals and propose responses (block an address, quarantine a file).

This directory models the parts of it whose correctness depends on order
(threads, callbacks, critical sections, replayed requests, sessions that open
and close) and the sequential decisions between a signal and a response. The reference is always the source under `src/`; `PROJECT.json`
maps each definition to the lines it translates.

Contents: 1 the system, 2 the modules, 3 the runs, 4 the proofs, 5 what the
models leave out, 6 where code and comments disagree, 7 plan.

## 1. The system

### Threads

`bridge/astartis_bridge.cpp` is the process. `main()` builds every component,
wires them with callbacks, and then runs `stdin_loop`, which executes one JSON
command at a time to its end. Beside that thread run:

- the file system monitor, the packet sensor and the event log monitor, which
  call back into the threat machine and the rules from threads of their own;
- a detached thread per `run_demo`;
- the agent pool (`AgentController`) and the autonomy loop that feeds it;
- the firewall's expiry loop, the Granite keep-alive, and the dashboard's
  HTTP connections.

Each component has a mutex and takes it per call. Nothing holds a mutex across
two components' calls, except the threat machine, which triggers the lockdown
inside its own (`do_transition`). So a *handler* (a command, a callback) is a
sequence of atomic calls, and all the interesting behaviour lies between them.

### Components

| Component (source) | State | Operations | Hard behaviour | Correct when |
|---|---|---|---|---|
| WORM lock (`core/worm_lock`) | NORMAL / LOCKED | `trigger_lockdown`, `unlock`, `is_locked` | everyone asks it, nobody holds it while acting on the answer | only a quorum lifts it |
| Threat machine (`core/threat_level`) | tier | `observe_signal`, `force_tier` | hysteresis; locks on entering CRITICAL | no way into CRITICAL misses the lock |
| Rule engine (`core/rule_engine`) | consecutive high chaos windows | RULE-01..05, the "belt" | the belt reads tier and lock in two critical sections and acts in a third | same; never de-escalates |
| Token store (`core/access_token`) | tokens, expiry, revocation | `grant`, `revoke`, `check_access` | expiry between challenge and vote | a dead token grants nothing |
| Unlock protocol (`core/unlock_protocol`, `core/crypto_identity`) | IDLE / COLLECTING / GRANTED, approvers, challenges, votes | `register_approver`, `begin_session`, `get_challenge`, `cast_vote` | replay, late and misattributed requests, sessions reopened | each counted vote is fresh; quorum of registered approvers |
| Bridge wiring (`bridge`) | the globals above, sandbox seal, backup lock | commands and callbacks | four-call `worm_trigger` beside the sensors | a session only under a lockdown, and over a sealed store |
| Sandbox, version store, decoys (`core/sandbox`, `version_store`, `decoy`) | entries with a version and a lock; histories; bait | `write`, `lock_entry`, `unlock_entry`, `lock_all`, `plant` | the lock is asked before the store's mutex is taken | late writes bounded, sealed content stays, bait exists |
| Backups (`core/veeam_interface`) | lock state | `lock_backups` | called last in `worm_trigger` | immutable under a session |
| Agent pool (`agents/controller/agent_controller`) | priority queue, statuses, `running_` | `submit_task`, `start`, `stop`, `worker_loop` | condition variable; `running_` outside the mutex; a strict priority queue | no task lost or run twice; served unless overtaken for ever; `stop` returns |
| Chaos detector (`core/chaos_detector`) | samples of the open window | `push`, `flush_window` | three threads push, there is no mutex | a sample counts in one window, but for the races that undo a clear or flush twice |
| Monitors (`core/fs_monitor`, `event_log_monitor`, `packet_sensor`) | `running_`, stop events, threads, subscriptions | `start`, `stop`, callbacks | a callback in progress while `stop` runs, or hanging in a scan; a watcher that dies | `stop` returns if no scan hangs, and nobody calls back after the shutdown |
| Autonomy loop (`core/autonomy_loop`) | ring of signals, last known tier, rotation | `push_signal`, `notify_threat_level`, `start`, `stop`, the loop's tick | bounded ring, batch lost on refusal | each signal handed over once, in order, urgently enough; every agent of the rotation has its turn |
| Firewall blocker (`core/firewall`) | records of blocks, the host's rules | `block`, `unblock`, expiry, destructor | two external rules per block, each netsh call may fail, misreport or end late; the rules outlive the process | a record has a rule; no order of calls leaves a rule without record; every block expires |
| Quarantine (`core/quarantine`) | records, moved files, sidecars | `quarantine_file`, `restore` | any disk operation fails, the process ends between any two, ids drawn twice, new files at old paths | a record has its file; no file is lost |
| Action dispatcher and policy (`agents/controller`) | none of its own | `dispatch` | partial failure of what it calls; the bridge installs none | one kind of action at most, the reported kind was tried, the target is the first address not excepted |
| AI triage (`core/ai_triage`) | none of its own | `triage` | two models, each may be silent or half parsed | the models never lower a score |
| Active response (`core/active_response`) | interactions per session, log | `serve` | sessions interleave | a session's tier only rises; the log is complete |
| Granite client (`agents/controller`) | in-flight counters per model | `generate`, `generateAsync`, keep-alive | early returns and exceptions; sentinels built from C strings; the counter is read before the ping is built | no request in progress is uncounted; the keep-alive stops |
| Audit chain (`core/audit_chain`) | hash chain | `add_entry`, `verify_chain` | edits anywhere, entries appended after | the first edited entry is the one reported |
| Zero-trust, NAC (`network_arch/zerotrust`) | none between requests | `evaluate`, `process`, `process_verbose` | order of the early returns | full admission is earned, unknown users get none |
| Event bus (`core/event_bus`) | subscriptions, queue | `subscribe`, `publish`, worker | included by no file of the repository | not modelled |
| Dashboard server and writer (`bridge/dashboard_*`) | accept loop, writer loop, `dashboard_data.json`, `config.json` | `start`, `stop`, `POST /config`, `/exec`, reads | a detached thread per connection, no mutex; writes that fail; a command that does not end | `stop` returns whatever the connections wait for; `config.json` is of the saves that crossed last |
| ClamAV, attribution, configuration, personas, front end, pipeline, Npcap helper | sockets, files | I/O, parsing, formatting | mostly I/O | not modelled; see `PROJECT.json` |

How they interact: sensors call `observe_signal` and the rules; both reach the
lock through `worm_trigger_fn`. The stores ask the lock through a callback
given to them (`lock_check_`). The protocol lifts it through `worm_unlock_`.
The same sensor callbacks push signals into the autonomy loop, which hands them
to the agent pool as tasks. An agent's answer would reach the firewall and the
quarantine through the dispatcher; `set_dispatcher` has no caller in the bridge.

## 2. The modules

```
WormLock <--- ThreatLevel <--- RuleEngine <--- RuleService <--- Protection
   ^            ^      ^           ^        (rules as a library)    |  with ChaosDetector,
   |            |   AiTriage       |                                +- AutonomyLoop, Monitors, Dashboard
   |            |  (a decision)    +---------- Bridge ---------> QuorumLock
   +--- TokenStore + UnlockProtocol ----------/       (implements)
   |          ^
   |          +---------------- UnlockService  (protocol as a library)
   +--- GuardedStore                           (stores under the lock)

AgentController ---------> TaskPool            (worker pool; implements)
FirewallBlocker                                (blocks over netsh)
Quarantine                                     (files over a disk)
GraniteClient                                  (inference requests)
AuditChain, ActiveResponse                     (sequential; proved, in no run)
ZeroTrust <--- ActionDispatcher                (decisions; proved, in no run)
```

An arrow points at the module that is extended. `WormLock`, `ThreatLevel`, `RuleEngine`,
`TokenStore`, `UnlockProtocol`, `ChaosDetector`, `AutonomyLoop`, `Monitors` and `Dashboard` hold the
state and operations of one component each and no `Next`; `AiTriage`, `ZeroTrust` and
`ActionDispatcher` are operators without state; the others are complete specifications.

**WormLock** — `worm` is `state_`. `TriggerLockdown` and `Unlock` are the two
methods, each a no-op when the lock is already there.

**ThreatLevel** — `tier` is `current_tier_`. `ObserveSignal(s)` clamps the
score, finds its band and compares with the current tier: up at once, down only
below the lower threshold minus the hysteresis margin. `DoTransition` engages
the lock when it enters CRITICAL, in the same step, because the code does it
under the same mutex.

**TokenStore** — `tokens` is `tokens_`, one slot per token. The clock is the
event `Expire`: the code compares `expires_at` when asked, so a token is dead
from some moment on.

**UnlockProtocol** — `prot`, `registered`, `votes`, `challenges` are the
members of the same name. A challenge is a nonce, a signed request a record of
the signing key and the nonce; verification is "signed by this approver's key,
over this approver's pending challenge". `CastVote` is the whole handler with
all its refusals.

**UnlockService** — the protocol under arbitrary callers. Any nonce ever issued
may be signed by any key and delivered at any time, again, late, or under
another name; tokens are granted, revoked and expire; lockdowns and sessions
are opened in any order. `issued`, `sessionNonces` and `spent` are history
variables for the properties.

**RuleEngine** — a thread's position in a rule is `pc[t]`, one step per
critical section. RULE-04 (`apply_rule04_belt`) is the steps `belt`,
`belt_worm`, `belt_fire`.

**RuleService** — all five rules available to all threads, beside an owner who
lifts the lock at any moment. The bridge wires only some of the rules; this
module says what the class itself guarantees.

**ChaosDetector** — the class has no mutex and the packet sensor, stdin and the
demo thread push, so the sample vector is modelled as the memory it is: `slots` with the samples
in it and `size`, its end. `push_back` reads the end (`Push`), then fills the slot after it and writes
an end back (`Appends`), one more than it read or than it reads now; `clear` moves the end and leaves the slots. So another feeder's
append may be lost, its `clear` undone, or slots taken in that were dropped or never written. The
comparison with the window size and `flush_window` use the end as read before or as it is, since the compiler may keep it
in a register. The statistic K is left open: a window of fewer
samples than the code scores is not high, any other may be. `times`, `torn` and `twice` are history
variables: who reported what, and whether one of the two races that make a sample count twice took
place.

**AutonomyLoop** — the ring is trimmed at each push; a tick of the loop is its steps
`respond`, `drain`, `submit`, `rotate`, `sleep`, since pushes come between them. A task is
an agent and a priority; an agent that is not loaded refuses. `handed`, `refused` and
`dropped` are history variables: where each signal went.

**Monitors** — each thread or subscription with its `running_`, the stop events and the
joins. A callback that has passed the test of `running_` is a state of its own. A watcher
whose wait fails ends and is never restarted, as in the code.

**Dashboard** — the writer thread, the accept thread and the detached threads of the
connections. A file is a sequence of blocks, each written where its writer stands
(`Put`), because two threads that save `config.json` each truncate it and go on at their
own positions. A command (and likewise the Npcap helper) is a state a connection may stay in for ever: its output
is read until it ends or reaches 20 KB before the five seconds begin. Requests that change nothing are one
action, `Answers`. A write or the close may fail (`SaveFails`), which the code does not look at: it stops the
writing and the connection is answered as if nothing had happened. `burst`, `crossed` and `short` are history
variables: the configurations saved since nobody was saving, whether any of them was begun while another was under way,
and whether one of their writes failed.

**Protection** — the process started with `--protect` or `--dashboard`. Its behaviours are in four
parts, chosen at the start: *rules* (any thread calls any rule, `RuleService`), *windows*
(samples through the detector into RULE-05), *agents* (`main` starts monitors and loop in the
code's order, their threads report, `main` stops and joins them), *dashboard* (the same `main`
with writer, server and connections). They are checked
one at a time because what couples them flows one way: the callbacks feed the rules
and the ring and read neither, `RuleService` already takes windows of any verdict at any time,
and the dashboard copies what the others keep and changes none of it.
Checked at once, they would multiply states without adding a behaviour of any one of them.

**AiTriage, ZeroTrust, ActionDispatcher** — decisions as functions of their
input, with one operator per early return of the code. **AuditChain** and
**ActiveResponse** hold one mutex from the start to the end of each operation, so an
operation is a step. None of the five has interleavings to explore; what matters
about them holds for every input and is proved in `Responses_proofs`.

**Bridge** — the composition. `Stdin` executes commands in order, one call per
step; the other threads of `Threads` are sensors and demos and each runs the
handlers of all the sensors (more than the real ones do: a sensor thread has
one). Start-up is the initial state: entries populated, tokens granted for 24
hours, approvers registered. `push_chaos_batch` is a sequence of `CmdPushChaos`.

**QuorumLock** — the abstract promise of the lockdown: anybody engages it,
ballots belong to one engagement, only the ballot completing a quorum lifts it.
`Bridge` implements it under `locked <- Locked`, `ballots <- votes` while a
session collects and the empty set otherwise.

**GuardedStore** — a write is two steps: `Admit` (the lock is asked, without the
mutex) and `Commit` or `AppendsVersion` (under the store's mutex). `entry` holds
for each path the number of writes it had and its own lock. `plant` is a
sequence of such writes by a thread that holds the decoy's mutex.

**AgentController** — `worker_loop` with `cv_.wait(lock, pred)` taken apart:
acquire, evaluate the predicate, sleep, wake and acquire again. `stop()` is
three steps, none under the mutex, as in the code. The code never gives a task's id twice; the model gives
an id again when its task is reported, so that tasks come without end and only those `outstanding`
at one time are bounded. The model keeps one controlling
thread (the bridge's `main`) for `start` and `stop`; any thread submits.

**TaskPool** — the abstract promise of the pool: every task is begun once and ended
once, nothing is begun while something more urgent waits, and at most as many tasks are
under way as there are workers. An id tells apart the tasks that have not ended. `AgentController` implements it (`KeepsPoolPromise`).

**FirewallBlocker** — a call is a sequence of steps that holds `mutex_`: one per
netsh process, because each is an event of its own for the host. The firewall is
external: `rules` is what the host enforces, `overdue` the netsh processes that
`run_netsh` stopped waiting for after 30 seconds and that may still take effect.
A netsh call succeeds, fails without effect, reports failure of a deletion, or becomes
overdue. The address is a model value, a rule name a number never used twice (the
code puts the millisecond in the name). Time is the event `Expires`, and the loop
reads the clock in a step before it gets the mutex, as in the code. `Restarts` ends the
process at any point and starts it again over the same rules. `excused` is a history
variable: the rules netsh answered wrongly about, and those a killed process left.

**Quarantine** — a file is the number of its content; `disk` and `bin` say where it
lies. `quarantine_file` runs without the mutex up to the record, `restore` with it from
end to end; each file operation is a step, which may fail. The disk belongs to
everybody: `Appears` puts a new file at a path whose file was taken. Two threads in the
unguarded id generator may draw the same id (`raced`, `shared`). `collateral` is a history
variable: files that stood where another was put. `Restarts` as above: the disk stays, the records do not.

**GraniteClient** — a request is `Generate`, `ServerAnswers`, `Judge` (and `Settle` on
the thread of `generateAsync`); the server is external and answers in the ways of
`Answers`. `generate` has exceptions of its own (`GenerateThrows`: a prompt that is no UTF-8, an audit
entry that throws), after which no counter comes down, and `std::async` may throw after
`inflight_async_` was raised (`GetsNoThread`). The keep-alive thread reads a counter (`KeepAliveTier`) and
pings some time later (`dial`, then `ping`), after the request is built, the name resolved and the connection made: a
call that begins in between meets the ping. A string is a sequence of words with `NUL` one of them, because what the
sentinels become when they are passed as `const char*` decides what `generate` returns:
`CString` cuts at the first `NUL`, `Occurs` finds the empty needle everywhere. With
that, `Verdict` takes its first or its second case for every answer, and the counter of the
model is never lowered: what a reader of the code would not expect is here derived, not assumed. `used` is a history
variable: the counters that were ever raised.

Operators named as faulty in their comments (`AcceptKeepsChallenge`,
`TakeLeastUrgent`, ...) are never part of a specification: each is a plausible
bug used to confirm that a property would notice it (the table `mutants` of
`PROJECT.json`).

## 3. The runs

`MC_*.tla` instantiates a specification, the `.cfg` of the run gives the
constants. Passing runs:

| Run | Shows | Bounds, and why they suffice |
|---|---|---|
| `rules` (part *rules*) | `CriticalOpenOnlyIfLifted`: whichever rules race, nobody is at CRITICAL with the lock open unless somebody lifted it | 2 threads, the number of parties in the belt's race; scores 10, 45, 60, 90, one per band, 45 inside HIGH's de-escalation margin; failures 4, 5, 9, 10, both sides of both thresholds |
| `rules` (part *windows*) | `SustainedOnDistinctSamples`: a sample counts in one window unless an append brings back what a clear dropped (`torn`) or two windows are computed from one buffer (`twice`); lost appends and buffers found empty never count one twice | 2 feeders, windows of 2 samples, 4 pushes: two full windows, one reported by both, or one whose clear is undone and that the same feeder reports again |
| `rules` (part *agents*) | `SignalsOnceInOrder`, `RotationIsFair`, `NobodyRunsAtTheEnd`, `ShutdownEnds` | 3 signals into a ring of 2 drained 2 at a time, so the ring overflows and a batch leaves some behind; a rotation of 2 agents of which one is not loaded; 1 watched directory, whose callback may never return, 1 event channel; the level reported is CRITICAL |
| `rules` (part *dashboard*) | `ConfigIsFromTheLastBurst`: the file holds blocks of the saves that crossed last and of no earlier one; a save that crossed none leaves what was posted, or its beginning when a write failed; `NobodyRunsAtTheEnd` and `ShutdownEnds` here too | 2 connections, so two save at once or one waits for a command during the shutdown; configurations of 1 and 2 blocks, so the shorter is saved over the longer; any write may fail; a `config.json` of an earlier run or none |
| `unlock` | `VoteIsFresh`, `LiftOnlyByQuorum`, `PendingIsFresh` | 2 approvers, threshold 2, 4 nonces: two full sessions, so a request of the first can be replayed in the second; a scope that is not the vote's |
| `bridge` | `CriticalOpenOnlyByQuorum`, `SessionMeansLocked`, `SessionSealsStore`, `OrphanedIsForever`, `LiftsByQuorumOnly` | stdin and one sensor thread, 2 of 2 approvers, the four scores, 3 nonces (both votes and one to draw after) |
| `guarded_store` | `LateWritesBounded`, `SealedStaysAsIs`, `PoisonedIsPlanted`, `LockdownSettles` | 2 writers, one populated path and one new, decoys on both, one version record, 3 calls: one writer plants while the other writes twice |
| `firewall` | `RecordedIsInForce`, `OrphansAreExcused`, `ExpiredIsForgotten` | 2 callers, 2 addresses, 2 blocks: both at once, or one address blocked again after its first block went; any netsh call fails or is late |
| `quarantine` | `RecordHasFile`, `FilesSurvive` | 2 callers, 1 path on each side of the volume boundary, 2 ids, which may collide, 3 files, so that a path is filled again; callers symmetric (safety only) |
| `granite` | `CallsAreCounted`, `UsedIsPingedNoMore`, `KeepAliveStops` | 2 callers, so both names of the accuracy model are in use at once; 3 calls; no answer, half of one and a good one, each of which may end by an exception where the code allows it; the others are told apart in `granite_answer` |
| `agents` | `EachTaskOnce`, `RunningMeansBusy`, `StoppedMeansIdle`, `KeepsPoolPromise`, `TaskServed` | 2 workers and 2 agents, so the same agent may run twice at once; 2 priorities; 3 tasks outstanding at a time, one more than there are workers; tasks, starts and stops without end |

Violation runs, each for one finding of section 6: `rule05`, `bridge_session`,
`agents_stop` (1 task at a time is enough), `granite_answer` (one call, all answers).

Every run but `rules` checks for deadlock. There `CHECK_DEADLOCK FALSE` is right: `main` of
`Protection` returns at the end.

Bounds in guards: `MaxPushes` (ChaosDetector), `MaxSignals` (AutonomyLoop), `MaxCalls`
(GuardedStore), `MaxTasks` (AgentController, tasks outstanding at one time),
`MaxBlocks` (FirewallBlocker), `MaxFiles`, `MaxIds` (Quarantine), `MaxCalls` (GraniteClient), and the finite set `Nonces`. `RingSize`, `BatchSize`,
`WindowSize` and `MinSamples` are constants of the code
(100, 20, 16, 10), small in the run. `chaosHigh` is kept at its threshold, which
is all the code distinguishes.

Fairness:

- `GuardedStore`: weak fairness of `WriterStep(w)`, each writer. A thread
  between the check and the commit, or in the loop of `plant`, is scheduled
  again. Nobody must call, lock or lift.
- `AgentController`: strong fairness of `WorkerStep(w)`, because a step may
  need a mutex that others take and release: a worker is granted a mutex that
  is free again and again. Weak fairness of `OwnerStep`: a `stop()` that began
  goes on. Spurious wake-ups may happen and need not. Tasks may come without end, so nothing says
  that each is served: the heap is ordered by priority alone, nothing ages, and it keeps no order among equals. `TaskServed`
  says that a task that stays outstanding in a running pool is overtaken again and again (`Overtaken`); without
  that excuse it is violated.
- `FirewallBlocker`: weak fairness of each caller inside a call and of the destructor
  once it began; strong fairness of the expiry thread, which waits for a mutex that
  callers take and release. No caller must call, no late netsh must end, nobody must stop.
- `GraniteClient`: weak fairness of the keep-alive thread, whose calls all have a
  timeout (the resolution of the server's name is taken to end; it has a limit of the system's), and of the join of a stop that began. Nothing is assumed of requests: they need not end.
- `Protection`: weak fairness of `main` in its start-up and its shutdown, of the loop
  thread, of each watcher outside its callback, of the capture thread once it is told to stop, of the dashboard's writer, and of
  its accept thread at the loop's head and on a closed socket. Nothing is
  assumed of connections, of the commands, of files that change, or of the event log service, nor of a
  watcher inside its callback, which scans through clamd and receives the answer without a timeout (`clamd_scanner.cpp:134`):
  `ShutdownEnds` has the premise `ScansEnd`, that no watcher stays in its callback for ever.
- The others, `Quarantine` included, are safety only and state none.

## 4. The proofs

The modules `*_proofs` hold theorems that TLAPS checks, for every value of the
constants that satisfies the named assumptions: any finite or infinite set of
threads and scores (integers), any approvers, threshold, nonces, writers
(finite), paths, decoys, feeders, watched directories, channels and connections, any sizes of
windows, ring and batches, any rotation of at least one agent, and configurations of any number of
blocks but none (`ConfigsAreTexts`: an accepted body is a JSON object).

| Module | Theorem | Argument |
|---|---|---|
| `ThreatLevel_proofs` | `ObserveIsThreatMove` and its lemmas | every way to move the tier is a `ThreatMove`: the tier stays one of four, the lock is never lifted, and is engaged on entering CRITICAL. By cases on the bands. All later proofs use this fact and never look into the scoring |
| `Protection_proofs` | `RuleTypeCorrect`, `CriticalIsLocked` | the rules by themselves (`RuleServiceSpec`): inductive as it stands, given `ThreatMove` |
| | `InvariantHolds`, `TypeCorrect`, `ProcessIsLocked`, `SustainedIsDistinct`, `SignalsAreKept`, `NobodyIsLeft`, `ConfigIsOfLastBurst` | `IInv` is one invariant per component, described below, and `MainInv`. Each action has a lemma of its own, and a step of one part leaves the other components as they are |
| `UnlockService_proofs` | `TypeCorrect`, `ChallengesAreFresh`, `CountedVotesAreFresh`, `QuorumLifts` | `IInv == ServiceTypeOK /\ PendingIsFresh`. Freshness of the counted vote is a property of a step; it follows from what every *pending* challenge satisfies, and that is only inductive together with `begin_session` clearing them and `cast_vote` erasing the one it consumed |
| `Bridge_proofs` | `InvariantHolds`, `TypeCorrect`, `SessionsAreLocked`, `CriticalIsLocked`, `SessionsSealTheStore`, `OrphansStay`, `BridgeImplementsPromise` | the three safety invariants plus `AllRegistered` (so `get_challenge` never fails), `OpeningMeansLocked` (between the calls of `worm_trigger` the lock is still engaged: only a session lifts it, and none is open yet) and `SealedBeforeSession`. The refinement splits each step: quiet ones engage the lock or stutter, the session's are matched one by one with `Ballot` and `Lift` |
| `GuardedStore_proofs` | `TypeCorrect`, `LateWritesAreBounded`, `BaitExists`, `SealedEntriesStay` | each late commit takes one thread out of `InFlight` and nobody enters it under the lock, so `late + Cardinality(InFlight)` never grows (the finite-set theorems of the library). `PlantInBounds` adds that a planter's pending write is to one of the decoys |
| `Agents_proofs` | `InvariantHolds`, `TypeCorrect`, `RunningIsBusy`, `StoppedIsIdle`, `TasksAreRunOnce`, `PoolImplementsPromise` | `IInv` says for each program counter of a worker who holds the mutex, which task is in hand and what its agent's status is; ids in the queue and in hand are disjoint and together the outstanding ones. The refinement maps a submission to `Enqueue`, a pop to `Begin`, a report to `End`, and every other step to a stutter |
| | `ClientTypeCorrect`, `RequestsAreCounted`, `UsedIsNotPinged`, `NoAnswerIsUsed` | `GraniteInv`: for each model the requests under way are at most its counter, which is what `generate` counts *before* it calls, the asynchronous calls under way at most `inflight_async_`, and the counter of a model once used is above zero: a call raises it, and by `NoAnswerIsUsed` none of its ends lowers it. `NoAnswerIsUsed` needs no state: as a C string each sentinel is empty, and an empty string occurs in every answer |
| `Quarantine_proofs` | `InvariantHolds`, `TypeCorrect`, `RecordsHaveFiles`, `NoFileIsLost` | `IInv` says for each program counter of a call where its file lies. That no file is lost is a counting argument on top: of each file that is not collateral there are more copies than deletions pending (`SInv == IInv /\ Numbered /\ Spare`), and a deletion takes one of each |
| `Responses_proofs` | `LinksHold`, `VerificationIsExact`, `FirstEditIsReported`, `NumberingHolds`, `ResponsesOnlyDegrade`, `LogIsComplete` | invariants of `AuditSpec` and `ResponseSpec`. `Valid` implies by the chain of hashes that no entry was edited, given that SHA-256 is injective and that the fields an entry's hash covers, which the code runs together without separators, are one text |
| | `AccessNeedsAKnownUser`, `OtherZonesAreDenied`, `FullAdmissionIsEarned`, `ShownStepsAgree`, `ModelsNeverLower`, `SuggestionsOvershoot`, `ReportedTierIsTheMachines`, `OneKindAtMost`, `ReportedKindWasTried`, `TargetIsFirst`, `AssessmentsAreDenied` | the decisions, for every input, by cases on their early returns |
| | `BlockerInvariantHolds`, `BlockerTypeCorrect`, `RecordedIsBlocked`, `OnlyExcusedOrphans` | `FirewallInv` strengthens the two properties to states in which the mutex is held: a record has a rule *unless its removal is under way* (`Enforced`), a rule is accounted for by a record *or by the block being added* (`Accounted`). It needs that a stem names one block only (`StemsDiffer`), so that a netsh process nobody waits for, which may still delete, can only hit a rule that is excused or being removed (`OverdueIsHarmless`), and that the destructor runs when no caller is inside (`ClosesAlone`) |

The invariant of the process, `IInv`, and why each of its parts is needed (TLC checks them on the
bounds of run `rules` too):

- *The detector* (`ChaosInv`), in three layers. Whatever races take place, a sample is in the hands of at most one
  feeder that has still to append it (`AppendedOnce`). As long as no append tore the buffer, what is in it was
  appended, a window computed and not yet reported is new to its feeder, and a reported sample is there only until
  the feeder that reported it clears it (`BufferIsSound`): the same feeder reports it once. As long as, besides, no window was computed
  before the last was cleared, one feeder has a window and what it reports nobody has reported (`OneWindow`).
- *RULE-05* (`HighWindowsAreCovered`). The count of high windows times `MinSamples` is at most the
  *number of samples reported*: the members of a new window are new, and have as many
  numbers as there are members. `SustainedOnDistinctSamples`, which compares with the samples pushed, is not
  inductive: it does not say that two windows have no sample in common.
- *The loop* (`AutonomyInv`). The property counts the places of each number; the invariant says that the
  numbers in the ring and out of it are `1 .. signals` and that the places are disjoint. That the ring is ordered
  and newer than all that left it keeps the two apart. That a batch goes where its most severe signal asks for
  needs that a finite set of signals has one, which is derived from the
  well-foundedness of strict inclusion (`SomeIsMostSevere`).
- *The dashboard* (`DashboardInv`). Each block of the file is a zero or the block of that place in a configuration of the burst, and
  who is saving saves one of the burst. While a configuration is saved and crosses no other, the
  file is the part of it written so far; a block written at the end of a part makes the next (`PutIsNext`), and a failed write
  leaves the part it is.
- *main* (`MainInv`). For each thread, subscription and flag the stages of `main` in which it may be there;
  a join's guard is what takes the thread away, and nothing creates it again afterwards.

Only model-checked are the liveness properties (`TaskServed`, `LockdownSettles`,
`ExpiredIsForgotten`, `KeepAliveStops`, `RotationIsFair`, `ShutdownEnds`), which are out of
the prover's reach: proofs about fairness need `ENABLED`. Every invariant and every action property
that a passing run checks is stated by a theorem.

## 5. What the models leave out

- Degraded starts: `main` goes on without a component that failed to initialise.
- Data: contents of files, hashes, texts, audit entries, JSON. No property depends
  on them; a write is its count, a signature who signed what.
- `ECDSA` itself and the randomness of challenges: forging is impossible and a
  challenge is never drawn twice.
- `unlock_backups` and `unlock_entry` have no caller in the bridge: after a
  granted quorum the entries stay sealed and the backups immutable. `GuardedStore` still has
  `UnlockEntry`, an operation of the class.
- `touch` and `redirect` of the decoys append to a log nothing decides on.
- The version store, RULE-01 and RULE-03 are not wired in the bridge; they are
  modelled as the classes they are (`GuardedStore`, `RuleService`).
- `AgentController`: loading personas before `start`, the memory estimate, what a
  task computes: `Report` takes either outcome, though section 6 shows that today's client
  has one only. A completion callback may submit: in the model submitting is
  possible at any time by anybody.
- `FirewallBlocker`: how the allow-list is gathered and the command line quoted; an
  address on the list is refused before anything changes.
- `Quarantine`: the hash, which nothing compares, and the text of the sidecar, which nothing reads.
- `ChaosDetector`: K and the Lyapunov exponent; which window is anomalous is free. The mark `any_synthetic_` and the number of a
  window, which are only printed. The vector has room for a window from the start (`reserve`), so it grows only after a race has
  taken it beyond that; a reallocation raced on may end the process, and with it the behaviour.
- An exception that leaves a worker of the pool or a connection's thread ends the process (section 6): the end of the process
  is the end of a behaviour.
- `Monitors`: which file or event it is, the extension filter, packets and their entropy.
- `Dashboard`: what the provider gathers, parsing, the token and the origin (a refused request is one
  that changes nothing), the Npcap helper's result file, and the exception of section 6. The callback for a
  saved configuration is not given by the bridge. A reader that finds a file half written is
  answered with what is there and changes nothing.
- `AuditChain`: the pointer into the vector that `get_entry` returns, used after releasing the mutex. No property of
  order can be stated about a dangling reference; it is a hazard without a property.
- `AiTriage`, `ZeroTrust`, `ActionDispatcher`: parsing of what a model answered, and texts.
  The bridge calls the first two from its commands. It installs no dispatcher, so
  `dispatch` is modelled as the class it is.
- The process ends and restarts only where something outlives it, in `FirewallBlocker`
  and `Quarantine`. The lock, the tier, the session and the pool live in memory only:
  their restart is their initial state.

Not modelled at all: the event bus, which no file of the repository includes; the
self-healing pipeline, which runs build tools one after the other; the ClamAV client, configuration
and persona loading, the dashboard's front end, the attribution report,
and the Npcap helper, which are sockets, files, parsing and formatting and keep no state
between calls that anything decides on. Most of the repository's lines
are not its own: `bridge/nlohmann/json.hpp` alone, a vendored library, is 24,765 of 41,776, so the
share of all lines that the models can reach is well below a half.

`PROJECT.json` lists every component with its status, and every hazard with the
property that covers it or the reason why none does.

## 6. Where code and comments disagree

1. `agents_stop` — `stop()` stores `running_ = false` and notifies without the
   mutex. A worker that has evaluated the predicate and not yet gone to sleep
   misses the notification, sleeps, and `join` waits for ever.
2. `granite_answer` — `generate` looks for `"\x00" "TRUNCATED"` with `std::string::find`,
   which takes it for a C string: an empty one, found in every answer. Each answer that
   is not empty is reported as truncated, although `test_ollama_recovery.cpp` expects a
   live server's answer to succeed, and no request is ever taken out of the in-flight
   counters, so the keep-alive skips a model for ever after its first use (`UsedIsPingedNoMore`, which passes). `NoAnswerIsUsed`
   proves it of every answer there can be.
3. `bridge_session` — a comment in `worm_trigger` says a voting session is opened
   whenever a lockdown is engaged. A lockdown engaged by a sensor or a rule opens none, and
   `OrphanedIsForever` (passing, and proved) shows that no command leads out of it.
4. `rule05` — RULE-05 is documented as an escalation to MEDIUM; it forces MEDIUM
   from any tier, so it also lowers HIGH and CRITICAL.

More that a reader of the comments may not expect. Where a property or a theorem is named, the models contain it
and the property allows for it; the rest was met while reading:

- `agent_controller.h:169` says `stop()` drains the queue. It does not: a worker reads `running_` at the head of
  its loop (`agent_controller.cpp:286`) and leaves with tasks still queued, which run when the pool is started again. `StoppedMeansIdle`
  says what does hold after `stop()`, and says nothing of the queue; `EachTaskOnce` shows that nothing of it is lost.
- `agent_controller.h:72`, `agent_controller.cpp:292`: the queue is ordered by priority alone. Under a flow of HIGH tasks a LOW one is
  never begun; `TaskServed` allows for it.
- `bridge/astartis_bridge.cpp:1930` says the monitors are shut down cleanly, and `clamd_scanner.h:31` counts a timeout among the errors of a scan. The
  answer of clamd is received without one, so a clamd that hangs keeps a watcher in its callback and
  `FsMonitor::stop` (`fs_monitor.cpp:136`) in its join. `ShutdownEnds` is stated of scans that end.
- `granite_client.cpp:140`, `284`, `301`, `308`: when `generate` throws, its own counter stays raised and so does `inflight_async_`, which
  `generateAsync` lowers only after a return (line 364); it stays raised as well when no thread can be made (line 360). So the
  destructor's warning counts calls that ended long ago. `GraniteTypeOK` says what holds: no call in progress is missing.
- `granite_client.cpp:386` and `392`: the keep-alive reads the counter and pings later, so a ping decided before may meet a request
  begun since, although the comment of line 376 speaks of a skip of models in use.
- `action_dispatcher.cpp:46` says loopback is never blocked. `is_safe_ip` excepts the text `127.0.0.1` only, so `127.0.0.2` is a target, and
  compares prefixes of the text, so `010.1.2.3` is one too. `TargetIsFirst` says which address is taken, with the exceptions as they are.
- `worm_lock.h:17` says all write attempts are rejected when LOCKED. A write that asked
  the lock before it engaged commits after. What does hold is `LateWritesBounded`, and
  `SealedStaysAsIs` for the entries that were locked one by one.
- `quarantine.cpp:15` says the sidecar is read by the program. Nothing reads it: after a
  restart `restore` knows none of the files in the directory. `FilesSurvive` shows that
  they are still there.
- `fs_monitor.cpp:178`: a watcher whose wait fails returns. Nobody notices and nobody
  starts it again; `ShutdownEnds` holds nevertheless, since its join returns at once.
- A comment in the bridge (line 1909) says the loop's tick checks the threat level. Nothing
  calls `notify_threat_level`, so `current_threat_level_` stays LOW and `tick_threat_response`
  never submits anything. The model allows the call.
- `ai_triage.cpp:262`, theorem `SuggestionsOvershoot`: the score given for a suggested MEDIUM is
  50, which the machine reads as HIGH, and the one for HIGH is 76, which it reads as CRITICAL
  and locks.
- `zerotrust_engine.cpp`, theorem `OtherZonesAreDenied`: `evaluate` asks about the role "staff"
  whoever the user is, so an administrator is denied the management zone as well. `is_known_device` is
  consulted by nothing, and the prefix "10.0.300." of the quarantine zone is no IPv4 prefix.
- `action_dispatcher.cpp`, theorem `AssessmentsAreDenied`: an agent's zero-trust assessment asks
  about an unknown user from an unknown zone, so it is denied unless its action is anomalous.
- `threat_level.h:73` speaks of "one full tier-band" of hysteresis; the margin is 10 points.
- `rule05_firewall_candidate` (bridge, lines 1113-1121) is sent when RULE-05 has triggered the lock,
  which it never does.
- Without elevation the quarantine directory is under `%TEMP%` (bridge, line 1354), which is one of
  the monitor's default roots: a quarantined file is seen as a new one there.
- The demo thread (bridge, lines 563-600) asks `g_running` in the first of its loops only and is
  detached: it may use globals that `main` destroys.
- `dashboard_server.cpp:613`: two connections that save the configuration at once may leave a mixture of
  both, each answered with "Config saved". So is a save of which a write or the close failed (lines 616-617), which
  leaves the beginning of the configuration or nothing. `ConfigIsFromTheLastBurst` says what the file may hold then. Nothing but
  `GET /config` reads the file, since the bridge passes no callback for it.
- `dashboard_server.cpp:588`: a posted value of the wrong type throws on a detached thread
  outside any `try`, which ends the process. So does an exception of `generate` in a worker of the pool, whose
  loop (`agent_controller.cpp:284`) catches none.
- `dashboard_server.cpp:535` limits a command to five seconds. They begin when its output has ended
  or reached 20 KB: a command that keeps its output open and writes little is waited for as long as it likes.
- `event_log_monitor.cpp:99` gives `EvtSubscribe` both a signal event and a callback, of which
  the interface takes one.

## 7. Plan

Done, in this order: the lock and the threat machine; the rules; tokens and the
unlock protocol; the bridge and its promise; the stores; the agent pool and its promise;
the firewall blocker; the quarantine; the inference client; the detector, the monitors, the
autonomy loop and the dashboard with the rules in one process; the sequential decisions and the audit chain.

What is left:

1. The autonomy loop in one model with `AgentController`. They meet in `submit_task`, which
   never waits for anything but the queue's mutex, and each is checked with the other's calls free.
2. The event bus, once something includes it, and the dispatcher in front of the blocker and the
   quarantine, once the bridge installs it.
