----------------------------- MODULE GuardedStore -----------------------------
(***************************************************************************)
(* core/sandbox, core/version_store and core/decoy: the stores the WORM    *)
(* lockdown guards.  A write first asks the lock (lock_check_), without    *)
(* the store's mutex, and commits later under it: the lockdown may engage, *)
(* lock_all may seal the entries, and other writes may commit in between.  *)
(* plant() is a run of such writes by one thread that holds the decoy's    *)
(* mutex throughout.  Paths are those inside the sandbox root (a path      *)
(* outside is refused before anything else); data and disk are left out.   *)
(***************************************************************************)
EXTENDS Naturals, FiniteSets, Sequences, SequencesExt, WormLock

CONSTANTS Writers,          \* threads that write
          Paths,            \* sandbox paths
          Populated,        \* the paths populate() creates
          Records,          \* record ids of the version store
          DecoyFiles,       \* kPoisonedFiles, in order
          Nobody,
          MaxCalls          \* bound: calls to write and plant in a behaviour

ASSUME WritersFinite == IsFiniteSet(Writers) /\ Nobody \notin Writers
ASSUME DecoysInside == Populated \subseteq Paths /\ DecoyFiles \in Seq(Paths)
ASSUME CallsBounded == MaxCalls \in Nat

VARIABLES entry,            \* Sandbox::entries_ (version 0: no entry)
          history,          \* VersionStore::store_, the authors in version order
          call,             \* the write each thread was admitted for and has not committed
          planter, at,      \* who holds the decoy's mutex in plant(), and its loop index
          poisoned,         \* DecoyEnvironment::poisoned_
          calls,            \* calls made so far
          late              \* history: commits since the lockdown engaged

storeVars == <<worm, entry, history, call, planter, at, poisoned, calls, late>>
decoyVars == <<planter, at, poisoned>>

NoCall == [op |-> "none", key |-> Nobody]
Calls == [op : {"sandbox"}, key : Paths] \cup [op : {"versions"}, key : Records]
InFlight == {w \in Writers : call[w] # NoCall}
Exists(p) == entry[p].version > 0

StoreInit ==
  /\ WormInit
  /\ entry = [p \in Paths |-> [version |-> IF p \in Populated THEN 1 ELSE 0, locked |-> FALSE]]
  /\ history = [r \in Records |-> <<>>]
  /\ call = [w \in Writers |-> NoCall]
  /\ planter = Nobody /\ at = 1
  /\ poisoned = {}
  /\ calls = 0
  /\ late = 0

-----------------------------------------------------------------------------
(* A faulty head of write() that does not ask the lock. *)
AdmitAlways(w, op, key) ==
  call' = [call EXCEPT ![w] = [op |-> op, key |-> key]]

(* The head of both write functions: refused when locked, otherwise on to  *)
(* the mutex.                                                              *)
Admit(w, op, key) ==
  IF Locked THEN UNCHANGED call ELSE call' = [call EXCEPT ![w] = [op |-> op, key |-> key]]

Finish(w) == call' = [call EXCEPT ![w] = NoCall]
CountLate == late' = IF Locked THEN late + 1 ELSE late
Writing(w, op) == call[w].op = op

(* A thread calls Sandbox::write or VersionStore::write. *)
CallsWrite(w) ==
  /\ call[w] = NoCall /\ planter # w /\ calls < MaxCalls
  /\ \/ \E p \in Paths : Admit(w, "sandbox", p)
     \/ \E r \in Records : Admit(w, "versions", r)
  /\ calls' = calls + 1
  /\ UNCHANGED <<worm, entry, history, decoyVars, late>>

(* Faulty tails of Sandbox::write: the entry's own lock not looked at; a   *)
(* refusal that never returns to its caller.                               *)
CommitUnchecked(w) ==
  /\ Writing(w, "sandbox")
  /\ entry' = [entry EXCEPT ![call[w].key].version = @ + 1]
  /\ CountLate
  /\ Finish(w)

CommitHangs(w) ==
  /\ Writing(w, "sandbox")
  /\ IF entry[call[w].key].locked
     THEN UNCHANGED <<entry, late, call>>
     ELSE /\ entry' = [entry EXCEPT ![call[w].key].version = @ + 1]
          /\ CountLate
          /\ Finish(w)

(* The tail of Sandbox::write, under its mutex: the entry's own lock is    *)
(* read here, the global one is not read again.  A new entry is unlocked.  *)
Commit(w) ==
  /\ Writing(w, "sandbox")
  /\ IF entry[call[w].key].locked
     THEN UNCHANGED <<entry, late>>
     ELSE /\ entry' = [entry EXCEPT ![call[w].key].version = @ + 1]
          /\ CountLate
  /\ Finish(w)

CommitsWrite(w) ==
  /\ planter # w
  /\ Commit(w)
  /\ UNCHANGED <<worm, history, decoyVars, calls>>

(* The tail of VersionStore::write, under its mutex. *)
AppendsVersion(w) ==
  /\ Writing(w, "versions")
  /\ history' = [history EXCEPT ![call[w].key] = Append(@, w)]
  /\ CountLate
  /\ Finish(w)
  /\ UNCHANGED <<worm, entry, decoyVars, calls>>

-----------------------------------------------------------------------------
(* DecoyEnvironment::plant: one write per decoy file, those refused skipped. *)
PlantBegins(w) ==
  /\ call[w] = NoCall /\ planter = Nobody /\ calls < MaxCalls
  /\ planter' = w /\ at' = 1
  /\ calls' = calls + 1
  /\ UNCHANGED <<worm, entry, history, call, poisoned, late>>

(* A faulty plant that records a file it was not allowed to write. *)
PlantChecksAndRecords(w) ==
  /\ planter = w /\ call[w] = NoCall /\ at <= Len(DecoyFiles)
  /\ Admit(w, "sandbox", DecoyFiles[at])
  /\ at' = IF Locked THEN at + 1 ELSE at
  /\ poisoned' = IF Locked THEN poisoned \cup {DecoyFiles[at]} ELSE poisoned
  /\ UNCHANGED <<worm, entry, history, planter, calls, late>>

PlantChecks(w) ==
  /\ planter = w /\ call[w] = NoCall /\ at <= Len(DecoyFiles)
  /\ Admit(w, "sandbox", DecoyFiles[at])
  /\ at' = IF Locked THEN at + 1 ELSE at
  /\ UNCHANGED <<worm, entry, history, planter, poisoned, calls, late>>

PlantCommits(w) ==
  /\ planter = w
  /\ Commit(w)
  /\ poisoned' = IF entry[call[w].key].locked THEN poisoned ELSE poisoned \cup {call[w].key}
  /\ at' = at + 1
  /\ UNCHANGED <<worm, history, planter, calls>>

PlantEnds(w) ==
  /\ planter = w /\ call[w] = NoCall /\ at > Len(DecoyFiles)
  /\ planter' = Nobody
  /\ UNCHANGED <<worm, entry, history, call, at, poisoned, calls, late>>

-----------------------------------------------------------------------------
entryOnly == <<worm, history, call, decoyVars, calls, late>>

(* lock_all: every entry there is at this moment. *)
LockAll ==
  /\ entry' = [p \in Paths |-> IF Exists(p) THEN [entry[p] EXCEPT !.locked = TRUE] ELSE entry[p]]
  /\ UNCHANGED entryOnly

(* A faulty lock_entry that creates the entry it does not find. *)
LockEntryUnknown(p) ==
  /\ entry' = [entry EXCEPT ![p].locked = TRUE]
  /\ UNCHANGED entryOnly

(* lock_entry and unlock_entry: an unknown path is refused. *)
LockEntry(p) ==
  /\ entry' = IF Exists(p) THEN [entry EXCEPT ![p].locked = TRUE] ELSE entry
  /\ UNCHANGED entryOnly

UnlockEntry(p) ==
  /\ entry' = IF Exists(p) THEN [entry EXCEPT ![p].locked = FALSE] ELSE entry
  /\ UNCHANGED entryOnly

(* The owners of the lock, in any thread. *)
EngageLockdown ==
  /\ TriggerLockdown
  /\ late' = IF Locked THEN late ELSE 0
  /\ UNCHANGED <<entry, history, call, decoyVars, calls>>

LiftLockdown ==
  /\ Unlock
  /\ UNCHANGED <<entry, history, call, decoyVars, calls, late>>

WriterStep(w) ==
  \/ CommitsWrite(w)
  \/ AppendsVersion(w)
  \/ PlantChecks(w) \/ PlantCommits(w) \/ PlantEnds(w)

StoreNext ==
  \/ \E w \in Writers : CallsWrite(w) \/ PlantBegins(w) \/ WriterStep(w)
  \/ LockAll \/ \E p \in Paths : LockEntry(p) \/ UnlockEntry(p)
  \/ EngageLockdown \/ LiftLockdown

(* A thread inside write() or plant() is scheduled again; nobody is bound  *)
(* to call, to lock or to lift.                                            *)
StoreSpec ==
  StoreInit /\ [][StoreNext]_storeVars /\ \A w \in Writers : WF_storeVars(WriterStep(w))
-----------------------------------------------------------------------------
(* Types of sandbox.h, version_store.h and decoy.h; an absent entry is not *)
(* locked.                                                                 *)
StoreTypeOK ==
  /\ worm \in WormStates
  /\ entry \in [Paths -> [version : Nat, locked : BOOLEAN]]
  /\ \A p \in Paths : entry[p].locked => Exists(p)
  /\ history \in [Records -> Seq(Writers)]
  /\ call \in [Writers -> Calls \cup {NoCall}]
  /\ planter \in Writers \cup {Nobody} /\ at \in 1 .. Len(DecoyFiles) + 1
  /\ poisoned \subseteq Paths
  /\ calls \in 0 .. MaxCalls
  /\ late \in Nat

(* The lockdown stops writes but for those already past the check: from    *)
(* the moment it engages at most one write per thread commits, however the *)
(* threads interleave (write, plant).                                      *)
LateWritesBounded == Locked => late + Cardinality(InFlight) <= Cardinality(Writers)

(* An entry that is individually locked keeps its content, even against a  *)
(* write admitted before it was locked: what protects the populated        *)
(* entries after lock_all (the second check of Sandbox::write).            *)
SealedStaysAsIs ==
  [][\A p \in Paths : entry[p].locked => entry'[p].version = entry[p].version]_storeVars

(* Every path reported as bait is an entry of the sandbox, although the    *)
(* lock may engage between any two files of plant().                       *)
PoisonedIsPlanted == \A p \in poisoned : Exists(p)

(* A lockdown that stays reaches every writer: in the end nobody is still  *)
(* between the check and the commit, and no plant() is still running.      *)
LockdownSettles == Locked ~> ~Locked \/ (InFlight = {} /\ planter = Nobody)
=============================================================================
