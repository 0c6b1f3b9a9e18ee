------------------------- MODULE GuardedStore_proofs -------------------------
(***************************************************************************)
(* Theorems about the guarded stores, for any finite set of writers and    *)
(* any number of paths, records, decoys and calls.  The bound on late      *)
(* writes is inductive with the types; the types need PlantInBounds, which *)
(* ties plant()'s loop index to the write it has pending.                  *)
(***************************************************************************)
EXTENDS GuardedStore, FiniteSetTheorems, TLAPS

PlantInBounds ==
  \A w \in Writers : planter = w /\ call[w] # NoCall =>
    at \in 1 .. Len(DecoyFiles) /\ Writing(w, "sandbox")

IInv ==
  /\ StoreTypeOK
  /\ PlantInBounds
  /\ LateWritesBounded
  /\ PoisonedIsPlanted

-----------------------------------------------------------------------------
(* Only finitely many writes are in flight: at most one per thread. *)
LEMMA InFlightFinite ==
  /\ IsFiniteSet(InFlight)
  /\ Cardinality(InFlight) \in Nat
  /\ Cardinality(Writers) \in Nat
  /\ Cardinality(InFlight) <= Cardinality(Writers)
BY WritersFinite, FS_Subset, FS_CardinalityType DEF InFlight

(* A committed write leaves the set of writes in flight. *)
LEMMA FinishShrinks ==
  ASSUME call \in [Writers -> Calls \cup {NoCall}],
         NEW w \in Writers, call[w] # NoCall, Finish(w)
  PROVE  Cardinality(InFlight') + 1 = Cardinality(InFlight)
<1>1. \A v \in Writers : call'[v] = IF v = w THEN NoCall ELSE call[v]
  BY DEF Finish
<1>2. InFlight' = InFlight \ {w}
  BY <1>1 DEF InFlight
<1>3. w \in InFlight
  BY DEF InFlight
<1>4. Cardinality(InFlight \ {w}) = Cardinality(InFlight) - 1
  BY <1>3, InFlightFinite, FS_RemoveElement
<1>5. Cardinality(InFlight') = Cardinality(InFlight \ {w})
  BY <1>2
<1>6. QED
  BY <1>4, <1>5, InFlightFinite

(* A thread inside a write is not idle. *)
LEMMA WritingIsACall ==
  ASSUME NEW w \in Writers, NEW op \in {"sandbox", "versions"},
         call \in [Writers -> Calls \cup {NoCall}], Writing(w, op)
  PROVE  /\ call[w] # NoCall
         /\ op = "sandbox" => call[w].key \in Paths
         /\ op = "versions" => call[w].key \in Records
BY DEF Writing, NoCall, Calls

(* A step that commits nothing and admits nobody under a lockdown.         *)
LEMMA SameFlightKeepsBound ==
  ASSUME IInv, UNCHANGED <<call, late>>, Locked' => Locked
  PROVE  LateWritesBounded'
BY DEF IInv, LateWritesBounded, InFlight

(* The check at the head of a write admits nobody once the lock is engaged. *)
LEMMA AdmitKeepsBound ==
  ASSUME IInv, NEW w \in Writers, NEW op, NEW key,
         Admit(w, op, key), UNCHANGED <<worm, late>>
  PROVE  LateWritesBounded'
<1>1. CASE Locked
  BY <1>1, SameFlightKeepsBound DEF Admit, Locked
<1>2. CASE ~Locked
  BY <1>2 DEF LateWritesBounded, Locked
<1>3. QED
  BY <1>1, <1>2

(* A commit under the lock spends one of the writes in flight when it      *)
(* engaged.                                                                *)
LEMMA CommitKeepsBound ==
  ASSUME IInv, NEW w \in Writers, call[w] # NoCall, Finish(w),
         UNCHANGED worm, late' = late \/ CountLate
  PROVE  LateWritesBounded'
<1>1. Cardinality(InFlight') + 1 = Cardinality(InFlight)
  BY FinishShrinks DEF IInv, StoreTypeOK
<1>2. Cardinality(InFlight) \in Nat /\ Cardinality(InFlight') \in Nat
  <2>1. IsFiniteSet(InFlight')
    BY WritersFinite, FS_Subset DEF InFlight
  <2>2. QED
    BY <2>1, InFlightFinite, FS_CardinalityType
<1>3. QED
  BY <1>1, <1>2, InFlightFinite
  DEF IInv, LateWritesBounded, CountLate, Locked, StoreTypeOK

-----------------------------------------------------------------------------
(* What the tail of Sandbox::write does to the entries. *)
LEMMA CommitEntries ==
  ASSUME StoreTypeOK, NEW w \in Writers, Commit(w)
  PROVE  /\ call[w] # NoCall /\ call[w].key \in Paths
         /\ entry' \in [Paths -> [version : Nat, locked : BOOLEAN]]
         /\ \A p \in Paths : /\ entry'[p].locked = entry[p].locked
                             /\ entry'[p].version >= entry[p].version
                             /\ entry[p].locked => entry'[p].version = entry[p].version
         /\ ~entry[call[w].key].locked => entry'[call[w].key].version > 0
         /\ late' \in Nat
         /\ call' \in [Writers -> Calls \cup {NoCall}]
         /\ Finish(w)
<1> DEFINE p == call[w].key
<1>1. call[w] # NoCall /\ p \in Paths
  BY WritingIsACall DEF Commit, StoreTypeOK
<1>2. call' \in [Writers -> Calls \cup {NoCall}] /\ Finish(w)
  BY DEF Commit, Finish, StoreTypeOK
<1>3. CASE entry[p].locked
  BY <1>1, <1>2, <1>3 DEF Commit, StoreTypeOK
<1>4. CASE ~entry[p].locked
  <2>1. entry' = [entry EXCEPT ![p].version = @ + 1] /\ CountLate
    BY <1>4 DEF Commit
  <2>2. entry' \in [Paths -> [version : Nat, locked : BOOLEAN]]
    BY <1>1, <2>1 DEF StoreTypeOK
  <2>3. late' \in Nat
    BY <2>1 DEF CountLate, StoreTypeOK
  <2>4. \A q \in Paths : /\ entry'[q].locked = entry[q].locked
                         /\ q # p => entry'[q].version = entry[q].version
    BY <1>1, <2>1 DEF StoreTypeOK
  <2>5. entry'[p].version = entry[p].version + 1 /\ entry[p].version \in Nat
    BY <1>1, <2>1 DEF StoreTypeOK
  <2>6. \A q \in Paths : entry[q].version \in Nat
    BY DEF StoreTypeOK
  <2>7. QED
    BY <1>1, <1>2, <1>4, <2>2, <2>3, <2>4, <2>5, <2>6
<1>5. QED
  BY <1>3, <1>4

-----------------------------------------------------------------------------
(* The initial state: populate() has run and nobody has written. *)
THEOREM InitEstablishes == StoreInit => IInv
<1> SUFFICES ASSUME StoreInit PROVE IInv
  OBVIOUS
<1> USE DEF StoreInit, WormInit
<1>1. entry \in [Paths -> [version : Nat, locked : BOOLEAN]] /\ \A p \in Paths : ~entry[p].locked
  OBVIOUS
<1>2. history \in [Records -> Seq(Writers)]
  OBVIOUS
<1>3. call \in [Writers -> Calls \cup {NoCall}] /\ \A w \in Writers : call[w] = NoCall
  OBVIOUS
<1>4. worm \in WormStates /\ ~Locked
  BY DEF WormStates, Locked
<1>5. at \in 1 .. Len(DecoyFiles) + 1
  BY DecoysInside
<1>6. calls \in 0 .. MaxCalls
  BY CallsBounded
<1>7. StoreTypeOK
  BY <1>1, <1>2, <1>3, <1>4, <1>5, <1>6 DEF StoreTypeOK
<1>8. QED
  BY <1>3, <1>4, <1>7 DEF IInv, PlantInBounds, LateWritesBounded, PoisonedIsPlanted

(* The entry of Sandbox::write and of VersionStore::write. *)
LEMMA CallsWritePreserves ==
  ASSUME IInv, NEW w \in Writers, CallsWrite(w)
  PROVE  IInv'
<1> USE DEF CallsWrite, decoyVars
<1>1. PICK op \in {"sandbox", "versions"}, key \in Paths \cup Records :
        /\ op = "sandbox" => key \in Paths
        /\ op = "versions" => key \in Records
        /\ Admit(w, op, key)
  OBVIOUS
<1>2. call' \in [Writers -> Calls \cup {NoCall}]
      /\ \A v \in Writers : v # w => call'[v] = call[v]
  BY <1>1 DEF Admit, Calls, IInv, StoreTypeOK
<1>3. LateWritesBounded'
  BY <1>1, AdmitKeepsBound
<1>4. calls' \in 0 .. MaxCalls
  BY CallsBounded DEF IInv, StoreTypeOK
<1>5. StoreTypeOK'
  BY <1>2, <1>4 DEF IInv, StoreTypeOK, Exists
<1>6. PlantInBounds'
  BY <1>2 DEF IInv, PlantInBounds, Writing
<1>7. QED
  BY <1>3, <1>5, <1>6 DEF IInv, PoisonedIsPlanted, Exists

(* The tail of Sandbox::write, under the mutex. *)
LEMMA CommitsPreserve ==
  ASSUME IInv, NEW w \in Writers, CommitsWrite(w) \/ PlantCommits(w)
  PROVE  IInv'
<1>1. Commit(w) /\ StoreTypeOK
  BY DEF CommitsWrite, PlantCommits, IInv
<1>k. PICK k \in Paths : k = call[w].key
  BY <1>1, CommitEntries
<1>2. /\ call[w] # NoCall /\ k \in Paths
      /\ entry' \in [Paths -> [version : Nat, locked : BOOLEAN]]
      /\ \A p \in Paths : /\ entry'[p].locked = entry[p].locked
                          /\ entry'[p].version >= entry[p].version
      /\ ~entry[k].locked => entry'[k].version > 0
      /\ late' \in Nat /\ Finish(w)
      /\ call' \in [Writers -> Calls \cup {NoCall}]
  BY <1>1, <1>k, CommitEntries
<1>3. \A p \in Paths : Exists(p) => Exists(p)'
  <2>1. \A p \in Paths : entry[p].version \in Nat /\ entry'[p].version \in Nat
    BY <1>1, <1>2 DEF StoreTypeOK
  <2>2. QED
    BY <1>2, <2>1 DEF Exists
<1>4. LateWritesBounded'
  BY <1>1, <1>2, CommitKeepsBound DEF Commit, CommitsWrite, PlantCommits
<1>5. at' \in 1 .. Len(DecoyFiles) + 1
  <2>1. planter = w => at \in 1 .. Len(DecoyFiles)
    BY <1>2 DEF IInv, PlantInBounds
  <2>2. QED
    BY <1>1, <2>1, DecoysInside DEF StoreTypeOK, CommitsWrite, PlantCommits, decoyVars
<1>6. poisoned' = poisoned \/ (poisoned' = poisoned \cup {k} /\ Exists(k)')
  <2>1. CASE CommitsWrite(w)
    BY <2>1 DEF CommitsWrite, decoyVars
  <2>2. CASE PlantCommits(w)
    BY <1>2, <1>k, <2>2 DEF PlantCommits, Exists
  <2>3. QED
    BY <2>1, <2>2
<1>7. poisoned' \subseteq Paths /\ PoisonedIsPlanted'
  <2>1. poisoned \subseteq Paths /\ \A p \in poisoned : Exists(p)
    BY <1>1 DEF IInv, PoisonedIsPlanted, StoreTypeOK
  <2>2. \A p \in poisoned : Exists(p)'
    BY <1>3, <2>1
  <2>3. QED
    BY <1>2, <1>6, <2>1, <2>2 DEF PoisonedIsPlanted
<1>8. \A p \in Paths : entry'[p].locked => Exists(p)'
  BY <1>1, <1>2, <1>3 DEF StoreTypeOK
<1>9. UNCHANGED <<worm, history, planter, calls>>
  BY DEF CommitsWrite, PlantCommits, decoyVars
<1>10. StoreTypeOK'
  BY <1>1, <1>2, <1>5, <1>7, <1>8, <1>9 DEF StoreTypeOK
<1>11. PlantInBounds'
  <2> SUFFICES ASSUME NEW v \in Writers, planter' = v, call'[v] # NoCall
               PROVE  at' \in 1 .. Len(DecoyFiles) /\ Writing(v, "sandbox")'
    BY DEF PlantInBounds
  <2>1. v # w /\ call'[v] = call[v]
    BY <1>1, <1>2 DEF Finish, StoreTypeOK
  <2>2. at' = at
    BY <1>9, <2>1 DEF CommitsWrite, PlantCommits, decoyVars
  <2>3. QED
    BY <1>9, <2>1, <2>2 DEF IInv, PlantInBounds, Writing
<1>12. QED
  BY <1>4, <1>7, <1>10, <1>11 DEF IInv

(* The tail of VersionStore::write, under its mutex. *)
LEMMA AppendsVersionPreserves ==
  ASSUME IInv, NEW w \in Writers, AppendsVersion(w)
  PROVE  IInv'
<1> USE DEF AppendsVersion, decoyVars
<1>1. call[w] # NoCall /\ call[w].key \in Records
  BY WritingIsACall DEF IInv, StoreTypeOK
<1>2. history' \in [Records -> Seq(Writers)] /\ late' \in Nat
  BY <1>1 DEF IInv, StoreTypeOK, CountLate
<1>3. call' \in [Writers -> Calls \cup {NoCall}]
  BY DEF Finish, IInv, StoreTypeOK
<1>4. LateWritesBounded'
  BY <1>1, CommitKeepsBound
<1>5. StoreTypeOK'
  BY <1>2, <1>3 DEF IInv, StoreTypeOK, Exists
<1>6. PlantInBounds'
  BY DEF IInv, PlantInBounds, Finish, StoreTypeOK, Writing
<1>7. QED
  BY <1>4, <1>5, <1>6 DEF IInv, PoisonedIsPlanted, Exists

(* The loop of DecoyEnvironment::plant, file by file. *)
LEMMA PlantingPreserves ==
  ASSUME IInv, NEW w \in Writers, PlantBegins(w) \/ PlantChecks(w) \/ PlantEnds(w)
  PROVE  IInv'
<1> USE DecoysInside
<1>1. CASE PlantBegins(w)
  <2>1. LateWritesBounded'
    BY <1>1, SameFlightKeepsBound DEF PlantBegins, Locked
  <2>2. calls' \in 0 .. MaxCalls /\ at' \in 1 .. Len(DecoyFiles) + 1
    BY <1>1, CallsBounded DEF PlantBegins, IInv, StoreTypeOK
  <2>3. QED
    BY <1>1, <2>1, <2>2
    DEF PlantBegins, IInv, StoreTypeOK, PlantInBounds, PoisonedIsPlanted, Exists, Writing
<1>2. CASE PlantChecks(w)
  <2> USE <1>2 DEF PlantChecks
  <2>1. DecoyFiles[at] \in Paths /\ at \in 1 .. Len(DecoyFiles)
    BY DEF IInv, StoreTypeOK
  <2>2. LateWritesBounded'
    BY AdmitKeepsBound
  <2>3. CASE Locked
    BY <2>1, <2>2, <2>3
    DEF Admit, IInv, StoreTypeOK, PlantInBounds, PoisonedIsPlanted, Exists, Writing
  <2>4. CASE ~Locked
    <3>1. call' = [call EXCEPT ![w] = [op |-> "sandbox", key |-> DecoyFiles[at]]] /\ at' = at
      BY <2>4 DEF Admit
    <3>2. call' \in [Writers -> Calls \cup {NoCall}]
      BY <2>1, <3>1 DEF IInv, StoreTypeOK, Calls
    <3>3. PlantInBounds'
      BY <2>1, <3>1 DEF IInv, StoreTypeOK, PlantInBounds, Writing
    <3>4. QED
      BY <2>2, <3>1, <3>2, <3>3 DEF IInv, StoreTypeOK, PoisonedIsPlanted, Exists
  <2>5. QED
    BY <2>3, <2>4
<1>3. CASE PlantEnds(w)
  <2>1. LateWritesBounded'
    BY <1>3, SameFlightKeepsBound DEF PlantEnds, Locked
  <2>2. QED
    BY <1>3, <2>1, WritersFinite
    DEF PlantEnds, IInv, StoreTypeOK, PlantInBounds, PoisonedIsPlanted, Exists, Writing
<1>4. QED
  BY <1>1, <1>2, <1>3

(* Setting the lock of an entry that exists touches nothing else. *)
LEMMA LockedFieldOnly ==
  ASSUME StoreTypeOK, NEW p \in Paths, NEW b \in BOOLEAN, Exists(p),
         entry' = [entry EXCEPT ![p].locked = b]
  PROVE  /\ entry' \in [Paths -> [version : Nat, locked : BOOLEAN]]
         /\ \A q \in Paths : entry'[q].version = entry[q].version
         /\ \A q \in Paths : entry'[q].locked => Exists(q)'
<1>1. entry' \in [Paths -> [version : Nat, locked : BOOLEAN]]
  BY DEF StoreTypeOK
<1>2. \A q \in Paths : entry'[q].version = entry[q].version
  BY DEF StoreTypeOK
<1>3. \A q \in Paths : q # p => entry'[q].locked = entry[q].locked
  BY DEF StoreTypeOK
<1>4. QED
  BY <1>1, <1>2, <1>3 DEF StoreTypeOK, Exists

(* lock_entry, unlock_entry and lock_all change locks, never what exists. *)
LEMMA EntryLocksPreserve ==
  ASSUME IInv, LockAll \/ \E p \in Paths : LockEntry(p) \/ UnlockEntry(p)
  PROVE  IInv'
<1> USE DEF entryOnly, decoyVars
<1>1. /\ entry' \in [Paths -> [version : Nat, locked : BOOLEAN]]
      /\ \A p \in Paths : entry'[p].version = entry[p].version
      /\ \A p \in Paths : entry'[p].locked => Exists(p)'
      /\ UNCHANGED entryOnly
  <2>1. CASE LockAll
    BY <2>1 DEF LockAll, IInv, StoreTypeOK, Exists
  <2>2. CASE \E p \in Paths : LockEntry(p)
    <3>1. PICK p \in Paths : LockEntry(p)
      BY <2>2
    <3>2. CASE Exists(p)
      BY <3>1, <3>2, LockedFieldOnly DEF LockEntry, IInv
    <3>3. CASE ~Exists(p)
      BY <3>1, <3>3 DEF LockEntry, IInv, StoreTypeOK, Exists
    <3>4. QED
      BY <3>2, <3>3
  <2>3. CASE \E p \in Paths : UnlockEntry(p)
    <3>1. PICK p \in Paths : UnlockEntry(p)
      BY <2>3
    <3>2. CASE Exists(p)
      BY <3>1, <3>2, LockedFieldOnly DEF UnlockEntry, IInv
    <3>3. CASE ~Exists(p)
      BY <3>1, <3>3 DEF UnlockEntry, IInv, StoreTypeOK, Exists
    <3>4. QED
      BY <3>2, <3>3
  <2>4. QED
    BY <2>1, <2>2, <2>3
<1>2. LateWritesBounded'
  BY <1>1, SameFlightKeepsBound DEF Locked
<1>3. StoreTypeOK'
  BY <1>1 DEF IInv, StoreTypeOK
<1>4. QED
  BY <1>1, <1>2, <1>3 DEF IInv, StoreTypeOK, PlantInBounds, PoisonedIsPlanted, Exists, Writing

(* Engaging the lockdown starts a count of the writes then in flight;      *)
(* lifting it ends the count.                                              *)
LEMMA LockStepsPreserve ==
  ASSUME IInv, EngageLockdown \/ LiftLockdown
  PROVE  IInv'
<1> USE DEF decoyVars, EngageLockdown, LiftLockdown, TriggerLockdown, Unlock
<1>1. StoreTypeOK'
  BY DEF IInv, StoreTypeOK, WormStates, Exists
<1>2. LateWritesBounded'
  <2>1. CASE EngageLockdown /\ ~Locked
    <3>1. late' = 0 /\ InFlight' = InFlight
      BY <2>1 DEF InFlight
    <3>2. QED
      BY <3>1, InFlightFinite DEF LateWritesBounded
  <2>2. CASE (EngageLockdown /\ Locked) \/ LiftLockdown
    BY <2>2, SameFlightKeepsBound DEF Locked
  <2>3. QED
    BY <2>1, <2>2
<1>3. QED
  BY <1>1, <1>2 DEF IInv, PlantInBounds, PoisonedIsPlanted, Exists, Writing

-----------------------------------------------------------------------------
(* Every step of every thread preserves the invariant. *)
THEOREM NextPreserves == IInv /\ [StoreNext]_storeVars => IInv'
<1> SUFFICES ASSUME IInv, [StoreNext]_storeVars PROVE IInv'
  OBVIOUS
<1>1. ASSUME NEW w \in Writers, CallsWrite(w) PROVE IInv'
  BY <1>1, CallsWritePreserves
<1>2. ASSUME NEW w \in Writers, PlantBegins(w) \/ PlantChecks(w) \/ PlantEnds(w) PROVE IInv'
  BY <1>2, PlantingPreserves
<1>3. ASSUME NEW w \in Writers, CommitsWrite(w) \/ PlantCommits(w) PROVE IInv'
  BY <1>3, CommitsPreserve
<1>4. ASSUME NEW w \in Writers, AppendsVersion(w) PROVE IInv'
  BY <1>4, AppendsVersionPreserves
<1>5. CASE LockAll \/ \E p \in Paths : LockEntry(p) \/ UnlockEntry(p)
  BY <1>5, EntryLocksPreserve
<1>6. CASE EngageLockdown \/ LiftLockdown
  BY <1>6, LockStepsPreserve
<1>7. CASE UNCHANGED storeVars
  BY <1>7
  DEF storeVars, IInv, StoreTypeOK, PlantInBounds, LateWritesBounded, PoisonedIsPlanted,
      Exists, Writing, InFlight, Locked
<1>8. QED
  BY <1>1, <1>2, <1>3, <1>4, <1>5, <1>6, <1>7 DEF StoreNext, WriterStep

(* The inductive invariant holds in every reachable state. *)
THEOREM InvariantHolds == StoreSpec => []IInv
BY InitEstablishes, NextPreserves, PTL DEF StoreSpec

(* The stores stay within their types (sandbox.h, version_store.h). *)
THEOREM TypeCorrect == StoreSpec => []StoreTypeOK
<1>1. IInv => StoreTypeOK
  BY DEF IInv
<1>2. QED
  BY <1>1, InvariantHolds, PTL

(* From the engagement of a lockdown on, at most one write per thread      *)
(* commits: those that had passed the check (write, plant).                *)
THEOREM LateWritesAreBounded == StoreSpec => []LateWritesBounded
<1>1. IInv => LateWritesBounded
  BY DEF IInv
<1>2. QED
  BY <1>1, InvariantHolds, PTL

(* Bait that is reported exists (plant). *)
THEOREM BaitExists == StoreSpec => []PoisonedIsPlanted
<1>1. IInv => PoisonedIsPlanted
  BY DEF IInv
<1>2. QED
  BY <1>1, InvariantHolds, PTL

(* No step of any thread changes the content of a locked entry: the lock   *)
(* of the entry is read under the mutex of the commit (Sandbox::write).    *)
THEOREM SealedEntriesStay == StoreSpec => SealedStaysAsIs
<1>1. IInv /\ [StoreNext]_storeVars =>
        \A p \in Paths : entry[p].locked => entry'[p].version = entry[p].version
  <2> SUFFICES ASSUME IInv, [StoreNext]_storeVars, NEW p \in Paths, entry[p].locked
               PROVE  entry'[p].version = entry[p].version
    OBVIOUS
  <2> USE DEF decoyVars, entryOnly
  <2>0. StoreTypeOK
    BY DEF IInv
  <2>1. ASSUME NEW w \in Writers, Commit(w) PROVE entry'[p].version = entry[p].version
    BY <2>0, <2>1, CommitEntries
  <2>2. CASE \E w \in Writers : CommitsWrite(w) \/ PlantCommits(w)
    BY <2>1, <2>2 DEF CommitsWrite, PlantCommits
  <2>3. CASE \E w \in Writers : \/ CallsWrite(w) \/ AppendsVersion(w)
                                \/ PlantBegins(w) \/ PlantChecks(w) \/ PlantEnds(w)
    BY <2>3 DEF CallsWrite, AppendsVersion, PlantBegins, PlantChecks, PlantEnds
  <2>4. CASE LockAll
    BY <2>0, <2>4 DEF LockAll, StoreTypeOK
  <2>5. CASE \E q \in Paths : LockEntry(q) \/ UnlockEntry(q)
    <3>1. PICK q \in Paths : LockEntry(q) \/ UnlockEntry(q)
      BY <2>5
    <3>2. CASE Exists(q)
      BY <2>0, <3>1, <3>2, LockedFieldOnly DEF LockEntry, UnlockEntry
    <3>3. CASE ~Exists(q)
      BY <3>1, <3>3 DEF LockEntry, UnlockEntry
    <3>4. QED
      BY <3>2, <3>3
  <2>6. CASE EngageLockdown \/ LiftLockdown \/ UNCHANGED storeVars
    BY <2>6 DEF EngageLockdown, LiftLockdown, storeVars
  <2>7. QED
    BY <2>2, <2>3, <2>4, <2>5, <2>6 DEF StoreNext, WriterStep
<1>2. QED
  BY <1>1, InvariantHolds, PTL DEF StoreSpec, SealedStaysAsIs
=============================================================================
