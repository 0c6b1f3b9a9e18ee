--------------------------- MODULE Protection_proofs ---------------------------
(***************************************************************************)
(* Theorems about the process of Protection, for any number of threads,    *)
(* feeders, watched directories, channels and connections.  First the rule *)
(* engine as a library, then each component that only Protection composes, *)
(* with the invariant it keeps whoever calls it, then main, whose stages   *)
(* say which threads there are, and last the process as a whole.           *)
(***************************************************************************)
EXTENDS Protection, ThreatLevel_proofs, FiniteSetTheorems, SequenceTheorems

-----------------------------------------------------------------------------
(* ------------------------------ rule engine ----------------------------- *)

RuleInv == RuleTypeOK /\ CriticalOpenOnlyIfLifted

(* A score a caller may pass is an integer (evaluate_threat_score). *)
LEMMA ScoreIsInt ==
  ASSUME NEW s \in Scores \cup {NoScore}
  PROVE  s \in Int
BY ScoresAreInts DEF NoScore

RuleTypes ==
  /\ pc' \in [Threads -> RulePCs]
  /\ score' \in [Threads -> Scores \cup {NoScore}]
  /\ fired' \in [Threads -> BOOLEAN]
  /\ chaosHigh' \in 0..SustainedWindows

(* Every call into the engine, and every step inside one, moves the tier   *)
(* and the lock together.                                                  *)
LEMMA CallStep ==
  ASSUME RuleTypeOK, NEW t \in Threads, Call(t)
  PROVE  ThreatMove /\ RuleTypes
<1> USE DEF Goto, RuleTypeOK, RuleTypes, RulePCs
<1>1. CASE \E s \in Scores : Observe(t, s)
  BY <1>1, ObserveIsThreatMove, ScoreIsInt DEF Observe
<1>2. CASE \E s \in Scores : EnterEvaluate(t, s)
  BY <1>2 DEF EnterEvaluate, ThreatMove
<1>3. CASE \E s \in Scores, anomalous \in BOOLEAN : EvaluatePacketWindow(t, s, anomalous)
  <2>1. PICK s \in Scores, anomalous \in BOOLEAN : EvaluatePacketWindow(t, s, anomalous)
    BY <1>3
  <2>2. ThreatMove
    BY <2>1, ObserveIsThreatMove, ScoreIsInt DEF EvaluatePacketWindow
  <2>3. QED
    BY <2>1, <2>2 DEF EvaluatePacketWindow
<1>4. CASE \E n \in FailureCounts : EvaluateAuthFailures(t, n)
  <2>1. PICK n \in FailureCounts : EvaluateAuthFailures(t, n)
    BY <1>4
  <2>2. ThreatMove
    BY <2>1, ForceIsThreatMove, TiersAreNamed DEF EvaluateAuthFailures, ThreatMove
  <2>3. QED
    BY <2>1, <2>2 DEF EvaluateAuthFailures
<1>5. CASE ChaosWindow(t)
  <2>1. PICK high \in BOOLEAN : EvaluateChaosWindow(t, high)
    BY <1>5 DEF ChaosWindow
  <2>2. ThreatMove
    BY <2>1, ForceIsThreatMove, TiersAreNamed DEF EvaluateChaosWindow, ThreatMove
  <2>3. chaosHigh' \in 0..SustainedWindows
    BY <2>1 DEF EvaluateChaosWindow, SustainedWindows
  <2>4. QED
    BY <2>1, <2>2, <2>3 DEF EvaluateChaosWindow
<1>6. QED
  BY <1>1, <1>2, <1>3, <1>4, <1>5 DEF Call, RuleCall

(* The steps inside a call: the belt's two reads, its trigger, the         *)
(* evaluation of the score.                                                *)
LEMMA InnerStep ==
  ASSUME RuleTypeOK, NEW t \in Threads, RuleStep(t) \/ Return(t)
  PROVE  ThreatMove /\ RuleTypes
<1> USE DEF Goto, RuleTypeOK, RuleTypes, RulePCs
<1>1. CASE EvaluateScore(t)
  <2>1. ThreatMove
    BY <1>1, ObserveIsThreatMove, ScoreIsInt DEF EvaluateScore
  <2>2. QED
    BY <1>1, <2>1 DEF EvaluateScore
<1>2. CASE ForceCritical(t)
  <2>1. ThreatMove
    BY <1>2, ForceIsThreatMove, TiersAreNamed DEF ForceCritical
  <2>2. QED
    BY <1>2, <2>1 DEF ForceCritical
<1>3. CASE BeltReadsTier(t) \/ BeltReadsLock(t) \/ Return(t)
  BY <1>3 DEF BeltReadsTier, BeltReadsLock, Return, ThreatMove
<1>4. CASE BeltFires(t)
  BY <1>4 DEF BeltFires, TriggerLockdown, ThreatMove
<1>5. QED
  BY <1>1, <1>2, <1>3, <1>4 DEF RuleStep

LEMMA RuleInitially == RuleServiceInit => RuleInv
<1> SUFFICES ASSUME RuleServiceInit PROVE RuleInv
  OBVIOUS
<1> USE DEF RuleServiceInit, WormInit, ThreatInit, RuleInit
<1>1. worm \in WormStates /\ tier \in Tiers /\ tier # CRITICAL
  BY DEF WormStates, Tiers, LOW, CRITICAL
<1>2. /\ pc \in [Threads -> RulePCs]
      /\ score \in [Threads -> Scores \cup {NoScore}]
      /\ fired \in [Threads -> BOOLEAN]
  BY DEF RulePCs
<1>3. chaosHigh \in 0..SustainedWindows
  BY DEF SustainedWindows
<1>4. lifted \in BOOLEAN
  OBVIOUS
<1>5. QED
  BY <1>1, <1>2, <1>3, <1>4 DEF RuleInv, RuleTypeOK, CriticalOpenOnlyIfLifted

LEMMA RuleStepKeeps == RuleInv /\ [RuleServiceNext]_ruleServiceVars => RuleInv'
<1> SUFFICES ASSUME RuleInv, [RuleServiceNext]_ruleServiceVars PROVE RuleInv'
  OBVIOUS
<1> USE DEF RuleInv, RuleTypeOK, CriticalOpenOnlyIfLifted, WormStates, Locked
<1>1. CASE ThreadStep
  <2>1. ThreatMove /\ RuleTypes /\ lifted' = (lifted /\ worm' = "NORMAL" /\ tier' = CRITICAL)
    BY <1>1, CallStep, InnerStep DEF ThreadStep
  <2>2. QED
    BY <2>1 DEF ThreatMove, RuleTypes
<1>2. CASE LiftLock
  BY <1>2 DEF LiftLock, Unlock
<1>3. CASE UNCHANGED ruleServiceVars
  BY <1>3 DEF ruleServiceVars
<1>4. QED
  BY <1>1, <1>2, <1>3 DEF RuleServiceNext

(* A window reported to RULE-05 is one of the calls of the rule engine.    *)
LEMMA ReportedWindowKeeps ==
  ASSUME RuleInv, NEW t \in Threads, NEW high \in BOOLEAN,
         EvaluateChaosWindow(t, high), UNCHANGED lifted
  PROVE  RuleInv'
<1>1. ThreatMove /\ RuleTypes
  BY CallStep DEF Call, ChaosWindow, RuleInv
<1>2. QED
  BY <1>1 DEF ThreatMove, RuleTypes, RuleInv, RuleTypeOK, CriticalOpenOnlyIfLifted, WormStates, Locked

(* The invariant of the rule engine is inductive as it stands. *)
THEOREM RuleInvariantHolds == RuleServiceSpec => []RuleInv
BY RuleInitially, RuleStepKeeps, PTL DEF RuleServiceSpec

(* The engine's types (rule_engine.h). *)
THEOREM RuleTypeCorrect == RuleServiceSpec => []RuleTypeOK
<1>1. RuleInv => RuleTypeOK
  BY DEF RuleInv
<1>2. QED
  BY <1>1, RuleInvariantHolds, PTL

(* Whichever rules race, CRITICAL without its lockdown means that somebody *)
(* lifted the lock since (do_transition).                                  *)
THEOREM CriticalIsLocked == RuleServiceSpec => []CriticalOpenOnlyIfLifted
<1>1. RuleInv => CriticalOpenOnlyIfLifted
  BY DEF RuleInv
<1>2. QED
  BY <1>1, RuleInvariantHolds, PTL

-----------------------------------------------------------------------------
(* ----------------------------- chaos detector --------------------------- *)

(* Each sample has a number of its own, in the hands of one feeder until   *)
(* it has appended it.                                                     *)
AppendedOnce ==
  /\ \A t \in Feeders : detector[t] = "append" => sample[t] \in 1 .. pushed
  /\ \A t, u \in Feeders :
       detector[t] = "append" /\ detector[u] = "append" /\ sample[t] = sample[u] => t = u

(* No feeder has id still to append. *)
Appended(id) == \A u \in Feeders : detector[u] = "append" => sample[u] # id

(* As long as no append tears the buffer, it holds samples that were       *)
(* appended to it, and one that was reported only until the feeder that    *)
(* reported it clears it.                                                  *)
BufferIsSound ==
  /\ Buffer \subseteq 1 .. pushed /\ \A id \in Buffer : Appended(id)
  /\ \A t \in Feeders : detector[t] = "report" =>
       /\ window[t] \subseteq 1 .. pushed
       /\ \A id \in window[t] : times[t][id] = 0 /\ Appended(id)
  /\ \A t \in Feeders, id \in Numbers : times[t][id] # 0 =>
       /\ times[t][id] = 1 /\ id <= pushed /\ Appended(id)
       /\ detector[t] # "clear" => id \notin Buffer

(* As long as windows are computed one at a time besides, one feeder has a *)
(* window, and what it reports nobody has reported.                        *)
OneWindow ==
  /\ \A t, u \in Feeders :
       detector[t] \in {"report", "clear"} /\ detector[u] \in {"report", "clear"} => t = u
  /\ \A t \in Feeders : detector[t] = "report" =>
       \A u \in Feeders, id \in window[t] : times[u][id] = 0
  /\ \A t, u \in Feeders, id \in Numbers : times[t][id] = 1 /\ times[u][id] = 1 => t = u

ChaosInv ==
  /\ ChaosTypeOK
  /\ AppendedOnce
  /\ ~torn => BufferIsSound
  /\ ~torn /\ ~twice => OneWindow

(* The samples that were in a reported window. *)
Reported == {id \in Numbers : \E t \in Feeders : times[t][id] = 1}
HighWindowsAreCovered ==
  part = "windows" /\ ~torn /\ ~twice => chaosHigh * MinSamples <= Cardinality(Reported)


LEMMA ChaosInitially == ChaosInit => ChaosInv
<1> SUFFICES ASSUME ChaosInit PROVE ChaosInv
  OBVIOUS
<1>1. slots \in Seq({Unwritten} \cup Numbers) /\ Len(slots) = 0 /\ Buffer = {}
  BY EmptySeq DEF ChaosInit, Buffer
<1>2. ChaosTypeOK
  <2>1. detector \in [Feeders -> DetectorPCs] /\ pushed \in 0 .. MaxPushes
    BY WindowIsScored DEF ChaosInit, DetectorPCs
  <2>2. times \in [Feeders -> [Numbers -> Nat]]
    BY DEF ChaosInit
  <2>3. size \in 0 .. Len(slots) /\ seen \in [Feeders -> 0 .. Len(slots)]
    <3>1. 0 \in 0 .. Len(slots)
      BY <1>1
    <3>2. QED
      BY <3>1 DEF ChaosInit
  <2>4. /\ sample \in [Feeders -> {Unwritten} \cup Numbers]
        /\ window \in [Feeders -> SUBSET ({Unwritten} \cup Numbers)]
    BY DEF ChaosInit
  <2>5. torn \in BOOLEAN /\ twice \in BOOLEAN
    BY DEF ChaosInit
  <2>6. QED
    BY <1>1, <2>1, <2>2, <2>3, <2>4, <2>5 DEF ChaosTypeOK
<1>3. AppendedOnce /\ BufferIsSound /\ OneWindow
  BY <1>1 DEF ChaosInit, AppendedOnce, BufferIsSound, OneWindow
<1>4. QED
  BY <1>2, <1>3 DEF ChaosInv

(* push: a number nobody has. *)
LEMMA PushKeeps ==
  ASSUME ChaosInv, NEW t \in Feeders, Push(t)
  PROVE  ChaosInv'
<1> USE DEF ChaosInv, ChaosTypeOK, Push, GotoIn, Sees, DetectorPCs
<1>1. /\ Buffer' = Buffer /\ pushed \in Nat /\ MaxPushes \in Nat
      /\ pushed' = pushed + 1 /\ pushed' \in Numbers
  BY WindowIsScored DEF Buffer, Numbers
<1>2. /\ sample'[t] = pushed' /\ detector'[t] = "append"
      /\ \A u \in Feeders \ {t} : sample'[u] = sample[u] /\ detector'[u] = detector[u]
  OBVIOUS
<1>3. ChaosTypeOK'
  <2>1. pushed' \in 0 .. MaxPushes
    BY <1>1 DEF Numbers
  <2>2. seen' \in [Feeders -> 0 .. Len(slots)] /\ sample' \in [Feeders -> {Unwritten} \cup Numbers]
    BY <1>1
  <2>3. QED
    BY <2>1, <2>2
<1>4. AppendedOnce'
  <2>1. \A u \in Feeders \ {t} : detector'[u] = "append" => sample'[u] \in 1 .. pushed
    BY <1>2 DEF AppendedOnce
  <2>2. QED
    BY <1>1, <1>2, <2>1 DEF AppendedOnce
<1>5. \A id \in 1 .. pushed : Appended(id) => Appended(id)'
  BY <1>1, <1>2 DEF Appended
<1>6. 1 .. pushed \subseteq 1 .. pushed'
  BY <1>1
<1>7. ASSUME ~torn' PROVE BufferIsSound'
  <2>1. BufferIsSound /\ UNCHANGED <<window, times>> /\ detector[t] = "idle"
    BY <1>7
  <2>2. Buffer' \subseteq 1 .. pushed' /\ \A id \in Buffer' : Appended(id)'
    BY <1>1, <1>5, <1>6, <2>1 DEF BufferIsSound
  <2>3. \A u \in Feeders : detector'[u] = "report" =>
          /\ window'[u] \subseteq 1 .. pushed'
          /\ \A id \in window'[u] : times'[u][id] = 0 /\ Appended(id)'
    BY <1>2, <1>5, <1>6, <2>1 DEF BufferIsSound
  <2>4. \A u \in Feeders, id \in Numbers : times'[u][id] # 0 =>
          /\ times'[u][id] = 1 /\ id \in 1 .. pushed' /\ Appended(id)'
          /\ detector'[u] # "clear" => id \notin Buffer'
    <3>1. \A u \in Feeders, id \in Numbers : times'[u][id] # 0 =>
            /\ times[u][id] = 1 /\ id \in 1 .. pushed /\ Appended(id)
            /\ detector[u] # "clear" => id \notin Buffer
      BY <1>1, <2>1 DEF BufferIsSound, Numbers
    <3>2. \A u \in Feeders : detector'[u] # "clear" => detector[u] # "clear"
      BY <1>2, <2>1
    <3>3. QED
      BY <1>1, <1>5, <1>6, <2>1, <3>1, <3>2
  <2>5. QED
    BY <1>1, <2>2, <2>3, <2>4 DEF BufferIsSound
<1>8. ASSUME ~torn', ~twice' PROVE OneWindow'
  <2>1. OneWindow /\ UNCHANGED <<window, times>>
    BY <1>8
  <2>2. \A u \in Feeders : detector'[u] \in {"report", "clear"} => detector[u] = detector'[u]
    BY <1>2
  <2>3. QED
    BY <2>1, <2>2 DEF OneWindow
<1>9. QED
  BY <1>3, <1>4, <1>7, <1>8

(* push_back: whatever the end becomes, there are slots up to it.          *)
LEMMA AppendShape ==
  ASSUME ChaosInv, NEW t \in Feeders, Appends(t)
  PROVE  /\ slots' \in Seq({Unwritten} \cup Numbers) /\ Len(slots) \in Nat /\ Len(slots') \in Nat
         /\ Len(slots) <= Len(slots') /\ size' \in 0 .. Len(slots')
<1> USE DEF ChaosInv, ChaosTypeOK, Appends
<1> DEFINE S == {Unwritten} \cup Numbers
           n == Larger(Len(slots), Larger(seen[t] + 1, size'))
           s == [k \in 1 .. n |-> IF k = seen[t] + 1 THEN sample[t]
                                  ELSE IF k <= Len(slots) THEN slots[k] ELSE Unwritten]
<1>1. /\ Len(slots) \in Nat /\ seen[t] \in Nat /\ size' \in Nat
      /\ \A k \in 1 .. Len(slots) : slots[k] \in S
  <2>1. Len(slots) \in Nat /\ \A k \in 1 .. Len(slots) : slots[k] \in S
    BY LenProperties
  <2>2. seen[t] \in Nat /\ size \in Nat
    BY <2>1
  <2>3. QED
    BY <2>1, <2>2
<1>2. n \in Nat /\ n >= Len(slots) /\ n >= size'
  BY <1>1 DEF Larger
<1>3. \A k \in 1 .. n : s[k] \in S
  BY <1>1, <1>2
<1>4. s \in [1 .. n -> S] /\ s \in Seq(S)
  <2> HIDE DEF n, S
  <2>1. s \in [1 .. n -> S]
    BY <1>3
  <2> HIDE DEF s
  <2>2. QED
    BY <1>2, <2>1, SeqDef
<1>5. Len(s) = n
  <2> HIDE DEF n
  <2>1. DOMAIN s = 1 .. n
    OBVIOUS
  <2> HIDE DEF s
  <2>2. DOMAIN s = 1 .. Len(s) /\ Len(s) \in Nat
    BY <1>4, LenProperties
  <2>3. QED
    BY <1>2, <2>1, <2>2
<1>6. slots' = s
  OBVIOUS
<1> HIDE DEF s, n, S
<1>7. slots' \in Seq(S) /\ Len(slots') = n
  BY <1>4, <1>5, <1>6
<1> HIDE DEF ChaosInv, ChaosTypeOK, Appends
<1>8. size' \in 0 .. Len(slots') /\ Len(slots) <= Len(slots') /\ Len(slots') \in Nat
  BY <1>1, <1>2, <1>7
<1>9. QED
  BY <1>1, <1>7, <1>8 DEF S

LEMMA AppendKeeps ==
  ASSUME ChaosInv, NEW t \in Feeders, Appends(t)
  PROVE  ChaosInv'
<1> USE DEF ChaosInv, ChaosTypeOK, GotoIn, Sees, DetectorPCs
<1>1. /\ detector[t] = "append" /\ detector'[t] = "test"
      /\ \A u \in Feeders \ {t} : detector'[u] = detector[u] /\ sample'[u] = sample[u]
      /\ UNCHANGED <<window, pushed, times, twice>>
  BY DEF Appends
<1>2. PICK e \in 1 .. pushed : e = sample[t]
  BY <1>1 DEF AppendedOnce
<1>3. ChaosTypeOK'
  <2>1. torn' \in BOOLEAN
    BY DEF Appends
  <2>2. detector' \in [Feeders -> DetectorPCs] /\ sample' \in [Feeders -> {Unwritten} \cup Numbers]
    BY DEF Appends
  <2>3. seen' \in [Feeders -> 0 .. Len(slots')]
    <3>1. \A u \in Feeders : seen[u] \in 0 .. Len(slots')
      BY AppendShape
    <3>2. seen' = [seen EXCEPT ![t] = size']
      BY DEF Appends
    <3>3. QED
      BY <3>1, <3>2, AppendShape
  <2>4. QED
    BY <1>1, <2>1, <2>2, <2>3, AppendShape
<1>4. /\ \A id : Appended(id) => Appended(id)'
      /\ Appended(e)' /\ ~Appended(e)
  <2>1. \A u \in Feeders : detector'[u] = "append" => u # t /\ detector[u] = "append" /\ sample'[u] = sample[u]
    BY <1>1
  <2>2. \A u \in Feeders : detector'[u] = "append" => sample[u] # e
    BY <1>1, <1>2, <2>1 DEF AppendedOnce
  <2>3. QED
    BY <1>1, <1>2, <2>1, <2>2 DEF Appended
<1>5. AppendedOnce'
  BY <1>1 DEF AppendedOnce
<1>6. ASSUME ~torn' PROVE BufferIsSound'
  <2>1. ~torn /\ Buffer' \subseteq Buffer \cup {e}
    BY <1>2, <1>6 DEF Appends
  <2>2. BufferIsSound
    BY <2>1
  <2> HIDE DEF ChaosInv, ChaosTypeOK
  <2>3. Buffer' \subseteq 1 .. pushed' /\ \A id \in Buffer' : Appended(id)'
    BY <1>1, <1>2, <1>4, <2>1, <2>2 DEF BufferIsSound
  <2>4. \A u \in Feeders : detector'[u] = "report" =>
          /\ window'[u] \subseteq 1 .. pushed'
          /\ \A id \in window'[u] : times'[u][id] = 0 /\ Appended(id)'
    BY <1>1, <1>4, <2>2 DEF BufferIsSound
  <2>5. \A u \in Feeders, id \in Numbers : times'[u][id] # 0 =>
          /\ times'[u][id] = 1 /\ id <= pushed' /\ Appended(id)'
          /\ detector'[u] # "clear" => id \notin Buffer'
    <3>1. \A u \in Feeders, id \in Numbers : times'[u][id] # 0 =>
            /\ times[u][id] = 1 /\ id <= pushed /\ Appended(id) /\ id # e
            /\ detector[u] # "clear" => id \notin Buffer
      BY <1>1, <1>4, <2>2 DEF BufferIsSound
    <3>2. \A u \in Feeders : detector'[u] # "clear" => detector[u] # "clear"
      BY <1>1
    <3>3. QED
      BY <1>1, <1>4, <2>1, <3>1, <3>2
  <2>6. QED
    BY <2>3, <2>4, <2>5 DEF BufferIsSound
<1>7. ASSUME ~torn', ~twice' PROVE OneWindow'
  <2>1. ~torn /\ ~twice
    BY <1>1, <1>7 DEF Appends
  <2>2. \A u \in Feeders : detector'[u] \in {"report", "clear"} => detector[u] = detector'[u]
    BY <1>1
  <2>3. QED
    BY <1>1, <2>1, <2>2 DEF OneWindow
<1>8. QED
  BY <1>3, <1>5, <1>6, <1>7

(* The comparison with the window's size, and a flush that finds too few,  *)
(* change what feeder t does next, and a register.                         *)
LEMMA MoveKeeps ==
  ASSUME ChaosInv, NEW t \in Feeders,
         detector[t] \in {"test", "flush"}, NEW where \in {"flush", "idle"}, GotoIn(t, where),
         seen' \in [Feeders -> 0 .. Len(slots)],
         UNCHANGED <<slots, size, sample, window, pushed, times, torn, twice>>
  PROVE  ChaosInv'
<1> USE DEF ChaosInv
<1>1. Buffer' = Buffer
  BY DEF Buffer
<1>2. \A u \in Feeders : /\ detector'[u] \in {"append", "report", "clear"} => detector[u] = detector'[u]
                         /\ detector[u] \in {"append", "report", "clear"} => detector[u] = detector'[u]
  BY DEF GotoIn, ChaosTypeOK
<1>3. ChaosTypeOK'
  BY DEF ChaosTypeOK, GotoIn, DetectorPCs
<1>4. AppendedOnce'
  BY <1>2 DEF AppendedOnce
<1>5. \A id : Appended(id)' <=> Appended(id)
  BY <1>2 DEF Appended
<1>6. ~torn' => BufferIsSound'
  BY <1>1, <1>2, <1>5 DEF BufferIsSound
<1>7. ~torn' /\ ~twice' => OneWindow'
  BY <1>2 DEF OneWindow
<1>8. QED
  BY <1>3, <1>4, <1>6, <1>7

LEMMA TestKeeps ==
  ASSUME ChaosInv, NEW t \in Feeders, TestsSize(t)
  PROVE  ChaosInv'
<1>1. PICK end \in {seen[t], size} :
        IF end >= WindowSize THEN GotoIn(t, "flush") /\ Sees(t, end)
                             ELSE GotoIn(t, "idle") /\ Sees(t, 0)
  BY DEF TestsSize
<1>2. detector[t] = "test" /\ UNCHANGED <<slots, size, sample, window, pushed, times, torn, twice>>
  BY DEF TestsSize
<1>3. /\ seen \in [Feeders -> 0 .. Len(slots)]
      /\ end \in 0 .. Len(slots) /\ 0 \in 0 .. Len(slots)
  BY LenProperties DEF ChaosInv, ChaosTypeOK
<1>4. seen' \in [Feeders -> 0 .. Len(slots)]
  BY <1>1, <1>3 DEF Sees
<1>5. QED
  BY <1>1, <1>2, <1>4, MoveKeeps

(* A computed window holds what the buffer holds. *)
LEMMA ComputeKeeps ==
  ASSUME ChaosInv, NEW t \in Feeders, detector[t] \in {"idle", "flush"}, Compute(t),
         seen' \in [Feeders -> 0 .. Len(slots)],
         UNCHANGED <<slots, size, sample, pushed, times, torn>>
  PROVE  ChaosInv'
<1>1. Buffer' = Buffer /\ Buffer \subseteq {Unwritten} \cup Numbers
  <2>1. \A k \in 1 .. Len(slots) : slots[k] \in {Unwritten} \cup Numbers
    BY LenProperties DEF ChaosInv, ChaosTypeOK
  <2>2. 1 .. size \subseteq 1 .. Len(slots)
    BY LenProperties DEF ChaosInv, ChaosTypeOK
  <2>3. QED
    BY <2>1, <2>2 DEF Buffer
<1>2. /\ detector'[t] = "report" /\ window'[t] = Buffer
      /\ \A u \in Feeders \ {t} : detector'[u] = detector[u] /\ window'[u] = window[u]
      /\ twice \in BOOLEAN /\ twice' \in BOOLEAN
      /\ ~twice' => ~twice /\ \A u \in Feeders : detector[u] \notin {"report", "clear"}
  BY DEF Compute, GotoIn, ChaosInv, ChaosTypeOK
<1>3. ChaosTypeOK'
  <2>1. detector' \in [Feeders -> DetectorPCs]
    BY DEF Compute, GotoIn, ChaosInv, ChaosTypeOK, DetectorPCs
  <2>2. window' \in [Feeders -> SUBSET ({Unwritten} \cup Numbers)]
    BY <1>1 DEF Compute, ChaosInv, ChaosTypeOK
  <2>3. QED
    BY <1>2, <2>1, <2>2 DEF ChaosInv, ChaosTypeOK
<1>4. \A u \in Feeders : /\ detector'[u] = "append" <=> detector[u] = "append"
                         /\ detector'[u] = "clear" <=> detector[u] = "clear"
                         /\ u # t => (detector'[u] = "report" <=> detector[u] = "report")
  BY <1>2
<1>5. AppendedOnce'
  BY <1>4 DEF ChaosInv, AppendedOnce
<1>6. \A id : Appended(id)' <=> Appended(id)
  BY <1>4 DEF Appended
<1>7. ASSUME ~torn' PROVE BufferIsSound'
  <2>1. BufferIsSound
    BY <1>7 DEF ChaosInv
  <2>2. Buffer' \subseteq 1 .. pushed' /\ \A id \in Buffer' : Appended(id)'
    BY <1>1, <1>6, <2>1 DEF BufferIsSound
  <2>3. \A u \in Feeders, id \in Numbers : times'[u][id] # 0 =>
          /\ times'[u][id] = 1 /\ id <= pushed' /\ Appended(id)'
          /\ detector'[u] # "clear" => id \notin Buffer'
    BY <1>1, <1>4, <1>6, <2>1 DEF BufferIsSound
  <2>4. \A id \in Buffer : times[t][id] = 0
    <3>1. \A id \in Buffer : id \in Numbers
      BY <2>1, WindowIsScored DEF BufferIsSound, ChaosInv, ChaosTypeOK, Numbers
    <3>2. QED
      BY <2>1, <3>1 DEF BufferIsSound
  <2>5. \A u \in Feeders : detector'[u] = "report" =>
          /\ window'[u] \subseteq 1 .. pushed'
          /\ \A id \in window'[u] : times'[u][id] = 0 /\ Appended(id)'
    <3>1. \A u \in Feeders \ {t} : detector'[u] = "report" =>
            /\ window'[u] \subseteq 1 .. pushed'
            /\ \A id \in window'[u] : times'[u][id] = 0 /\ Appended(id)'
      BY <1>2, <1>4, <1>6, <2>1 DEF BufferIsSound
    <3>2. window'[t] \subseteq 1 .. pushed' /\ \A id \in window'[t] : times'[t][id] = 0 /\ Appended(id)'
      BY <1>1, <1>2, <2>2, <2>4
    <3>3. QED
      BY <3>1, <3>2
  <2>6. QED
    BY <2>2, <2>3, <2>5 DEF BufferIsSound
<1>8. ASSUME ~torn', ~twice' PROVE OneWindow'
  <2>1. BufferIsSound /\ OneWindow /\ \A u \in Feeders : detector[u] \notin {"report", "clear"}
    BY <1>2, <1>8 DEF ChaosInv
  <2>2. \A u \in Feeders : detector'[u] \in {"report", "clear"} => u = t
    BY <1>2, <2>1
  <2>3. \A u \in Feeders, id \in Buffer : times[u][id] = 0
    <3>1. \A id \in Buffer : id \in Numbers
      BY <2>1, WindowIsScored DEF BufferIsSound, ChaosInv, ChaosTypeOK, Numbers
    <3>2. QED
      BY <2>1, <3>1 DEF BufferIsSound
  <2>4. QED
    BY <1>2, <2>1, <2>2, <2>3 DEF OneWindow
<1>9. QED
  BY <1>3, <1>5, <1>7, <1>8 DEF ChaosInv

(* The two calls of flush_window. *)
LEMMA FlushKeeps ==
  ASSUME ChaosInv, NEW t \in Feeders, Flushes(t) \/ ForcesFlush(t)
  PROVE  ChaosInv'
<1>1. /\ seen \in [Feeders -> 0 .. Len(slots)] /\ 0 \in 0 .. Len(slots)
  BY LenProperties DEF ChaosInv, ChaosTypeOK
<1>2. CASE Flushes(t)
  <2>1. PICK end \in {seen[t], size} :
          IF end < MinSamples THEN GotoIn(t, "idle") /\ UNCHANGED <<window, twice>> ELSE Compute(t)
    BY <1>2 DEF Flushes
  <2>2. /\ detector[t] = "flush" /\ seen' \in [Feeders -> 0 .. Len(slots)]
        /\ UNCHANGED <<slots, size, sample, pushed, times, torn>>
    BY <1>1, <1>2 DEF Flushes, Sees
  <2>3. CASE end < MinSamples
    BY <2>1, <2>2, <2>3, MoveKeeps
  <2>4. CASE ~(end < MinSamples)
    BY <2>1, <2>2, <2>4, ComputeKeeps
  <2>5. QED
    BY <2>3, <2>4
<1>3. CASE ForcesFlush(t)
  BY <1>1, <1>3, ComputeKeeps DEF ForcesFlush
<1>4. QED
  BY <1>2, <1>3

(* window_cb_: what it is given is reported once more. *)
LEMMA ReportKeeps ==
  ASSUME ChaosInv, NEW t \in Feeders, Reports(t)
  PROVE  ChaosInv'
<1>1. /\ Buffer' = Buffer /\ detector[t] = "report" /\ detector'[t] = "clear"
      /\ \A u \in Feeders \ {t} : /\ detector'[u] = detector[u] /\ window'[u] = window[u]
                                  /\ times'[u] = times[u]
      /\ \A id \in Numbers : times'[t][id] = times[t][id] + (IF id \in window[t] THEN 1 ELSE 0)
      /\ UNCHANGED <<slots, size, sample, seen, pushed, torn, twice>>
  BY DEF Reports, GotoIn, ChaosInv, ChaosTypeOK, Buffer
<1>2. ChaosTypeOK'
  <2>1. times' \in [Feeders -> [Numbers -> Nat]]
    <3>1. [id \in Numbers |-> times[t][id] + (IF id \in window[t] THEN 1 ELSE 0)] \in [Numbers -> Nat]
      BY DEF ChaosInv, ChaosTypeOK
    <3>2. times' = [times EXCEPT ![t] =
                      [id \in Numbers |-> times[t][id] + (IF id \in window[t] THEN 1 ELSE 0)]]
      BY DEF Reports, ChaosInv, ChaosTypeOK
    <3>3. QED
      BY <3>1, <3>2 DEF ChaosInv, ChaosTypeOK
  <2>2. detector' \in [Feeders -> DetectorPCs] /\ window' \in [Feeders -> SUBSET ({Unwritten} \cup Numbers)]
    BY DEF Reports, GotoIn, ChaosInv, ChaosTypeOK, DetectorPCs
  <2>3. QED
    BY <1>1, <2>1, <2>2 DEF ChaosInv, ChaosTypeOK
<1>3. \A u \in Feeders : /\ detector'[u] = "append" <=> detector[u] = "append"
                         /\ detector'[u] = "report" => detector[u] = "report" /\ u # t
                         /\ detector'[u] \in {"report", "clear"} => detector[u] \in {"report", "clear"}
  BY <1>1
<1>4. AppendedOnce'
  BY <1>1, <1>3 DEF ChaosInv, AppendedOnce
<1>5. \A id : Appended(id)' <=> Appended(id)
  BY <1>1, <1>3 DEF Appended
<1>6. ASSUME ~torn'
      PROVE  /\ BufferIsSound'
             /\ \A id \in Numbers : times'[t][id] = 1 <=> id \in window[t] \/ times[t][id] = 1
  <2>1. BufferIsSound
    BY <1>1, <1>6 DEF ChaosInv
  <2>2. \A id \in Numbers : id \in window[t] => times[t][id] = 0 /\ id <= pushed /\ Appended(id)
    BY <1>1, <2>1 DEF BufferIsSound, ChaosInv, ChaosTypeOK
  <2>3. \A id \in Numbers : times[t][id] \in {0, 1}
    BY <2>1 DEF BufferIsSound
  <2>4. \A id \in Numbers : times'[t][id] = IF id \in window[t] THEN 1 ELSE times[t][id]
    BY <1>1, <2>2, <2>3
  <2>5. \A u \in Feeders, id \in Numbers : times'[u][id] # 0 =>
          /\ times'[u][id] = 1 /\ id <= pushed' /\ Appended(id)'
          /\ detector'[u] # "clear" => id \notin Buffer'
    <3>1. \A u \in Feeders \ {t}, id \in Numbers : times'[u][id] # 0 =>
            /\ times'[u][id] = 1 /\ id <= pushed' /\ Appended(id)'
            /\ detector'[u] # "clear" => id \notin Buffer'
      BY <1>1, <1>5, <2>1 DEF BufferIsSound
    <3>2. \A id \in Numbers : times'[t][id] # 0 =>
            times'[t][id] = 1 /\ id <= pushed' /\ Appended(id)'
      <4>1. \A id \in Numbers : times[t][id] # 0 => times[t][id] = 1 /\ id <= pushed /\ Appended(id)
        BY <2>1 DEF BufferIsSound
      <4>2. QED
        BY <1>1, <1>5, <2>2, <2>4, <4>1
    <3>3. QED
      BY <1>1, <3>1, <3>2
  <2>6. \A u \in Feeders : detector'[u] = "report" =>
          /\ window'[u] \subseteq 1 .. pushed'
          /\ \A id \in window'[u] : times'[u][id] = 0 /\ Appended(id)'
    BY <1>1, <1>3, <1>5, <2>1 DEF BufferIsSound
  <2>7. Buffer' \subseteq 1 .. pushed' /\ \A id \in Buffer' : Appended(id)'
    BY <1>1, <1>5, <2>1 DEF BufferIsSound
  <2>8. \A id \in Numbers : times'[t][id] = 1 <=> id \in window[t] \/ times[t][id] = 1
    BY <2>4
  <2>9. QED
    BY <2>5, <2>6, <2>7, <2>8 DEF BufferIsSound
<1>7. ASSUME ~torn', ~twice' PROVE OneWindow'
  <2>1. OneWindow
    BY <1>1, <1>7 DEF ChaosInv
  <2>2. \A u, v \in Feeders, id \in Numbers : times'[u][id] = 1 /\ times'[v][id] = 1 => u = v
    <3>1. \A u \in Feeders, id \in Numbers : id \in window[t] => times[u][id] = 0
      BY <1>1, <2>1 DEF OneWindow
    <3>2. \A u \in Feeders, id \in Numbers :
            times'[u][id] = 1 => IF id \in window[t] THEN u = t ELSE times[u][id] = 1
      BY <1>1, <1>6, <1>7, <3>1
    <3>3. QED
      BY <2>1, <3>2 DEF OneWindow
  <2>3. \A u \in Feeders : detector'[u] # "report"
    BY <1>1, <1>3, <2>1 DEF OneWindow
  <2>4. \A u, v \in Feeders :
          detector'[u] \in {"report", "clear"} /\ detector'[v] \in {"report", "clear"} => u = v
    BY <1>3, <2>1 DEF OneWindow
  <2>5. QED
    BY <2>2, <2>3, <2>4 DEF OneWindow
<1>8. QED
  BY <1>2, <1>4, <1>6, <1>7 DEF ChaosInv

(* The end of flush_window. *)
LEMMA ClearKeeps ==
  ASSUME ChaosInv, NEW t \in Feeders, Clears(t)
  PROVE  ChaosInv'
<1>1. /\ Buffer' = {} /\ detector[t] = "clear" /\ detector'[t] = "idle"
      /\ \A u \in Feeders \ {t} : detector'[u] = detector[u]
      /\ UNCHANGED <<slots, sample, seen, window, pushed, times, torn, twice>>
  <2>1. size' = 0 /\ 1 .. 0 = {}
    BY DEF Clears
  <2>2. Buffer' = {}
    BY <2>1 DEF Buffer
  <2>3. QED
    BY <2>2 DEF Clears, GotoIn, ChaosInv, ChaosTypeOK
<1>2. ChaosTypeOK'
  <2>1. size' \in 0 .. Len(slots')
    BY LenProperties DEF Clears, ChaosInv, ChaosTypeOK
  <2>2. detector' \in [Feeders -> DetectorPCs]
    BY DEF Clears, GotoIn, ChaosInv, ChaosTypeOK, DetectorPCs
  <2>3. QED
    BY <1>1, <2>1, <2>2 DEF ChaosInv, ChaosTypeOK
<1>3. \A u \in Feeders : /\ detector'[u] = "append" <=> detector[u] = "append"
                         /\ detector'[u] \in {"report", "clear"} => detector[u] = detector'[u]
  BY <1>1
<1>4. AppendedOnce'
  BY <1>1, <1>3 DEF ChaosInv, AppendedOnce
<1>5. \A id : Appended(id)' <=> Appended(id)
  BY <1>1, <1>3 DEF Appended
<1>6. ~torn' => BufferIsSound'
  BY <1>1, <1>3, <1>5 DEF ChaosInv, BufferIsSound
<1>7. ~torn' /\ ~twice' => OneWindow'
  BY <1>1, <1>3 DEF ChaosInv, OneWindow
<1>8. QED
  BY <1>2, <1>4, <1>6, <1>7 DEF ChaosInv

LEMMA ChaosStepKeeps ==
  ASSUME ChaosInv, NEW t \in Feeders, Reports(t) \/ DetectorStep(t)
  PROVE  ChaosInv'
BY PushKeeps, AppendKeeps, TestKeeps, FlushKeeps, ReportKeeps, ClearKeeps DEF DetectorStep

(* The reported samples are numbers given out, and are counted. *)
LEMMA ReportedIsCounted ==
  ASSUME ChaosInv, ~torn
  PROVE  /\ Reported \subseteq 1 .. pushed
         /\ IsFiniteSet(Reported) /\ Cardinality(Reported) \in Nat
         /\ Cardinality(Reported) <= pushed
<1>1. pushed \in Nat /\ Reported \subseteq 1 .. pushed
  BY WindowIsScored DEF ChaosInv, ChaosTypeOK, BufferIsSound, Reported, Numbers
<1>2. IsFiniteSet(1 .. pushed) /\ Cardinality(1 .. pushed) = pushed
  BY <1>1, FS_Interval
<1>3. IsFiniteSet(Reported) /\ Cardinality(Reported) <= pushed
  BY <1>1, <1>2, FS_Subset
<1>4. QED
  BY <1>1, <1>3, FS_CardinalityType

(* A window scored high has enough samples, none of them reported before:  *)
(* the count of high windows grows with the samples that were in one.      *)
LEMMA ReportedWindowIsCovered ==
  ASSUME ChaosInv, HighWindowsAreCovered, chaosHigh \in 0 .. SustainedWindows,
         NEW t \in Feeders, ReportsWindow(t), UNCHANGED part
  PROVE  HighWindowsAreCovered'
<1> SUFFICES ASSUME part = "windows", ~torn', ~twice'
             PROVE  chaosHigh' * MinSamples <= Cardinality(Reported')
  BY DEF HighWindowsAreCovered
<1> DEFINE ids == window[t]
<1>1. /\ Reports(t) /\ part = "windows" /\ ~torn /\ ~twice /\ ChaosInv'
      /\ chaosHigh * MinSamples <= Cardinality(Reported)
  BY ReportKeeps DEF ReportsWindow, Reports, HighWindowsAreCovered
<1>2. /\ detector[t] = "report" /\ ids \subseteq 1 .. pushed /\ pushed \in 0 .. MaxPushes
      /\ \A u \in Feeders, id \in ids : times[u][id] = 0
  BY <1>1 DEF Reports, ChaosInv, ChaosTypeOK, BufferIsSound, OneWindow
<1>3. Reported' = Reported \cup ids
  <2>1. /\ \A u \in Feeders \ {t} : times'[u] = times[u]
        /\ \A id \in Numbers : times'[t][id] = times[t][id] + (IF id \in ids THEN 1 ELSE 0)
    BY <1>1 DEF Reports, ChaosInv, ChaosTypeOK
  <2>2. \A u \in Feeders, id \in Numbers : times[u][id] \in {0, 1}
    BY <1>1 DEF ChaosInv, BufferIsSound
  <2>3. ids \subseteq Numbers
    BY <1>2, WindowIsScored DEF Numbers
  <2>4. \A id \in Numbers : times'[t][id] = 1 <=> id \in ids \/ times[t][id] = 1
    BY <1>2, <2>1, <2>2
  <2> HIDE DEF ids
  <2>5. \A u \in Feeders, id \in Numbers :
          times'[u][id] = 1 <=> (u = t /\ id \in ids) \/ times[u][id] = 1
    BY <2>1, <2>4
  <2>6. QED
    BY <2>3, <2>5 DEF Reported
<1>4. Reported \cap ids = {}
  BY <1>2 DEF Reported
<1>5. IsFiniteSet(ids) /\ Cardinality(ids) \in Nat
  <2>1. IsFiniteSet(1 .. pushed)
    BY <1>2, WindowIsScored, FS_Interval
  <2>2. QED
    BY <1>2, <2>1, FS_Subset, FS_CardinalityType
<1>6. Cardinality(Reported') = Cardinality(Reported) + Cardinality(ids)
  <2>1. Cardinality(Reported \cap ids) = 0
    BY <1>4, FS_EmptySet
  <2>2. Cardinality(Reported \cup ids) = Cardinality(Reported) + Cardinality(ids) - 0
    BY <1>1, <1>5, <2>1, ReportedIsCounted, FS_Union
  <2>3. QED
    BY <1>1, <1>3, <1>5, <2>2, ReportedIsCounted
<1>7. PICK high \in BOOLEAN : (high => Cardinality(ids) >= MinSamples) /\ EvaluateChaosWindow(t, high)
  <2>1. Unwritten \notin ids
    BY <1>2 DEF Unwritten
  <2>2. QED
    BY <2>1 DEF ReportsWindow, MayBeHigh
<1>8. Cardinality(Reported) \in Nat /\ MinSamples \in Nat
  BY <1>1, WindowIsScored, ReportedIsCounted
<1>9. chaosHigh' = 0 \/ chaosHigh' = chaosHigh \/ (high /\ chaosHigh' = chaosHigh + 1)
  BY <1>7 DEF EvaluateChaosWindow
<1>10. chaosHigh \in {0, 1, 2} /\ chaosHigh' \in {0, 1, 2}
  BY <1>7 DEF EvaluateChaosWindow, SustainedWindows
<1>11. CASE chaosHigh' = 0 \/ chaosHigh' = chaosHigh
  <2>1. 0 * MinSamples = 0 /\ Cardinality(Reported') >= Cardinality(Reported) /\ Cardinality(Reported') >= 0
    BY <1>5, <1>6, <1>8
  <2>2. CASE chaosHigh' = 0
    BY <2>1, <2>2, <1>5, <1>6, <1>8
  <2>3. CASE chaosHigh' = chaosHigh
    <3>1. chaosHigh * MinSamples \in Int
      BY <1>8, <1>10
    <3>2. QED
      BY <1>1, <1>5, <1>6, <1>8, <2>3, <3>1
  <2>4. QED
    BY <1>11, <2>2, <2>3
<1>12. CASE high /\ chaosHigh' = chaosHigh + 1
  <2>1. MinSamples <= Cardinality(ids)
    BY <1>5, <1>7, <1>8, <1>12
  <2>2. 0 * MinSamples = 0 /\ 1 * MinSamples = MinSamples /\ 2 * MinSamples = MinSamples + MinSamples
    BY <1>8
  <2>3. CASE chaosHigh = 0 /\ chaosHigh' = 1
    BY <1>1, <1>5, <1>6, <1>8, <2>1, <2>2, <2>3
  <2>4. CASE chaosHigh = 1 /\ chaosHigh' = 2
    BY <1>1, <1>5, <1>6, <1>8, <2>1, <2>2, <2>4
  <2>5. QED
    BY <1>10, <1>12, <2>3, <2>4
<1>13. QED
  BY <1>9, <1>11, <1>12

(* The other steps report nothing. *)
LEMMA OtherStepsCover ==
  ASSUME HighWindowsAreCovered, UNCHANGED <<times, chaosHigh>>,
         part' = "windows" => part = "windows", ~torn' => ~torn, ~twice' => ~twice
  PROVE  HighWindowsAreCovered'
BY DEF HighWindowsAreCovered, Reported

LEMMA SustainedOnSamples ==
  ASSUME ChaosInv, HighWindowsAreCovered, chaosHigh \in 0 .. SustainedWindows
  PROVE  SustainedOnDistinctSamples
<1>1. SamplesReportedOnce
  <2>1. ~torn => \A t \in Feeders, id \in Numbers : times[t][id] <= 1
    <3>1. ~torn => \A t \in Feeders, id \in Numbers : times[t][id] \in {0, 1}
      BY DEF ChaosInv, BufferIsSound
    <3>2. QED
      BY <3>1
  <2>2. ~torn /\ ~twice => \A t, u \in Feeders, id \in Numbers :
          times[t][id] = 1 /\ times[u][id] = 1 => t = u
    BY DEF ChaosInv, OneWindow
  <2>3. QED
    BY <2>1, <2>2 DEF SamplesReportedOnce
<1>2. part = "windows" /\ ~torn /\ ~twice => chaosHigh * MinSamples <= pushed
  <2>1. chaosHigh * MinSamples \in Int /\ pushed \in Nat
    BY WindowIsScored DEF SustainedWindows, ChaosInv, ChaosTypeOK
  <2>2. QED
    BY <2>1, ReportedIsCounted DEF HighWindowsAreCovered
<1>3. QED
  BY <1>1, <1>2 DEF SustainedOnDistinctSamples
-----------------------------------------------------------------------------
(* ----------------------------- autonomy loop ---------------------------- *)

LeftTheRing == SignalsIn(batch) \cup HandedSignals \cup refused \cup dropped

(* Every number given out is at one place. *)
PlacesAreDisjoint ==
  /\ Ids(SignalsIn(batch)) \cap (Ids(HandedSignals) \cup Ids(refused) \cup Ids(dropped)) = {}
  /\ Ids(HandedSignals) \cap (Ids(refused) \cup Ids(dropped)) = {}
  /\ Ids(refused) \cap Ids(dropped) = {}

NumbersAreKept == Ids(SignalsIn(ring)) \cup Ids(LeftTheRing) = 1 .. signals

RingInOrder ==
  /\ \A i, j \in DOMAIN ring : i < j => ring[i].id < ring[j].id
  /\ \A s \in SignalsIn(ring), old \in LeftTheRing : old.id < s.id

HandedUrgently == \A h \in handed : h.priority <= Route(h.signal.score)[2]

AutonomyInv ==
  /\ AutonomyTypeOK
  /\ NumbersAreKept
  /\ PlacesAreDisjoint
  /\ RingInOrder
  /\ HandedUrgently


InOrder(s) == \A i, j \in DOMAIN s : i < j => s[i].id < s[j].id

(* The two parts of a sequence of signals, and their order. *)
LEMMA PartsOfSignals ==
  ASSUME NEW s \in Seq(Signals), NEW n \in 0 .. Len(s)
  PROVE  /\ FirstOf(s, n) \in Seq(Signals) /\ Len(FirstOf(s, n)) = n
         /\ AfterFirst(s, n) \in Seq(Signals) /\ Len(AfterFirst(s, n)) = Len(s) - n
         /\ SignalsIn(FirstOf(s, n)) \cup SignalsIn(AfterFirst(s, n)) = SignalsIn(s)
         /\ SignalsIn(s) \subseteq Signals
         /\ InOrder(s) =>
              /\ InOrder(AfterFirst(s, n))
              /\ \A x \in SignalsIn(FirstOf(s, n)), y \in SignalsIn(AfterFirst(s, n)) : x.id < y.id
<1> DEFINE front == FirstOf(s, n)
           back == AfterFirst(s, n)
<1>1. /\ Len(s) \in Nat /\ n \in Nat /\ n <= Len(s) /\ DOMAIN s = 1 .. Len(s)
      /\ \A i \in 1 .. Len(s) : s[i] \in Signals
  BY LenProperties, ElementOfSeq
<1>2. /\ front \in Seq(Signals) /\ Len(front) = n
      /\ \A i \in 1 .. n : front[i] = s[i]
  BY <1>1, SubSeqProperties DEF FirstOf
<1>3. /\ back \in Seq(Signals) /\ Len(back) = Len(s) - n
      /\ \A i \in 1 .. Len(s) - n : back[i] = s[n + i]
  <2>1. \A i \in n + 1 .. Len(s) : s[i] \in Signals
    BY <1>1
  <2>2. /\ back \in Seq(Signals)
        /\ Len(back) = IF n + 1 <= Len(s) THEN Len(s) - (n + 1) + 1 ELSE 0
        /\ \A i \in 1 .. Len(s) - (n + 1) + 1 : back[i] = s[(n + 1) + i - 1]
    BY <1>1, <2>1, SubSeqProperties DEF AfterFirst
  <2>3. Len(s) - (n + 1) + 1 = Len(s) - n /\ \A i \in Int : (n + 1) + i - 1 = n + i
    BY <1>1
  <2> HIDE DEF back
  <2>4. Len(back) = Len(s) - n
    <3>1. n + 1 <= Len(s) \/ Len(s) - n = 0
      <4>1. \A k, m \in Nat : m <= k => m + 1 <= k \/ k - m = 0
        OBVIOUS
      <4>2. Len(s) \in Nat /\ n \in Nat /\ n <= Len(s)
        BY <1>1
      <4>3. QED
        BY <4>1, <4>2
    <3>2. CASE n + 1 <= Len(s)
      BY <2>2, <2>3, <3>2
    <3>3. CASE ~(n + 1 <= Len(s))
      BY <2>2, <3>1, <3>3
    <3>4. QED
      BY <3>2, <3>3
  <2>5. \A i \in 1 .. Len(s) - n : back[i] = s[n + i]
    <3> TAKE i \in 1 .. Len(s) - n
    <3>1. i \in Int /\ i \in 1 .. Len(s) - (n + 1) + 1
      BY <1>1, <2>3
    <3>2. (n + 1) + i - 1 = n + i
      BY <2>3, <3>1
    <3>3. back[i] = s[(n + 1) + i - 1]
      BY <2>2, <3>1
    <3>4. QED
      BY <3>2, <3>3
  <2>6. QED
    BY <2>2, <2>4, <2>5
<1>4. DOMAIN front = 1 .. n /\ DOMAIN back = 1 .. Len(s) - n
  BY <1>2, <1>3, LenProperties
<1> HIDE DEF front, back
<1>5. SignalsIn(front) \cup SignalsIn(back) = SignalsIn(s)
  <2>1. SignalsIn(front) \subseteq SignalsIn(s)
    BY <1>1, <1>2, <1>4 DEF SignalsIn
  <2>2. SignalsIn(back) \subseteq SignalsIn(s)
    <3>1. \A i \in 1 .. Len(s) - n : n + i \in 1 .. Len(s)
      BY <1>1
    <3>2. QED
      BY <1>1, <1>3, <1>4, <3>1 DEF SignalsIn
  <2>3. ASSUME NEW i \in 1 .. Len(s) PROVE s[i] \in SignalsIn(front) \cup SignalsIn(back)
    <3>1. CASE i <= n
      <4>1. i \in DOMAIN front /\ front[i] = s[i]
        BY <1>1, <1>2, <1>4, <3>1
      <4>2. QED
        BY <4>1 DEF SignalsIn
    <3>2. CASE i > n
      <4>1. i - n \in DOMAIN back /\ back[i - n] = s[n + (i - n)] /\ n + (i - n) = i
        BY <1>1, <1>3, <1>4, <3>2
      <4>2. QED
        BY <4>1 DEF SignalsIn
    <3>3. QED
      BY <1>1, <3>1, <3>2
  <2>4. QED
    BY <1>1, <2>1, <2>2, <2>3 DEF SignalsIn
<1>6. SignalsIn(s) \subseteq Signals
  BY <1>1 DEF SignalsIn
<1>7. ASSUME InOrder(s) PROVE InOrder(back)
  <2> SUFFICES ASSUME NEW i \in 1 .. Len(s) - n, NEW j \in 1 .. Len(s) - n, i < j
               PROVE  back[i].id < back[j].id
    BY <1>4 DEF InOrder
  <2>1. n + i \in DOMAIN s /\ n + j \in DOMAIN s /\ n + i < n + j
    BY <1>1
  <2>2. s[n + i].id < s[n + j].id
    BY <1>7, <2>1 DEF InOrder
  <2>3. QED
    BY <1>3, <2>2
<1>8. ASSUME InOrder(s)
      PROVE  \A x \in SignalsIn(front), y \in SignalsIn(back) : x.id < y.id
  <2> SUFFICES ASSUME NEW i \in 1 .. n, NEW j \in 1 .. Len(s) - n
               PROVE  front[i].id < back[j].id
    BY <1>4 DEF SignalsIn
  <2>1. i \in DOMAIN s /\ n + j \in DOMAIN s /\ i < n + j
    BY <1>1
  <2>2. s[i].id < s[n + j].id
    BY <1>8, <2>1 DEF InOrder
  <2>3. QED
    BY <1>2, <1>3, <2>2
<1>9. QED
  BY <1>2, <1>3, <1>5, <1>6, <1>7, <1>8 DEF front, back

LEMMA AppendedSignal ==
  ASSUME NEW s \in Seq(Signals), NEW e \in Signals
  PROVE  /\ Append(s, e) \in Seq(Signals) /\ Len(Append(s, e)) = Len(s) + 1
         /\ SignalsIn(Append(s, e)) = SignalsIn(s) \cup {e}
         /\ InOrder(s) /\ (\A x \in SignalsIn(s) : x.id < e.id) => InOrder(Append(s, e))
<1> DEFINE longer == Append(s, e)
<1>1. /\ longer \in Seq(Signals) /\ DOMAIN longer = 1 .. Len(s) + 1 /\ Len(longer) = Len(s) + 1
      /\ DOMAIN s = 1 .. Len(s) /\ Len(s) \in Nat
      /\ \A i \in 1 .. Len(s) : longer[i] = s[i]
      /\ longer[Len(s) + 1] = e
  BY AppendProperties, LenProperties
<1> HIDE DEF longer
<1>2. SignalsIn(longer) \subseteq SignalsIn(s) \cup {e}
  BY <1>1 DEF SignalsIn
<1>3. SignalsIn(s) \cup {e} \subseteq SignalsIn(longer)
  BY <1>1 DEF SignalsIn
<1>4. ASSUME InOrder(s), \A x \in SignalsIn(s) : x.id < e.id
      PROVE  InOrder(longer)
  <2>1. \A i \in 1 .. Len(s) : s[i].id < e.id
    BY <1>1, <1>4 DEF SignalsIn
  <2>2. QED
    BY <1>1, <1>4, <2>1 DEF InOrder
<1>5. QED
  BY <1>1, <1>2, <1>3, <1>4 DEF longer

LEMMA NoSignals == <<>> \in Seq(Signals) /\ Len(<<>>) = 0 /\ SignalsIn(<<>>) = {} /\ InOrder(<<>>)
BY EmptySeq DEF SignalsIn, InOrder

(* Among finitely many signals one is at least as severe as every other:   *)
(* one above which the fewest are.                                         *)
LEMMA SomeIsMostSevere ==
  ASSUME NEW S \in SUBSET Signals, IsFiniteSet(S), S # {}
  PROVE  \E x \in S : \A y \in S : y.score <= x.score
<1> DEFINE above(x) == {y \in S : y.score > x.score}
           T == {above(x) : x \in S}
<1>1. T \subseteq FiniteSubsetsOf(S) /\ T # {}
  <2>1. SUBSET S = FiniteSubsetsOf(S)
    BY FS_FiniteSubsetsOfFinite
  <2>2. \A x \in S : above(x) \in SUBSET S
    OBVIOUS
  <2> HIDE DEF above
  <2>3. QED
    BY <2>1, <2>2
<1>2. PICK A \in T : \A B \in T : <<B, A>> \notin StrictSubsetOrdering(S)
  <2> HIDE DEF T
  <2>1. QED
    BY <1>1, FS_StrictSubsetOrderingWellFounded, WFMin
<1>3. PICK x \in S : A = above(x)
  BY <1>2
<1>4. \A y \in S : y.score \in Nat
  BY SignalScoresAreNats DEF Signals
<1>5. A = {}
  <2> SUFFICES ASSUME NEW y \in A PROVE FALSE
    OBVIOUS
  <2>1. y \in S /\ y.score > x.score
    BY <1>3
  <2>2. above(y) \subseteq A /\ y \notin above(y) /\ above(y) \in T
    BY <1>3, <1>4, <2>1
  <2>3. <<above(y), A>> \in StrictSubsetOrdering(S)
    BY <1>3, <2>2 DEF StrictSubsetOrdering
  <2>4. QED
    BY <1>2, <2>2, <2>3
<1>6. \A y \in S : ~ (y.score > x.score)
  BY <1>3, <1>5
<1>7. QED
  BY <1>4, <1>6

LEMMA MostSevereIsOne ==
  ASSUME NEW s \in Seq(Signals), s # <<>>
  PROVE  MostSevere(s) \in SignalsIn(s) /\ \A y \in SignalsIn(s) : y.score <= MostSevere(s).score
<1>1. Len(s) \in Nat \ {0} /\ s \in [1 .. Len(s) -> Signals] /\ DOMAIN s = 1 .. Len(s)
  BY LenProperties, EmptySeq
<1>2. IsFiniteSet(1 .. Len(s)) /\ s \in Surjection(1 .. Len(s), SignalsIn(s))
  <2>1. IsFiniteSet(1 .. Len(s))
    BY <1>1, FS_Interval
  <2>2. s \in [1 .. Len(s) -> SignalsIn(s)]
    BY <1>1 DEF SignalsIn
  <2>3. \A e \in SignalsIn(s) : \E i \in 1 .. Len(s) : s[i] = e
    BY <1>1 DEF SignalsIn
  <2>4. QED
    BY <2>1, <2>2, <2>3 DEF Surjection
<1>3. IsFiniteSet(SignalsIn(s))
  BY <1>2, FS_Surjection
<1>4. SignalsIn(s) \subseteq Signals /\ SignalsIn(s) # {}
  BY <1>1 DEF SignalsIn
<1>5. \E x \in SignalsIn(s) : \A y \in SignalsIn(s) : y.score <= x.score
  BY <1>3, <1>4, SomeIsMostSevere
<1>6. QED
  BY <1>5 DEF MostSevere

(* The more severe a signal, the more urgent its task. *)
LEMMA RouteIsMonotone ==
  ASSUME NEW s \in SignalScores, NEW u \in SignalScores, s <= u
  PROVE  /\ Route(u)[2] <= Route(s)[2]
         /\ Route(u)[2] \in {HighPriority, NormalPriority, LowPriority}
<1>1. s \in Nat /\ u \in Nat
  BY SignalScoresAreNats
<1>2. \A v \in Nat : /\ v >= 60 => Route(v)[2] = 0
                     /\ v >= 40 /\ v < 60 => Route(v)[2] = 1
                     /\ v < 40 => Route(v)[2] = 2
  BY DEF Route, HighPriority, NormalPriority, LowPriority
<1>3. QED
  BY <1>1, <1>2 DEF HighPriority, NormalPriority, LowPriority

(* What is kept when the places of the signals are not touched. *)
placeVars == <<ring, batch, signals, handed, refused, dropped>>

LEMMA SamePlaces ==
  ASSUME AutonomyInv, UNCHANGED placeVars
  PROVE  NumbersAreKept' /\ PlacesAreDisjoint' /\ RingInOrder' /\ HandedUrgently'
<1>1. UNCHANGED placeVars /\ HandedSignals' = HandedSignals
  BY DEF placeVars, HandedSignals
<1>2. LeftTheRing' = LeftTheRing
  BY <1>1 DEF placeVars, LeftTheRing
<1>3. NumbersAreKept' /\ PlacesAreDisjoint'
  BY <1>1, <1>2 DEF AutonomyInv, placeVars, NumbersAreKept, PlacesAreDisjoint
<1>4. RingInOrder' /\ HandedUrgently'
  BY <1>1, <1>2 DEF AutonomyInv, placeVars, RingInOrder, HandedUrgently
<1>5. QED
  BY <1>3, <1>4

LEMMA IdsOfUnion == Ids({}) = {} /\ \A A, B : Ids(A \cup B) = Ids(A) \cup Ids(B)
BY DEF Ids

(* What is, or was, in the ring. *)
LEMMA PlacesHoldSignals ==
  ASSUME AutonomyTypeOK
  PROVE  /\ SignalsIn(ring) \subseteq Signals /\ LeftTheRing \subseteq Signals
         /\ \A x \in Signals : x.id \in Nat
<1>1. \A s \in Seq(Signals) : SignalsIn(s) \subseteq Signals
  BY LenProperties, ElementOfSeq DEF SignalsIn
<1>2. HandedSignals \subseteq Signals
  BY DEF AutonomyTypeOK, HandedSignals
<1>3. SignalsIn(ring) \subseteq Signals /\ SignalsIn(batch) \subseteq Signals
  BY <1>1 DEF AutonomyTypeOK
<1>4. \A x \in Signals : x.id \in Nat
  BY RingIsPositive DEF Signals
<1>5. QED
  BY <1>2, <1>3, <1>4 DEF AutonomyTypeOK, LeftTheRing

LEMMA AutonomyInitially == AutonomyInit => AutonomyInv
<1> SUFFICES ASSUME AutonomyInit PROVE AutonomyInv
  OBVIOUS
<1>1. SignalsIn(ring) = {} /\ SignalsIn(batch) = {} /\ HandedSignals = {}
      /\ ring \in Seq(Signals) /\ batch \in Seq(Signals) /\ Len(ring) = 0 /\ Len(batch) = 0
  BY NoSignals DEF AutonomyInit, HandedSignals
<1>2. AutonomyTypeOK
  <2>1. Len(ring) <= RingSize /\ Len(batch) <= BatchSize /\ signals \in 0 .. MaxSignals
    BY <1>1, RingIsPositive DEF AutonomyInit
  <2>2. turn \in 0 .. Len(Rotation) - 1
    BY RotationIsNotEmpty DEF AutonomyInit
  <2>3. batch # <<>> <=> loopPC = "submit"
    BY DEF AutonomyInit
  <2>4. QED
    BY <1>1, <2>1, <2>2, <2>3 DEF AutonomyInit, AutonomyTypeOK, LoopPCs, Levels
<1>3. NumbersAreKept /\ PlacesAreDisjoint /\ HandedUrgently
  BY <1>1 DEF AutonomyInit, NumbersAreKept, PlacesAreDisjoint, HandedUrgently, LeftTheRing, Ids
<1>4. RingInOrder
  BY <1>1 DEF AutonomyInit, RingInOrder
<1>5. QED
  BY <1>2, <1>3, <1>4 DEF AutonomyInv

(* The calls from outside, and the steps that move no signal. *)
LEMMA QuietStepKeeps ==
  ASSUME AutonomyInv,
         \/ \E l \in LevelsNotified : NotifyThreatLevel(l)
         \/ (LoopStarts /\ loopPC = "none") \/ LoopStops \/ LoopJoins
         \/ LoopHead \/ RespondsToThreat \/ Rotates \/ Wakes
         \/ UNCHANGED autonomyVars
  PROVE  AutonomyInv'
<1> USE DEF LoopPCs, inbound
<1>1. UNCHANGED placeVars
  BY DEF NotifyThreatLevel, LoopStarts, LoopStops, LoopJoins, LoopHead, RespondsToThreat,
         Rotates, Wakes, autonomyVars, placeVars
<1>2. AutonomyTypeOK
  BY DEF AutonomyInv
<1>3. AutonomyTypeOK'
  <2>1. CASE \E l \in LevelsNotified : NotifyThreatLevel(l)
    BY <1>2, <2>1, LevelsAreKnown DEF NotifyThreatLevel, AutonomyTypeOK, Levels
  <2>2. CASE (LoopStarts /\ loopPC = "none") \/ LoopStops \/ LoopJoins
    BY <1>2, <2>2 DEF LoopStarts, LoopStops, LoopJoins, AutonomyTypeOK
  <2>3. CASE LoopHead \/ Wakes
    BY <1>2, <2>3 DEF LoopHead, Wakes, Asks, AutonomyTypeOK
  <2>4. CASE RespondsToThreat
    <3>1. /\ Responders \X {HighPriority} \subseteq Responders \X {HighPriority, NormalPriority, LowPriority}
          /\ {<<"alert_triage", NormalPriority>>} \subseteq {"alert_triage"} \X {HighPriority, NormalPriority, LowPriority}
          /\ {} \subseteq Responders \X {HighPriority, NormalPriority, LowPriority}
      OBVIOUS
    <3>2. \A agents, tasks : tasks \subseteq agents \X {HighPriority, NormalPriority, LowPriority} =>
            {task \in tasks : task[1] \in Loaded} \subseteq Loaded \X {HighPriority, NormalPriority, LowPriority}
      OBVIOUS
    <3>3. level \in Levels
      BY <1>2 DEF AutonomyTypeOK
    <3>4. asked' \subseteq Loaded \X {HighPriority, NormalPriority, LowPriority}
      BY <2>4, <3>1, <3>2, <3>3 DEF RespondsToThreat, Asks, Levels
    <3>5. QED
      BY <1>2, <2>4, <3>4 DEF RespondsToThreat, AutonomyTypeOK
  <2>5. CASE Rotates
    <3>1. asked' \subseteq Loaded \X {HighPriority, NormalPriority, LowPriority}
      BY <2>5 DEF Rotates, Asks
    <3>2. turn' \in 0 .. Len(Rotation) - 1
      <4>1. turn + 1 \in Nat /\ Len(Rotation) \in Nat \ {0}
        BY <1>2, RotationIsNotEmpty DEF AutonomyTypeOK
      <4>2. \A a \in Nat, b \in Nat \ {0} : a % b \in 0 .. b - 1
        OBVIOUS
      <4>3. QED
        BY <2>5, <4>1, <4>2 DEF Rotates
    <3>3. QED
      BY <1>2, <2>5, <3>1, <3>2 DEF Rotates, AutonomyTypeOK
  <2>6. CASE UNCHANGED autonomyVars
    BY <1>2, <2>6 DEF autonomyVars, AutonomyTypeOK
  <2>7. QED
    BY <2>1, <2>2, <2>3, <2>4, <2>5, <2>6
<1>4. QED
  BY <1>1, <1>3, SamePlaces DEF AutonomyInv

(* push_signal: the new signal is newer than all, what a full ring drops   *)
(* is its oldest.                                                          *)
LEMMA PushSignalKeeps ==
  ASSUME AutonomyInv, NEW sc \in SignalScores, PushSignal(sc)
  PROVE  AutonomyInv'
<1> DEFINE signal == [id |-> signals + 1, score |-> sc]
           longer == Append(ring, signal)
           excess == IF Len(longer) > RingSize THEN Len(longer) - RingSize ELSE 0
           out == SignalsIn(FirstOf(longer, excess))
<1>1. /\ AutonomyTypeOK /\ signals \in Nat /\ signals' = signals + 1 /\ signals' \in 0 .. MaxSignals
      /\ ring' = AfterFirst(longer, excess) /\ dropped' = dropped \cup out
      /\ UNCHANGED <<loopRunning, loopPC, batch, turn, level, asked, handed, refused>>
  BY RingIsPositive DEF AutonomyInv, AutonomyTypeOK, PushSignal
<1>2. signal \in Signals /\ ring \in Seq(Signals) /\ Len(ring) \in Nat /\ Len(ring) <= RingSize
      /\ RingSize \in Nat \ {0}
  BY <1>1, RingIsPositive, LenProperties DEF AutonomyTypeOK, Signals
<1>3. \A x \in SignalsIn(ring) \cup LeftTheRing : x.id <= signals
  <2>1. \A x \in SignalsIn(ring) \cup LeftTheRing : x.id \in 1 .. signals
    BY Zenon DEF AutonomyInv, NumbersAreKept, Ids
  <2>2. QED
    BY <1>1, <2>1
<1>4. /\ longer \in Seq(Signals) /\ Len(longer) = Len(ring) + 1
      /\ SignalsIn(longer) = SignalsIn(ring) \cup {signal}
      /\ InOrder(longer)
  <2>1. InOrder(ring) /\ \A x \in SignalsIn(ring) : x.id \in Nat
    BY <1>1, PlacesHoldSignals DEF AutonomyInv, RingInOrder, InOrder
  <2>2. \A x \in SignalsIn(ring) : x.id < signal.id
    BY <1>1, <1>3, <2>1
  <2>3. QED
    BY <1>2, <2>1, <2>2, AppendedSignal
<1>5. excess \in 0 .. Len(longer) /\ Len(longer) - excess <= RingSize
  BY <1>2, <1>4
<1> HIDE DEF longer, excess, out
<1>6. /\ ring' \in Seq(Signals) /\ Len(ring') <= RingSize
      /\ out \cup SignalsIn(ring') = SignalsIn(ring) \cup {signal}
      /\ out \subseteq Signals
      /\ InOrder(ring')
      /\ \A x \in out, y \in SignalsIn(ring') : x.id < y.id
  <2> DEFINE back == AfterFirst(longer, excess)
  <2>1. /\ back \in Seq(Signals) /\ Len(back) = Len(longer) - excess
        /\ out \cup SignalsIn(back) = SignalsIn(longer) /\ SignalsIn(longer) \subseteq Signals
        /\ InOrder(back) /\ \A x \in out, y \in SignalsIn(back) : x.id < y.id
    BY <1>4, <1>5, PartsOfSignals DEF out
  <2>2. ring' = back
    BY <1>1
  <2> HIDE DEF back
  <2>3. QED
    BY <1>4, <1>5, <2>1, <2>2
<1>7. AutonomyTypeOK'
  BY <1>1, <1>6 DEF AutonomyTypeOK
<1>8. SignalsIn(batch)' = SignalsIn(batch) /\ HandedSignals' = HandedSignals
      /\ LeftTheRing' = LeftTheRing \cup out
  BY <1>1 DEF SignalsIn, HandedSignals, LeftTheRing
<1>9. /\ \A x \in LeftTheRing : x.id < signals + 1 /\ x.id \in Nat
      /\ \A x \in LeftTheRing, y \in SignalsIn(ring) : x.id < y.id
  BY <1>1, <1>3, PlacesHoldSignals DEF AutonomyInv, RingInOrder
<1>10. \A x \in LeftTheRing, y \in out \cup SignalsIn(ring') : x.id < y.id
  BY <1>6, <1>9
<1>11. NumbersAreKept'
  <2>1. Ids(SignalsIn(ring)') \cup Ids(LeftTheRing') = Ids(SignalsIn(ring)) \cup Ids(LeftTheRing) \cup {signals + 1}
    <3>1. Ids({signal}) = {signals + 1}
      BY DEF Ids
    <3>2. Ids(out) \cup Ids(SignalsIn(ring')) = Ids(SignalsIn(ring)) \cup {signals + 1}
      <4> HIDE DEF signal
      <4>1. Ids(out \cup SignalsIn(ring')) = Ids(out) \cup Ids(SignalsIn(ring'))
        BY IdsOfUnion
      <4>2. Ids(SignalsIn(ring) \cup {signal}) = Ids(SignalsIn(ring)) \cup Ids({signal})
        BY IdsOfUnion
      <4>3. QED
        BY <1>6, <3>1, <4>1, <4>2
    <3>3. Ids(LeftTheRing') = Ids(LeftTheRing) \cup Ids(out)
      BY <1>8, IdsOfUnion
    <3>4. QED
      BY <3>2, <3>3
  <2>2. 1 .. signals' = (1 .. signals) \cup {signals + 1}
    BY <1>1
  <2>3. QED
    BY <2>1, <2>2 DEF AutonomyInv, NumbersAreKept, Ids
<1>12. PlacesAreDisjoint'
  <2>1. /\ SignalsIn(batch) \subseteq LeftTheRing /\ HandedSignals \subseteq LeftTheRing
        /\ refused \subseteq LeftTheRing
    BY DEF LeftTheRing
  <2>2. \A x \in LeftTheRing, y \in out : x.id # y.id
    BY <1>9, <1>10
  <2>3. \A A \in SUBSET LeftTheRing : Ids(A) \cap Ids(out) = {}
    BY <2>2 DEF Ids
  <2>4. Ids(dropped') = Ids(dropped) \cup Ids(out)
    BY <1>1 DEF Ids
  <2>5. /\ Ids(SignalsIn(batch)) \cap Ids(out) = {} /\ Ids(HandedSignals) \cap Ids(out) = {}
        /\ Ids(refused) \cap Ids(out) = {}
    BY <2>1, <2>3
  <2>6. PlacesAreDisjoint /\ refused' = refused
    BY <1>1 DEF AutonomyInv
  <2>7. QED
    BY <1>8, <2>4, <2>5, <2>6, Zenon DEF PlacesAreDisjoint
<1>13. RingInOrder'
  <2>1. \A s \in SignalsIn(ring'), old \in LeftTheRing' : old.id < s.id
    BY <1>6, <1>8, <1>10
  <2>2. QED
    BY <1>6, <2>1 DEF RingInOrder, InOrder, SignalsIn
<1>14. HandedUrgently'
  BY <1>1 DEF AutonomyInv, HandedUrgently
<1>15. QED
  BY <1>7, <1>11, <1>12, <1>13, <1>14 DEF AutonomyInv

(* tick_signal_drain: the oldest of the ring become the batch. *)
LEMMA DrainKeeps ==
  ASSUME AutonomyInv, Drains
  PROVE  AutonomyInv'
<1> DEFINE take == IF Len(ring) < BatchSize THEN Len(ring) ELSE BatchSize
<1>1. /\ AutonomyTypeOK /\ loopPC = "drain" /\ batch = <<>>
      /\ batch' = FirstOf(ring, take) /\ ring' = AfterFirst(ring, take)
      /\ loopPC' = IF take = 0 THEN "rotate" ELSE "submit"
      /\ asked' = {}
      /\ UNCHANGED <<turn, handed, refused, inbound>>
  BY DEF AutonomyInv, AutonomyTypeOK, Drains, Asks
<1>2. /\ ring \in Seq(Signals) /\ Len(ring) \in Nat /\ Len(ring) <= RingSize /\ InOrder(ring)
      /\ BatchSize \in Nat /\ RingSize \in Nat
  BY <1>1, RingIsPositive, LenProperties DEF AutonomyInv, AutonomyTypeOK, RingInOrder, InOrder
<1>3. take \in 0 .. Len(ring) /\ take <= BatchSize
  BY <1>2
<1> HIDE DEF take
<1>4. /\ batch' \in Seq(Signals) /\ Len(batch') = take
      /\ ring' \in Seq(Signals) /\ Len(ring') = Len(ring) - take
      /\ SignalsIn(batch') \cup SignalsIn(ring') = SignalsIn(ring)
      /\ InOrder(ring')
      /\ \A x \in SignalsIn(batch'), y \in SignalsIn(ring') : x.id < y.id
  BY <1>1, <1>2, <1>3, PartsOfSignals
<1>5. AutonomyTypeOK'
  <2>1. batch' # <<>> <=> take # 0
    BY <1>3, <1>4, EmptySeq
  <2>2. Len(ring') <= RingSize
    BY <1>2, <1>3, <1>4
  <2>3. loopPC' \in {"rotate", "submit"} /\ (loopPC' = "submit" <=> take # 0)
    BY <1>1
  <2>4. QED
    BY <1>1, <1>3, <1>4, <2>1, <2>2, <2>3 DEF AutonomyTypeOK, LoopPCs, inbound
<1>6. /\ HandedSignals' = HandedSignals /\ UNCHANGED <<signals, handed, refused, dropped>>
      /\ SignalsIn(batch) = {}
      /\ LeftTheRing' = LeftTheRing \cup SignalsIn(batch')
  BY <1>1, NoSignals DEF inbound, SignalsIn, HandedSignals, LeftTheRing
<1>7. NumbersAreKept'
  <2>1. Ids(SignalsIn(ring)') \cup Ids(LeftTheRing') = Ids(SignalsIn(ring)) \cup Ids(LeftTheRing)
    BY <1>4, <1>6 DEF Ids
  <2>2. QED
    BY <1>6, <2>1 DEF AutonomyInv, NumbersAreKept, Ids
<1>8. \A x \in LeftTheRing, y \in SignalsIn(ring) : x.id < y.id /\ x.id \in Nat /\ y.id \in Nat
  BY <1>1, PlacesHoldSignals DEF AutonomyInv, RingInOrder
<1>9. PlacesAreDisjoint'
  <2>1. HandedSignals \subseteq LeftTheRing /\ refused \subseteq LeftTheRing /\ dropped \subseteq LeftTheRing
    BY DEF LeftTheRing
  <2>2. \A A \in SUBSET LeftTheRing : Ids(SignalsIn(batch')) \cap Ids(A) = {}
    BY <1>4, <1>8 DEF Ids
  <2>3. /\ Ids(SignalsIn(batch')) \cap Ids(HandedSignals) = {}
        /\ Ids(SignalsIn(batch')) \cap Ids(refused) = {}
        /\ Ids(SignalsIn(batch')) \cap Ids(dropped) = {}
    BY <2>1, <2>2
  <2>4. PlacesAreDisjoint
    BY DEF AutonomyInv
  <2>5. SignalsIn(batch)' = SignalsIn(batch') /\ refused' = refused /\ dropped' = dropped
    BY <1>6 DEF SignalsIn
  <2>6. QED
    BY <1>6, <2>3, <2>4, <2>5, Zenon DEF PlacesAreDisjoint
<1>10. RingInOrder'
  <2>1. \A s \in SignalsIn(ring'), old \in LeftTheRing' : old.id < s.id
    BY <1>4, <1>6, <1>8
  <2>2. QED
    BY <1>4, <2>1 DEF RingInOrder, InOrder, SignalsIn
<1>11. HandedUrgently'
  BY <1>6 DEF AutonomyInv, HandedUrgently
<1>12. QED
  BY <1>5, <1>7, <1>9, <1>10, <1>11 DEF AutonomyInv

LEMMA RouteIsAPair ==
  ASSUME NEW s
  PROVE  \E agent : Route(s) \in {agent} \X {HighPriority, NormalPriority, LowPriority}
<1>1. \/ Route(s) = <<"incident_responder", HighPriority>>
      \/ Route(s) = <<"alert_triage", NormalPriority>>
      \/ Route(s) = <<"siem_analyst", LowPriority>>
  BY DEF Route
<1>2. QED
  BY <1>1

(* The batch's task is as urgent as its most severe signal. *)
LEMMA SubmitKeeps ==
  ASSUME AutonomyInv, SubmitsBatch
  PROVE  AutonomyInv'
<1> DEFINE worst == MostSevere(batch)
           task == Route(worst.score)
           given == {[signal |-> s, priority |-> task[2]] : s \in SignalsIn(batch)}
<1>1. /\ AutonomyTypeOK /\ loopPC = "submit" /\ batch \in Seq(Signals) /\ batch # <<>>
      /\ loopPC' = "rotate" /\ batch' = <<>> /\ SignalsIn(batch') = {} /\ batch' \in Seq(Signals)
      /\ Len(batch') <= BatchSize
      /\ UNCHANGED <<ring, turn, inbound>>
  BY RingIsPositive, NoSignals DEF AutonomyInv, AutonomyTypeOK, SubmitsBatch
<1>2. worst \in SignalsIn(batch) /\ \A y \in SignalsIn(batch) : y.score <= worst.score
  BY <1>1, MostSevereIsOne
<1>3. SignalsIn(batch) \subseteq Signals
  BY <1>1, LenProperties, ElementOfSeq DEF SignalsIn
<1>4. /\ \A y \in SignalsIn(batch) : task[2] <= Route(y.score)[2]
      /\ task[2] \in {HighPriority, NormalPriority, LowPriority}
  BY <1>2, <1>3, RouteIsMonotone DEF Signals
<1>5. \/ handed' = handed \cup given /\ refused' = refused
      \/ handed' = handed /\ refused' = refused \cup SignalsIn(batch)
  BY DEF SubmitsBatch
<1>6. asked' \subseteq Loaded \X {HighPriority, NormalPriority, LowPriority}
  <2>1. \E agent : task \in {agent} \X {HighPriority, NormalPriority, LowPriority}
    BY RouteIsAPair
  <2>2. asked' = {u \in {task} : u[1] \in Loaded}
    BY DEF SubmitsBatch, Asks
  <2> HIDE DEF task
  <2>3. QED
    BY <2>1, <2>2
<1>7. /\ given \subseteq [signal : Signals, priority : {HighPriority, NormalPriority, LowPriority}]
      /\ {h.signal : h \in given} = SignalsIn(batch)
      /\ \A h \in given : h.priority <= Route(h.signal.score)[2]
  <2> HIDE DEF task
  <2>1. \A s \in SignalsIn(batch) : [signal |-> s, priority |-> task[2]] \in given
    OBVIOUS
  <2>2. \A h \in given : \E s \in SignalsIn(batch) : h = [signal |-> s, priority |-> task[2]]
    OBVIOUS
  <2> HIDE DEF given
  <2>3. given \subseteq [signal : Signals, priority : {HighPriority, NormalPriority, LowPriority}]
    BY <1>3, <1>4, <2>2
  <2>4. \A h \in given : h.signal \in SignalsIn(batch) /\ h.priority <= Route(h.signal.score)[2]
    BY <1>4, <2>2
  <2>5. \A s \in SignalsIn(batch) : \E h \in given : h.signal = s
    BY <2>1
  <2>6. {h.signal : h \in given} = SignalsIn(batch)
    BY <2>4, <2>5
  <2>7. QED
    BY <2>3, <2>4, <2>6
<1> HIDE DEF given, task, worst
<1>8. AutonomyTypeOK'
  <2>1. handed' \subseteq [signal : Signals, priority : {HighPriority, NormalPriority, LowPriority}]
        /\ refused' \subseteq Signals
    BY <1>1, <1>3, <1>5, <1>7 DEF AutonomyTypeOK
  <2>2. QED
    BY <1>1, <1>6, <2>1 DEF AutonomyTypeOK, LoopPCs, inbound
<1>9. /\ \/ HandedSignals' = HandedSignals \cup SignalsIn(batch) /\ refused' = refused
         \/ HandedSignals' = HandedSignals /\ refused' = refused \cup SignalsIn(batch)
      /\ UNCHANGED <<ring, signals, dropped>>
  BY <1>1, <1>5, <1>7 DEF HandedSignals, inbound
<1>10. LeftTheRing' = LeftTheRing /\ SignalsIn(ring)' = SignalsIn(ring) /\ SignalsIn(batch)' = {}
  BY <1>1, <1>9 DEF LeftTheRing, SignalsIn
<1>11. NumbersAreKept' /\ RingInOrder'
  BY <1>9, <1>10 DEF AutonomyInv, NumbersAreKept, RingInOrder, Ids
<1>12. PlacesAreDisjoint'
  <2>1. Ids({}) = {} /\ \A A, B : Ids(A \cup B) = Ids(A) \cup Ids(B)
    BY DEF Ids
  <2>2. PlacesAreDisjoint
    BY DEF AutonomyInv
  <2>3. CASE HandedSignals' = HandedSignals \cup SignalsIn(batch) /\ refused' = refused
    <3>1. Ids(HandedSignals') = Ids(HandedSignals) \cup Ids(SignalsIn(batch))
      BY <2>1, <2>3
    <3>2. QED
      BY <1>9, <1>10, <2>1, <2>2, <2>3, <3>1 DEF PlacesAreDisjoint
  <2>4. CASE HandedSignals' = HandedSignals /\ refused' = refused \cup SignalsIn(batch)
    <3>1. Ids(refused') = Ids(refused) \cup Ids(SignalsIn(batch))
      BY <2>1, <2>4
    <3>2. QED
      BY <1>9, <1>10, <2>1, <2>2, <2>4, <3>1 DEF PlacesAreDisjoint
  <2>5. QED
    BY <1>9, <2>3, <2>4
<1>13. HandedUrgently'
  BY <1>5, <1>7 DEF AutonomyInv, HandedUrgently
<1>14. QED
  BY <1>8, <1>11, <1>12, <1>13 DEF AutonomyInv

LEMMA LoopStepKeeps ==
  ASSUME AutonomyInv, LoopStep
  PROVE  AutonomyInv'
BY QuietStepKeeps, DrainKeeps, SubmitKeeps DEF LoopStep

(* A number that was given out is at exactly one of the five places.       *)
LEMMA OnePlaceEach ==
  ASSUME AutonomyInv
  PROVE  SignalsOnceInOrder
<1> DEFINE place == <<SignalsIn(ring), SignalsIn(batch), HandedSignals, refused, dropped>>
           places(id) == {p \in {1, 2, 3, 4, 5} : id \in Ids(place[p])}
           left == Ids(SignalsIn(batch)) \cup Ids(HandedSignals) \cup Ids(refused) \cup Ids(dropped)
<1>1. /\ place[1] = SignalsIn(ring) /\ place[2] = SignalsIn(batch) /\ place[3] = HandedSignals
      /\ place[4] = refused /\ place[5] = dropped
  OBVIOUS
<1>2. Ids(LeftTheRing) = left
  <2>1. /\ Ids(LeftTheRing) = Ids(SignalsIn(batch) \cup HandedSignals \cup refused) \cup Ids(dropped)
        /\ Ids(SignalsIn(batch) \cup HandedSignals \cup refused)
             = Ids(SignalsIn(batch) \cup HandedSignals) \cup Ids(refused)
        /\ Ids(SignalsIn(batch) \cup HandedSignals) = Ids(SignalsIn(batch)) \cup Ids(HandedSignals)
    BY IdsOfUnion DEF LeftTheRing
  <2>2. QED
    BY <2>1
<1>3. Ids(SignalsIn(ring)) \cap left = {}
  <2>1. \A s \in SignalsIn(ring), old \in LeftTheRing : s.id # old.id
    BY PlacesHoldSignals DEF AutonomyInv, RingInOrder
  <2>2. Ids(SignalsIn(ring)) \cap Ids(LeftTheRing) = {}
    BY <2>1 DEF Ids
  <2>3. QED
    BY <1>2, <2>2
<1>4. ASSUME NEW id \in 1 .. signals
      PROVE  Cardinality(places(id)) = 1
  <2> DEFINE inRing == id \in Ids(SignalsIn(ring))
             inBatch == id \in Ids(SignalsIn(batch))
             inHanded == id \in Ids(HandedSignals)
             inRefused == id \in Ids(refused)
             inDropped == id \in Ids(dropped)
  <2>1. inRing \/ inBatch \/ inHanded \/ inRefused \/ inDropped
    BY <1>2 DEF AutonomyInv, NumbersAreKept
  <2>2. /\ inRing => ~inBatch /\ ~inHanded /\ ~inRefused /\ ~inDropped
        /\ inBatch => ~inHanded /\ ~inRefused /\ ~inDropped
        /\ inHanded => ~inRefused /\ ~inDropped
        /\ inRefused => ~inDropped
    BY <1>3 DEF AutonomyInv, PlacesAreDisjoint
  <2>3. \A p \in {1, 2, 3, 4, 5} : p \in places(id) <=>
          IF p = 1 THEN inRing ELSE IF p = 2 THEN inBatch ELSE IF p = 3 THEN inHanded
          ELSE IF p = 4 THEN inRefused ELSE inDropped
    BY <1>1
  <2>4. places(id) \subseteq {1, 2, 3, 4, 5}
    OBVIOUS
  <2> HIDE DEF places, inRing, inBatch, inHanded, inRefused, inDropped
  <2>5. \E p : places(id) = {p}
    <3>1. CASE inRing
      <4>1. places(id) = {1}
        BY <2>2, <2>3, <2>4, <3>1
      <4>2. QED
        BY <4>1
    <3>2. CASE inBatch
      <4>1. places(id) = {2}
        BY <2>2, <2>3, <2>4, <3>2
      <4>2. QED
        BY <4>1
    <3>3. CASE inHanded
      <4>1. places(id) = {3}
        BY <2>2, <2>3, <2>4, <3>3
      <4>2. QED
        BY <4>1
    <3>4. CASE inRefused
      <4>1. places(id) = {4}
        BY <2>2, <2>3, <2>4, <3>4
      <4>2. QED
        BY <4>1
    <3>5. CASE inDropped
      <4>1. places(id) = {5}
        BY <2>2, <2>3, <2>4, <3>5
      <4>2. QED
        BY <4>1
    <3>6. QED
      BY <2>1, <3>1, <3>2, <3>3, <3>4, <3>5
  <2>6. QED
    BY <2>5, FS_Singleton
<1>5. QED
  BY <1>4 DEF AutonomyInv, RingInOrder, HandedUrgently, SignalsOnceInOrder, LeftTheRing

-----------------------------------------------------------------------------
(* -------------------------------- monitors ------------------------------ *)

FileStep ==
  \/ FilesStart \/ FilesStop \/ FilesSignal \/ FilesJoin
  \/ \E r \in Roots : WatchHead(r) \/ ChangeArrives(r) \/ WaitFails(r) \/ WatchLeaves(r) \/ WatchReports(r)
EventStep == EventsStart \/ EventsStop \/ \E c \in Channels : EventArrives(c) \/ EventDelivered(c)
PacketStep == PacketsStart \/ PacketsStop \/ PacketsJoin \/ CaptureEnds

LEMMA MonitorStepKeeps ==
  ASSUME MonitorTypeOK, FileStep \/ EventStep \/ PacketStep \/ UNCHANGED monitorVars
  PROVE  MonitorTypeOK'
<1> USE DEF MonitorTypeOK, fileVars, eventVars, packetVars
<1>1. CASE FilesStart \/ FilesStop \/ FilesSignal \/ FilesJoin
  BY <1>1 DEF FilesStart, FilesStop, FilesSignal, FilesJoin, WatcherPCs
<1>2. CASE \E r \in Roots : \/ WatchHead(r) \/ ChangeArrives(r) \/ WaitFails(r)
                            \/ WatchLeaves(r) \/ WatchReports(r)
  BY <1>2 DEF WatchHead, ChangeArrives, WaitFails, WatchLeaves, WatchReports, GotoWatch, WatcherPCs
<1>3. CASE EventStep
  BY <1>3 DEF EventStep, EventsStart, EventsStop, EventArrives, EventDelivered
<1>4. CASE PacketStep
  BY <1>4 DEF PacketStep, PacketsStart, PacketsStop, PacketsJoin, CaptureEnds, CapturePCs
<1>5. CASE UNCHANGED monitorVars
  BY <1>5 DEF monitorVars
<1>6. QED
  BY <1>1, <1>2, <1>3, <1>4, <1>5 DEF FileStep
-----------------------------------------------------------------------------
(* ------------------------------- dashboard ------------------------------ *)

(* What can be in config.json. *)
Blocks == {"zero"} \cup UNION {{cfg[i] : i \in DOMAIN cfg} : cfg \in Configs}

(* Whatever saves cross, the file is of the burst they belong to; as long  *)
(* as there is one at a time, it is what was written of that one.          *)
DashboardInv ==
  /\ DashboardTypeOK
  /\ \A c \in Saving : conn[c].cfg \in burst
  /\ Saving # {} \/ configFile # NoConfig => configFile \in Seq(Blocks) /\ FromBurst
  /\ ~crossed =>
       /\ \A c, d \in Saving : c = d
       /\ \A c \in Saving, cfg \in burst :
            conn[c].cfg = cfg /\ configFile = SubSeq(cfg, 1, conn[c].written)
       /\ Saving = {} => \A cfg \in burst : BeginningOf(cfg) /\ (~short => configFile = cfg)


LEMMA ConfigIsASeq ==
  ASSUME NEW cfg \in Configs
  PROVE  /\ Len(cfg) \in Nat \ {0} /\ DOMAIN cfg = 1 .. Len(cfg)
         /\ cfg \in Seq({cfg[i] : i \in DOMAIN cfg})
BY ConfigsAreTexts, EmptySeq, LenProperties

(* Writing one block more of a file makes it one block longer.             *)
LEMMA PutIsNext ==
  ASSUME NEW cfg \in Configs, NEW n \in Nat, n < Len(cfg)
  PROVE  Put(SubSeq(cfg, 1, n), n + 1, cfg[n + 1]) = SubSeq(cfg, 1, n + 1)
<1> DEFINE S == {cfg[i] : i \in DOMAIN cfg}
           file == SubSeq(cfg, 1, n)
           longer == SubSeq(cfg, 1, n + 1)
<1>1. Len(cfg) \in Nat /\ DOMAIN cfg = 1 .. Len(cfg) /\ \A i \in 1 .. Len(cfg) : cfg[i] \in S
  BY ConfigIsASeq
<1> HIDE DEF S
<1>2. /\ file \in Seq(S) /\ Len(file) = n
      /\ \A i \in 1 .. n : file[i] = cfg[i]
  <2>1. \A i \in 1 .. n : cfg[i] \in S
    BY <1>1
  <2>2. \A i \in Int : 1 + i - 1 = i
    OBVIOUS
  <2>3. Len(file) = (IF 1 <= n THEN n - 1 + 1 ELSE 0) /\ file \in Seq(S)
        /\ \A i \in 1 .. n - 1 + 1 : file[i] = cfg[1 + i - 1]
    BY <2>1, SubSeqProperties
  <2> HIDE DEF file
  <2>4. QED
    BY <2>2, <2>3
<1>3. /\ longer \in Seq(S) /\ Len(longer) = n + 1
      /\ \A i \in 1 .. n + 1 : longer[i] = cfg[i]
  <2>1. \A i \in 1 .. n + 1 : cfg[i] \in S
    BY <1>1
  <2>2. \A i \in Int : 1 + i - 1 = i
    OBVIOUS
  <2>3. Len(longer) = (IF 1 <= n + 1 THEN n + 1 - 1 + 1 ELSE 0) /\ longer \in Seq(S)
        /\ \A i \in 1 .. n + 1 - 1 + 1 : longer[i] = cfg[1 + i - 1]
    BY <2>1, SubSeqProperties
  <2> HIDE DEF longer
  <2>4. QED
    BY <2>2, <2>3
<1> HIDE DEF file, longer
<1>4. longer = [k \in 1 .. n + 1 |-> cfg[k]]
  <2>1. longer = [k \in 1 .. Len(longer) |-> longer[k]]
    BY <1>3, LenProperties
  <2>2. QED
    BY <1>3, <2>1
<1>5. Put(file, n + 1, cfg[n + 1]) = [k \in 1 .. n + 1 |-> cfg[k]]
  <2>1. n + 1 > Len(file)
    BY <1>2
  <2>2. Put(file, n + 1, cfg[n + 1]) =
          [k \in 1 .. n + 1 |-> IF k = n + 1 THEN cfg[n + 1] ELSE IF k <= n THEN file[k] ELSE "zero"]
    BY <1>2, <2>1 DEF Put
  <2>3. \A k \in 1 .. n + 1 :
          (IF k = n + 1 THEN cfg[n + 1] ELSE IF k <= n THEN file[k] ELSE "zero") = cfg[k]
    BY <1>2
  <2>4. QED
    BY <2>2, <2>3
<1>6. QED
  BY <1>4, <1>5 DEF file, longer

(* The beginning of a configuration is as long as it says. *)
LEMMA BeginningIsOfIt ==
  ASSUME NEW cfg \in Configs, NEW n \in Nat, n <= Len(cfg)
  PROVE  Len(SubSeq(cfg, 1, n)) = n
<1> DEFINE S == {cfg[i] : i \in DOMAIN cfg}
<1>1. Len(cfg) \in Nat /\ DOMAIN cfg = 1 .. Len(cfg) /\ \A i \in 1 .. Len(cfg) : cfg[i] \in S
  BY ConfigIsASeq
<1> HIDE DEF S
<1>2. \A i \in 1 .. n : cfg[i] \in S
  BY <1>1
<1>3. Len(SubSeq(cfg, 1, n)) = IF 1 <= n THEN n - 1 + 1 ELSE 0
  BY <1>2, SubSeqProperties
<1>4. QED
  BY <1>3

(* A configuration is a sequence of blocks, and the beginning of itself.   *)
LEMMA ConfigIsOfItself ==
  ASSUME NEW cfg \in Configs
  PROVE  cfg \in Seq(Blocks) /\ SubSeq(cfg, 1, Len(cfg)) = cfg
<1> DEFINE S == {cfg[i] : i \in DOMAIN cfg}
<1>1. cfg \in Seq(S) /\ S \subseteq Blocks
  BY ConfigIsASeq DEF Blocks
<1> HIDE DEF S
<1>2. QED
  BY <1>1, SeqMonotonic, SubSeqFull

(* A block put into a file of blocks makes a file of blocks. *)
LEMMA PutIsAFile ==
  ASSUME NEW file \in Seq(Blocks), NEW i \in Nat \ {0}, NEW b \in Blocks
  PROVE  /\ Put(file, i, b) \in Seq(Blocks)
         /\ \A k \in DOMAIN Put(file, i, b) :
              \/ k = i /\ Put(file, i, b)[k] = b
              \/ k \in DOMAIN file /\ Put(file, i, b)[k] = file[k]
              \/ Put(file, i, b)[k] = "zero"
<1> DEFINE n == IF i > Len(file) THEN i ELSE Len(file)
           s == [k \in 1 .. n |-> IF k = i THEN b ELSE IF k <= Len(file) THEN file[k] ELSE "zero"]
<1>1. /\ Len(file) \in Nat /\ DOMAIN file = 1 .. Len(file) /\ n \in Nat
      /\ \A k \in 1 .. Len(file) : file[k] \in Blocks
  BY LenProperties
<1>2. Put(file, i, b) = s
  BY DEF Put
<1> HIDE DEF n
<1>3. /\ DOMAIN s = 1 .. n
      /\ \A k \in 1 .. n : s[k] = IF k = i THEN b ELSE IF k <= Len(file) THEN file[k] ELSE "zero"
  OBVIOUS
<1>a. \A k \in 1 .. n : k <= Len(file) => k \in DOMAIN file
  BY <1>1
<1> HIDE DEF s
<1>b. \A k \in 1 .. n : \/ k = i /\ s[k] = b
                        \/ k \in DOMAIN file /\ s[k] = file[k]
                        \/ s[k] = "zero"
  BY <1>3, <1>a
<1>4. \A k \in 1 .. n : s[k] \in Blocks
  BY <1>1, <1>b DEF Blocks
<1>5. s \in [1 .. n -> Blocks]
  <2>1. s = [k \in 1 .. n |-> s[k]]
    BY DEF s
  <2>2. QED
    BY <1>4, <2>1
<1>6. s \in Seq(Blocks)
  BY <1>1, <1>5, SeqDef
<1>7. QED
  BY <1>2, <1>3, <1>b, <1>6

LEMMA DashboardInitially == DashboardInit => DashboardInv
<1> SUFFICES ASSUME DashboardInit PROVE DashboardInv
  OBVIOUS
<1>1. \A c \in Conns : conn[c] = NoConn /\ NoConn.at = "none" /\ [NoConn EXCEPT !.at = "none"] = NoConn
  BY DEF DashboardInit, NoConn
<1>2. Saving = {}
  BY <1>1 DEF Saving
<1>3. conn \in [Conns -> [at : {"none", "request", "saving", "command"},
                        cfg : Configs \cup {NoConfig}, written : Nat]]
  BY DEF DashboardInit, NoConn
<1>4. DashboardTypeOK
  BY <1>1, <1>3 DEF DashboardInit, DashboardTypeOK
<1>5. \A cfg \in burst : cfg \in Configs /\ configFile = cfg
  BY DEF DashboardInit
<1>6. \A cfg \in burst : BeginningOf(cfg)
  BY <1>5, ConfigIsOfItself DEF BeginningOf
<1>7. configFile # NoConfig => configFile \in Seq(Blocks) /\ FromBurst
  BY ConfigIsOfItself DEF DashboardInit, FromBurst
<1>8. QED
  BY <1>2, <1>4, <1>5, <1>6, <1>7 DEF DashboardInv

(* The writer, the server and what changes nothing. *)
OtherDashboardStep ==
  \/ WriterStep \/ WriterStarts \/ WriterStops \/ WriterJoins
  \/ ServerStarts \/ ServerStops \/ ServerCloses \/ ServerJoins
  \/ AcceptorHead \/ AcceptFails
  \/ UNCHANGED dashboardVars

LEMMA OtherDashboardStepKeeps ==
  ASSUME DashboardInv, OtherDashboardStep
  PROVE  DashboardInv'
<1> USE DEF writerVars, acceptVars, configVars, quietFiles
<1>1. UNCHANGED <<conn, configVars>>
  BY DEF OtherDashboardStep, WriterStep, WriterLeaves, WriterOpens, WriterSkips, WriterCloses,
         WriterSleeps, WriterAt, WriterStarts, WriterStops, WriterJoins, ServerStarts, ServerStops,
         ServerCloses, ServerJoins, AcceptorHead, AcceptFails, dashboardVars
<1>2. /\ writerRunning' \in BOOLEAN /\ serverRunning' \in BOOLEAN /\ listening' \in BOOLEAN
      /\ writer' \in {"none", "head", "writing", "sleep", "done"}
      /\ acceptor' \in {"none", "head", "accept", "done"}
  BY DEF DashboardInv, DashboardTypeOK,
         OtherDashboardStep, WriterStep, WriterLeaves, WriterOpens, WriterSkips, WriterCloses,
         WriterSleeps, WriterAt, WriterStarts, WriterStops, WriterJoins, ServerStarts, ServerStops,
         ServerCloses, ServerJoins, AcceptorHead, AcceptFails, dashboardVars
<1>3. DashboardTypeOK'
  BY <1>1, <1>2 DEF DashboardInv, DashboardTypeOK
<1>4. QED
  BY <1>1, <1>3 DEF DashboardInv, Saving, FromBurst, BeginningOf

(* The connections: what each saves is its own until it is written.        *)
ConnRecords == [at : {"none", "request", "saving", "command"},
                cfg : Configs \cup {NoConfig}, written : Nat]
ConnOK(k) ==
  IF k.at = "saving" THEN k.cfg \in Configs /\ k.written < Len(k.cfg)
                     ELSE k = [NoConn EXCEPT !.at = k.at]

LEMMA ConnRecordStep ==
  ASSUME DashboardTypeOK, NEW c \in Conns, NEW k \in ConnRecords, ConnOK(k),
         conn' = [conn EXCEPT ![c] = k],
         acceptor' \in {"none", "head", "accept", "done"},
         burst' \subseteq Configs, crossed' \in BOOLEAN, short' \in BOOLEAN,
         UNCHANGED <<writerVars, serverRunning, listening>>
  PROVE  DashboardTypeOK' /\ conn'[c] = k /\ \A d \in Conns \ {c} : conn'[d] = conn[d]
<1> USE DEF writerVars
<1>1. conn \in [Conns -> ConnRecords]
  BY DEF DashboardTypeOK, ConnRecords
<1>2. /\ conn' \in [Conns -> ConnRecords] /\ conn'[c] = k
      /\ \A d \in Conns \ {c} : conn'[d] = conn[d]
  BY <1>1
<1>3. \A d \in Conns : ConnOK(conn[d])
  BY DEF DashboardTypeOK, ConnOK
<1>4. \A d \in Conns : ConnOK(conn'[d])
  BY <1>2, <1>3
<1>5. QED
  BY <1>2, <1>4 DEF DashboardTypeOK, ConnRecords, ConnOK

LEMMA ConnStepKeeps ==
  ASSUME DashboardInv, NEW c \in Conns, Accepts(c) \/ ConnStep(c)
  PROVE  DashboardInv'
<1> USE DEF writerVars, acceptVars, configVars, quietFiles, quietThreads
<1>1. /\ DashboardTypeOK /\ conn \in [Conns -> ConnRecords] /\ \A d \in Conns : ConnOK(conn[d])
      /\ acceptor \in {"none", "head", "accept", "done"}
      /\ burst \subseteq Configs /\ crossed \in BOOLEAN /\ short \in BOOLEAN
  BY DEF DashboardInv, DashboardTypeOK, ConnRecords, ConnOK
<1>2. /\ NoConn \in ConnRecords /\ ConnOK(NoConn) /\ NoConn.at = "none"
      /\ \A at \in {"request", "command"} :
           LET k == [NoConn EXCEPT !.at = at] IN k \in ConnRecords /\ ConnOK(k) /\ k.at = at
  BY DEF NoConn, ConnRecords, ConnOK
<1>3. ASSUME NEW k \in ConnRecords, ConnOK(k), k.at # "saving", conn[c].at # "saving",
             conn' = [conn EXCEPT ![c] = k],
             acceptor' \in {"none", "head", "accept", "done"},
             UNCHANGED <<writerVars, serverRunning, listening, configVars>>
      PROVE  DashboardInv'
  <2>1. /\ DashboardTypeOK' /\ conn'[c] = k /\ \A d \in Conns \ {c} : conn'[d] = conn[d]
    BY <1>1, <1>3, ConnRecordStep
  <2>2. Saving' = Saving /\ c \notin Saving
    BY <1>3, <2>1 DEF Saving
  <2>3. QED
    BY <1>3, <2>1, <2>2 DEF DashboardInv, Saving, FromBurst, BeginningOf
<1>4. CASE Accepts(c)
  <2>1. conn' = [conn EXCEPT ![c] = [NoConn EXCEPT !.at = "request"]] /\ conn[c] = NoConn
    BY <1>1, <1>4 DEF Accepts, ConnRecords
  <2>2. acceptor' = "head" /\ UNCHANGED <<writerVars, serverRunning, listening, configVars>>
    BY <1>4 DEF Accepts
  <2>3. QED
    BY <1>2, <1>3, <2>1, <2>2
<1>5. CASE Answers(c) \/ CommandIsOver(c)
  <2>1. conn' = [conn EXCEPT ![c] = NoConn] /\ conn[c].at \in {"request", "command"}
    BY <1>5 DEF Answers, CommandIsOver, ConnEnds
  <2>2. UNCHANGED <<acceptor, writerVars, serverRunning, listening, configVars>>
    BY <1>5 DEF Answers, CommandIsOver
  <2>3. QED
    BY <1>1, <1>2, <1>3, <2>1, <2>2
<1>6. CASE CommandBegins(c)
  <2>1. conn[c] = [NoConn EXCEPT !.at = "request"]
    BY <1>1, <1>6 DEF CommandBegins, ConnOK
  <2>2. conn' = [conn EXCEPT ![c] = [NoConn EXCEPT !.at = "command"]]
    BY <1>1, <1>6, <2>1 DEF CommandBegins, NoConn, ConnRecords
  <2>3. UNCHANGED <<acceptor, writerVars, serverRunning, listening, configVars>>
    BY <1>6 DEF CommandBegins
  <2>4. QED
    BY <1>1, <1>2, <1>3, <1>6, <2>2, <2>3 DEF CommandBegins
<1>7. CASE \E cfg \in Configs : SaveOpens(c, cfg)
  <2>1. PICK cfg \in Configs : SaveOpens(c, cfg)
    BY <1>7
  <2> DEFINE k == [at |-> "saving", cfg |-> cfg, written |-> 0]
  <2>2. k \in ConnRecords /\ ConnOK(k) /\ k.at = "saving" /\ k.cfg = cfg /\ k.written = 0
    <3>1. 0 \in Nat /\ 0 < Len(cfg)
      <4>1. \A l \in Nat \ {0} : 0 < l
        OBVIOUS
      <4>2. QED
        BY <4>1, ConfigIsASeq
    <3>2. QED
      BY <3>1 DEF ConnRecords, ConnOK
  <2>3. /\ conn[c].at = "request" /\ conn' = [conn EXCEPT ![c] = k] /\ configFile' = <<>>
        /\ burst' = {cfg} \cup (IF Saving = {} THEN {} ELSE burst)
        /\ crossed' = (Saving # {}) /\ short' = (Saving # {} /\ short)
        /\ UNCHANGED <<acceptor, writerVars, serverRunning, listening>>
    BY <2>1 DEF SaveOpens, SaveBegins
  <2> HIDE DEF k
  <2>4. DashboardTypeOK' /\ conn'[c] = k /\ \A d \in Conns \ {c} : conn'[d] = conn[d]
    BY <1>1, <2>2, <2>3, ConnRecordStep
  <2>5. Saving' = Saving \cup {c} /\ \A d \in Saving : d # c /\ conn'[d] = conn[d]
    BY <2>2, <2>3, <2>4 DEF Saving
  <2>6. \A d \in Saving' : conn'[d].cfg \in burst'
    <3>1. \A d \in Saving : conn[d].cfg \in burst'
      BY <2>3 DEF DashboardInv
    <3>2. QED
      BY <2>2, <2>3, <2>4, <2>5, <3>1
  <2>7. configFile' \in Seq(Blocks) /\ FromBurst'
    BY <2>3, EmptySeq DEF FromBurst
  <2>8. ASSUME ~crossed'
        PROVE  /\ \A d, e \in Saving' : d = e
               /\ \A d \in Saving', g \in burst' :
                    conn'[d].cfg = g /\ configFile' = SubSeq(g, 1, conn'[d].written)
    <3>1. Saving' = {c} /\ burst' = {cfg}
      BY <2>3, <2>5, <2>8
    <3>2. SubSeq(cfg, 1, 0) = <<>>
      BY SubSeqEmpty
    <3>3. QED
      BY <2>2, <2>3, <2>4, <3>1, <3>2
  <2>9. QED
    BY <2>4, <2>5, <2>6, <2>7, <2>8 DEF DashboardInv
<1>8. CASE SaveWrites(c)
  <2> DEFINE cfg == conn[c].cfg
             n == conn[c].written
             k == IF n + 1 = Len(cfg) THEN NoConn ELSE [conn[c] EXCEPT !.written = n + 1]
  <2>1. /\ conn[c].at = "saving" /\ cfg \in Configs /\ n \in Nat /\ n < Len(cfg)
        /\ configFile' = Put(configFile, n + 1, cfg[n + 1])
        /\ UNCHANGED <<acceptor, writerVars, serverRunning, listening, burst, crossed, short>>
    BY <1>1, <1>8 DEF SaveWrites, ConnRecords, ConnOK
  <2>2. conn' = [conn EXCEPT ![c] = k]
    BY <1>1, <1>8 DEF SaveWrites, ConnEnds, ConnRecords
  <2>3. n + 1 # Len(cfg) =>
          /\ k \in ConnRecords /\ ConnOK(k) /\ k.at = "saving" /\ k.cfg = cfg /\ k.written = n + 1
    BY <1>1, <2>1, ConfigIsASeq DEF ConnRecords, ConnOK
  <2>4. n + 1 = Len(cfg) => k = NoConn
    OBVIOUS
  <2>5. k \in ConnRecords /\ ConnOK(k)
    BY <1>2, <2>3, <2>4
  <2>6. c \in Saving /\ cfg \in burst
    BY <2>1 DEF Saving, DashboardInv
  <2> HIDE DEF k
  <2>7. DashboardTypeOK' /\ conn'[c] = k /\ \A d \in Conns \ {c} : conn'[d] = conn[d]
    BY <1>1, <2>1, <2>2, <2>5, ConnRecordStep
  <2>8. \A d \in Saving' : conn'[d].cfg \in burst'
    BY <1>2, <2>1, <2>3, <2>4, <2>6, <2>7 DEF Saving, DashboardInv
  <2>9. configFile' \in Seq(Blocks) /\ FromBurst'
    <3>1. configFile \in Seq(Blocks) /\ FromBurst
      BY <2>6 DEF DashboardInv
    <3>2. n + 1 \in Nat \ {0} /\ n + 1 \in DOMAIN cfg /\ cfg[n + 1] \in Blocks
      BY <2>1, ConfigIsASeq DEF Blocks
    <3> DEFINE b == cfg[n + 1]
               m == n + 1
               file == configFile
               longer == Put(file, m, b)
    <3>a. configFile' = longer /\ b \in Blocks /\ m \in Nat \ {0} /\ file \in Seq(Blocks)
      BY <2>1, <3>1, <3>2
    <3>c. configFile = file
      OBVIOUS
    <3> HIDE DEF b, n, m, file
    <3>b. /\ longer \in Seq(Blocks)
          /\ \A j \in DOMAIN longer :
               \/ j = m /\ longer[j] = b
               \/ j \in DOMAIN file /\ longer[j] = file[j]
               \/ longer[j] = "zero"
      BY <3>a, PutIsAFile
    <3> HIDE DEF longer
    <3>3. \A j \in DOMAIN configFile' :
            \/ j = m /\ configFile'[j] = b
            \/ j \in DOMAIN configFile /\ configFile'[j] = configFile[j]
            \/ configFile'[j] = "zero"
      BY <3>a, <3>b, <3>c
    <3>4. configFile' \in Seq(Blocks)
      BY <3>a, <3>b
    <3>5. \A j \in DOMAIN configFile' :
            configFile'[j] = "zero" \/ \E g \in burst : j \in DOMAIN g /\ configFile'[j] = g[j]
      BY <2>6, <3>1, <3>2, <3>3 DEF FromBurst, b, m
    <3>6. QED
      BY <2>1, <3>4, <3>5 DEF FromBurst
  <2>10. ASSUME ~crossed'
        PROVE  /\ \A e, d \in Saving' : e = d
               /\ \A d \in Saving', g \in burst' :
                    conn'[d].cfg = g /\ configFile' = SubSeq(g, 1, conn'[d].written)
               /\ Saving' = {} => \A g \in burst' : BeginningOf(g)' /\ (~short' => configFile' = g)
    <3>1. /\ \A d \in Saving : d = c
          /\ \A g \in burst : g = cfg
          /\ configFile = SubSeq(cfg, 1, n)
      BY <2>1, <2>6, <2>10 DEF DashboardInv
    <3>2. configFile' = SubSeq(cfg, 1, n + 1)
      BY <2>1, <3>1, PutIsNext
    <3>3. Saving' \subseteq {c}
      BY <2>7, <3>1 DEF Saving
    <3>4. CASE n + 1 = Len(cfg)
      <4>1. Saving' = {}
        BY <1>2, <2>4, <2>7, <3>3, <3>4 DEF Saving
      <4>2. configFile' = cfg /\ \A g \in burst' : g = cfg
        BY <2>1, <3>1, <3>2, <3>4, ConfigIsOfItself
      <4>3. \A g \in burst' : configFile' = g /\ g \in Configs
        BY <2>1, <4>2
      <4> HIDE DEF cfg, n
      <4>4. \A g \in burst' : configFile' = SubSeq(g, 1, Len(configFile'))
        BY <4>3, ConfigIsOfItself
      <4>5. QED
        BY <4>1, <4>3, <4>4 DEF BeginningOf
    <3>5. CASE n + 1 # Len(cfg)
      <4>1. c \in Saving'
        BY <2>3, <2>7, <3>5 DEF Saving
      <4>2. conn'[c].cfg = cfg /\ configFile' = SubSeq(cfg, 1, conn'[c].written)
        BY <2>1, <2>3, <2>7, <3>2, <3>5
      <4>3. QED
        BY <2>1, <3>1, <3>3, <4>1, <4>2
    <3>6. QED
      BY <3>4, <3>5
  <2>11. QED
    BY <2>7, <2>8, <2>9, <2>10 DEF DashboardInv
<1>9. CASE SaveFails(c)
  <2>1. /\ conn[c].at = "saving" /\ conn' = [conn EXCEPT ![c] = NoConn] /\ short' = TRUE
        /\ UNCHANGED <<acceptor, writerVars, serverRunning, listening, configFile, burst, crossed>>
    BY <1>9 DEF SaveFails, ConnEnds
  <2>2. DashboardTypeOK' /\ conn'[c] = NoConn /\ \A d \in Conns \ {c} : conn'[d] = conn[d]
    BY <1>1, <1>2, <2>1, ConnRecordStep
  <2>3. c \in Saving /\ Saving' = Saving \ {c} /\ \A d \in Saving' : conn'[d] = conn[d]
    BY <1>2, <2>1, <2>2 DEF Saving
  <2>4. /\ \A d \in Saving' : conn'[d].cfg \in burst'
        /\ configFile' \in Seq(Blocks) /\ FromBurst'
    BY <2>1, <2>3 DEF DashboardInv, FromBurst
  <2>5. ASSUME ~crossed'
        PROVE  Saving' = {} /\ \A g \in burst' : BeginningOf(g)'
    <3>1. Saving' = {} /\ \A g \in burst : conn[c].cfg = g /\ configFile = SubSeq(g, 1, conn[c].written)
      BY <2>1, <2>3, <2>5 DEF DashboardInv
    <3>2. conn[c].cfg \in Configs /\ conn[c].written \in Nat /\ conn[c].written < Len(conn[c].cfg)
          /\ Len(conn[c].cfg) \in Nat
      BY <1>1, <2>1, ConfigIsASeq DEF ConnRecords, ConnOK
    <3>3. Len(SubSeq(conn[c].cfg, 1, conn[c].written)) = conn[c].written
      BY <3>2, BeginningIsOfIt
    <3>4. QED
      BY <2>1, <3>1, <3>3 DEF BeginningOf
  <2>6. QED
    BY <2>1, <2>2, <2>4, <2>5 DEF DashboardInv
<1>10. QED
  BY <1>4, <1>5, <1>6, <1>7, <1>8, <1>9 DEF ConnStep
-----------------------------------------------------------------------------
(* --------------------------------- main --------------------------------- *)

(* The stages of main in which a thread may be there. *)
LoopStages == {"up", "loop_stop"}
FileStages == {"create", "start", "up", "loop_stop", "loop_join", "files_stop"}
EventStages == {"files", "files_signal", "files_join", "events_stop"} \cup FileStages
PacketStages == {"events", "packets_stop", "packets_join"} \cup EventStages
ServerStages == {"up", "server_stop"}
WriterStages == {"server", "server_close", "server_join", "writer_stop", "writer_join"} \cup ServerStages

AgentsAtRest ==
  /\ loopPC = "none" /\ ~loopRunning
  /\ ~filesRunning /\ \A r \in Roots : watcher[r] = "none"
  /\ subscribed = {} /\ capture = "none"
DashboardAtRest == writer = "none" /\ acceptor = "none" /\ ~serverRunning

MainInv ==
  /\ part # "agents" => AgentsAtRest
  /\ part # "dashboard" => DashboardAtRest
  /\ loopRunning => stage \in LoopStages
  /\ loopPC # "none" => loopRunning \/ stage = "loop_join"
  /\ filesRunning => stage \in FileStages
  /\ (\E r \in Roots : watcher[r] # "none") => filesRunning \/ stage \in {"files_signal", "files_join"}
  /\ subscribed # {} => stage \in EventStages
  /\ capture # "none" => stage \in PacketStages
  /\ serverRunning => stage \in ServerStages
  /\ acceptor # "none" => serverRunning \/ stage \in {"server_close", "server_join"}
  /\ writer # "none" => stage \in WriterStages


LEMMA MainInitially == ProtectionInit => MainInv
BY DEF ProtectionInit, AutonomyInit, MonitorInit, DashboardInit, Parts, MainInv, AgentsAtRest,
       DashboardAtRest, WriterStages, ServerStages

(* What main's invariant reads. *)
mainVars == <<part, stage, loopPC, loopRunning, filesRunning, watcher, subscribed, capture,
              writer, acceptor, serverRunning>>

LEMMA MainSame ==
  ASSUME MainInv, UNCHANGED mainVars
  PROVE  MainInv'
BY DEF mainVars, MainInv, AgentsAtRest, DashboardAtRest

(* The calls main makes while it starts, and the end of its input. *)
LEMMA StartKeepsMain ==
  ASSUME MainInv, MonitorTypeOK, AgentsOnly, StartUp \/ InputEnds
  PROVE  MainInv'
<1> USE DEF MainInv, AgentsAtRest, DashboardAtRest, LoopStages, FileStages, EventStages, PacketStages,
            AgentsOnly, dashboardVars, writerVars, acceptVars, At, quietLoop, quietAll,
            autonomyVars, monitorVars, fileVars, eventVars, packetVars
<1>1. CASE StartsPackets
  BY <1>1 DEF StartsPackets, PacketsStart
<1>2. CASE StartsEvents
  BY <1>2 DEF StartsEvents, EventsStart
<1>3. CASE StartsFiles
  <2>1. PICK opened \in SUBSET Roots :
          /\ watcher' = [r \in Roots |-> IF r \in opened THEN "head" ELSE "none"]
          /\ filesRunning' = (opened # {})
    BY <1>3 DEF StartsFiles, FilesStart
  <2>2. (\E r \in Roots : watcher'[r] # "none") => filesRunning'
    BY <2>1
  <2>3. QED
    BY <1>3, <2>2 DEF StartsFiles, FilesStart
<1>4. CASE CreatesLoop
  BY <1>4 DEF CreatesLoop
<1>5. CASE StartsLoop
  BY <1>5 DEF StartsLoop, LoopStarts
<1>6. CASE InputEnds
  BY <1>6 DEF InputEnds
<1>7. QED
  BY <1>1, <1>2, <1>3, <1>4, <1>5, <1>6 DEF StartUp

(* The stops and the joins: a join takes its thread away. *)
LEMMA ShutDownKeepsMain ==
  ASSUME MainInv, MonitorTypeOK, AgentsOnly, ShutDown
  PROVE  MainInv'
<1> USE DEF MainInv, AgentsAtRest, DashboardAtRest, LoopStages, FileStages, EventStages, PacketStages,
            AgentsOnly, dashboardVars, writerVars, acceptVars, At, quietLoop, quietAll,
            autonomyVars, monitorVars, fileVars, eventVars, packetVars
<1>1. CASE StopsLoop
  BY <1>1 DEF StopsLoop, LoopStops
<1>2. CASE JoinsLoop
  BY <1>2 DEF JoinsLoop, LoopJoins
<1>3. CASE StopsFiles
  BY <1>3 DEF StopsFiles, FilesStop
<1>4. CASE SignalsFiles
  BY <1>4 DEF SignalsFiles, FilesSignal
<1>5. CASE JoinsFiles
  BY <1>5 DEF JoinsFiles, FilesJoin
<1>6. CASE StopsEvents
  BY <1>6 DEF StopsEvents, EventsStop
<1>7. CASE StopsPackets
  BY <1>7 DEF StopsPackets, PacketsStop
<1>8. CASE JoinsPackets
  BY <1>8 DEF JoinsPackets, PacketsJoin
<1>9. QED
  BY <1>1, <1>2, <1>3, <1>4, <1>5, <1>6, <1>7, <1>8 DEF ShutDown

(* The threads go where a thread is, and never to where none is. *)
ThreadsGo ==
  \/ \E r \in Roots : WatcherStep(r)
  \/ \E c \in Channels : ReportsEvent(c)
  \/ CaptureStops \/ LoopThreadStep \/ Outside

LEMMA ThreadsKeepMain ==
  ASSUME MainInv, MonitorTypeOK, AgentsOnly, ThreadsGo
  PROVE  MainInv'
<1>1. part = "agents" /\ part' = part /\ UNCHANGED <<writer, acceptor, serverRunning>>
  BY DEF AgentsOnly, dashboardVars, writerVars, acceptVars
<1>2. stage' = stage /\ filesRunning' = filesRunning /\ subscribed' = subscribed /\ loopRunning' = loopRunning
  BY DEF ThreadsGo, WatcherStep, WatcherMoves, ReportsEvent, CaptureStops, LoopThreadStep, Outside, quietMain,
         ReportsChange, Signalled, WatchHead, WatchLeaves, WatchReports, ChangeArrives, WaitFails,
         EventDelivered, EventArrives, CaptureEnds, LoopStep, LoopHead, RespondsToThreat, Drains,
         SubmitsBatch, Rotates, Wakes, inbound, NotifyThreatLevel, PushSignal,
         autonomyVars, monitorVars, fileVars, eventVars, packetVars
<1>3. loopPC' # "none" => loopPC # "none"
  BY DEF ThreadsGo, WatcherStep, WatcherMoves, ReportsEvent, CaptureStops, LoopThreadStep, Outside, quietMain,
         ReportsChange, Signalled, LoopStep, LoopHead, RespondsToThreat, Drains,
         SubmitsBatch, Rotates, Wakes, NotifyThreatLevel, PushSignal, autonomyVars
<1>4. capture' # "none" => capture # "none"
  BY DEF ThreadsGo, WatcherStep, WatcherMoves, ReportsEvent, CaptureStops, LoopThreadStep, Outside,
         ReportsChange, WatchHead, WatchLeaves, WatchReports, ChangeArrives, WaitFails,
         EventDelivered, EventArrives, CaptureEnds, monitorVars, packetVars
<1>5. \A d \in Roots : watcher'[d] # "none" => watcher[d] # "none"
  <2>1. watcher' = watcher \/ \E r \in Roots : watcher[r] # "none" /\ \E next : GotoWatch(r, next)
    BY DEF ThreadsGo, WatcherStep, WatcherMoves, ReportsEvent, CaptureStops, LoopThreadStep, Outside,
           ReportsChange, WatchHead, WatchLeaves, WatchReports, ChangeArrives, WaitFails,
           EventDelivered, EventArrives, CaptureEnds, monitorVars, fileVars
  <2>2. QED
    BY <2>1 DEF MonitorTypeOK, GotoWatch
<1>6. QED
  BY <1>1, <1>2, <1>3, <1>4, <1>5 DEF MainInv, DashboardAtRest

(* The same main with the dashboard. *)
LEMMA DashboardKeepsMain ==
  ASSUME MainInv, DashboardTypeOK, DashboardNext
  PROVE  MainInv'
<1>1. /\ part = "dashboard" /\ part' = part
      /\ UNCHANGED <<loopPC, loopRunning, filesRunning, watcher, subscribed, capture>>
  BY DEF DashboardNext, DashboardOnly, autonomyVars, monitorVars, fileVars, eventVars, packetVars
<1>2. AgentsAtRest /\ AgentsAtRest'
  BY <1>1 DEF MainInv, AgentsAtRest
<1> DEFINE Kept == /\ serverRunning => stage \in ServerStages
                   /\ acceptor # "none" => serverRunning \/ stage \in {"server_close", "server_join"}
                   /\ writer # "none" => stage \in WriterStages
<1>3. Kept
  BY DEF MainInv
<1>4. Kept'
  <2> USE <1>3 DEF ServerStages, WriterStages, At, dashboardVars, writerVars, acceptVars, quietFiles
  <2>1. CASE DashboardMain
    <3>1. CASE StartsWriter \/ StopsWriter \/ JoinsWriter
      BY <3>1 DEF StartsWriter, StopsWriter, JoinsWriter, WriterStarts, WriterStops, WriterJoins
    <3>2. CASE StartsServer
      BY <3>2 DEF StartsServer, ServerStarts
    <3>3. CASE StopsServer
      BY <3>3 DEF StopsServer, ServerStops
    <3>4. CASE ClosesServer
      BY <3>4 DEF ClosesServer, ServerCloses
    <3>5. CASE JoinsServer
      BY <3>5 DEF JoinsServer, ServerJoins
    <3>6. QED
      BY <2>1, <3>1, <3>2, <3>3, <3>4, <3>5 DEF DashboardMain
  <2>2. CASE DashboardInputEnds
    BY <2>2 DEF DashboardInputEnds
  <2>3. CASE (WriterStep \/ AcceptorHead \/ AcceptFails) /\ UNCHANGED stage
    BY <2>3 DEF WriterStep, WriterLeaves, WriterOpens, WriterSkips, WriterCloses, WriterSleeps,
                WriterAt, AcceptorHead, AcceptFails
  <2>4. CASE (\E c \in Conns : Accepts(c) \/ ConnStep(c)) /\ UNCHANGED stage
    BY <2>4 DEF Accepts, ConnStep, Answers, SaveOpens, SaveBegins, SaveWrites, SaveFails, CommandBegins,
                CommandIsOver, quietThreads
  <2>5. QED
    BY <2>1, <2>2, <2>3, <2>4 DEF DashboardNext
<1>5. QED
  BY <1>1, <1>2, <1>4 DEF MainInv, AgentsAtRest

(* What a step of the agents' part is for the loop and for the monitors.   *)
LEMMA AgentsStepIsTheirs ==
  ASSUME MainInv, AgentsNext
  PROVE  /\ \/ LoopStep \/ \E sc \in SignalScores : PushSignal(sc)
            \/ \E l \in LevelsNotified : NotifyThreatLevel(l)
            \/ (LoopStarts /\ loopPC = "none") \/ LoopStops \/ LoopJoins
            \/ UNCHANGED autonomyVars
         /\ FileStep \/ EventStep \/ PacketStep \/ UNCHANGED monitorVars
<1> USE DEF FileStep, EventStep, PacketStep, quietLoop, quietAll, quietMain
<1>1. CASE StartUp
  <2>1. StartsLoop => loopPC = "none"
    BY DEF StartsLoop, At, MainInv, LoopStages
  <2>2. QED
    BY <1>1, <2>1 DEF StartUp, StartsPackets, StartsEvents, StartsFiles, CreatesLoop, StartsLoop
<1>2. CASE InputEnds
  BY <1>2 DEF InputEnds
<1>3. CASE ShutDown
  BY <1>3 DEF ShutDown, StopsLoop, JoinsLoop, StopsFiles, SignalsFiles, JoinsFiles, StopsEvents,
              StopsPackets, JoinsPackets
<1>4. InfectedScore \in SignalScores /\ EventScores \subseteq SignalScores
  BY ScoresAreSignals
<1>5. CASE \E r \in Roots : WatcherStep(r)
  <2>1. PICK r \in Roots : WatcherStep(r)
    BY <1>5
  <2>2. CASE (WatchHead(r) \/ WatchLeaves(r)) /\ UNCHANGED quietMain
    BY <2>2
  <2>3. CASE ReportsChange(r)
    BY <1>4, <2>3 DEF ReportsChange, Signalled
  <2>4. QED
    BY <2>1, <2>2, <2>3 DEF WatcherStep, WatcherMoves
<1>6. CASE \E c \in Channels : ReportsEvent(c)
  <2>1. PICK c \in Channels : ReportsEvent(c)
    BY <1>6
  <2>2. QED
    BY <1>4, <2>1 DEF ReportsEvent, Signalled
<1>7. CASE CaptureStops \/ LoopThreadStep \/ Outside
  BY <1>7 DEF CaptureStops, LoopThreadStep, Outside
<1>8. QED
  BY <1>1, <1>2, <1>3, <1>5, <1>6, <1>7 DEF AgentsNext

LEMMA AgentsStepKeeps ==
  ASSUME AutonomyInv, MonitorTypeOK, MainInv, loopExists \in BOOLEAN, stage \in Stages, AgentsNext
  PROVE  /\ AutonomyInv' /\ MonitorTypeOK' /\ MainInv'
         /\ loopExists' \in BOOLEAN /\ stage' \in Stages
<1>1. AutonomyInv'
  BY AgentsStepIsTheirs, LoopStepKeeps, PushSignalKeeps, QuietStepKeeps
<1>2. MonitorTypeOK'
  BY AgentsStepIsTheirs, MonitorStepKeeps
<1>3. MainInv'
  BY StartKeepsMain, ShutDownKeepsMain, ThreadsKeepMain DEF AgentsNext, ThreadsGo
<1>4. loopExists' \in BOOLEAN /\ stage' \in Stages
  <2> USE DEF Stages, At, quietLoop, quietAll, quietMain
  <2>1. CASE StartUp \/ InputEnds
    BY <2>1 DEF StartUp, StartsPackets, StartsEvents, StartsFiles, CreatesLoop, StartsLoop, InputEnds
  <2>2. CASE ShutDown
    BY <2>2 DEF ShutDown, StopsLoop, JoinsLoop, StopsFiles, SignalsFiles, JoinsFiles, StopsEvents,
                StopsPackets, JoinsPackets
  <2>3. CASE ThreadsGo
    BY <2>3 DEF ThreadsGo, WatcherStep, WatcherMoves, ReportsChange, ReportsEvent, CaptureStops, LoopThreadStep, Outside
  <2>4. QED
    BY <2>1, <2>2, <2>3 DEF AgentsNext, ThreadsGo
<1>5. QED
  BY <1>1, <1>2, <1>3, <1>4

LEMMA DashboardStepKeeps ==
  ASSUME DashboardInv, MainInv, stage \in Stages, DashboardNext
  PROVE  DashboardInv' /\ MainInv' /\ stage' \in Stages
<1>1. \/ OtherDashboardStep
      \/ \E c \in Conns : Accepts(c) \/ ConnStep(c)
  BY DEF DashboardNext, DashboardMain, DashboardInputEnds, StartsWriter, StartsServer, StopsServer,
         ClosesServer, JoinsServer, StopsWriter, JoinsWriter, OtherDashboardStep
<1>2. DashboardInv'
  BY <1>1, OtherDashboardStepKeeps, ConnStepKeeps
<1>3. MainInv'
  BY DashboardKeepsMain DEF DashboardInv
<1>4. stage' \in Stages
  BY DEF DashboardNext, DashboardMain, DashboardInputEnds, StartsWriter, StartsServer, StopsServer,
         ClosesServer, JoinsServer, StopsWriter, JoinsWriter, At, Stages
<1>5. QED
  BY <1>2, <1>3, <1>4

(* Where main waits for nobody any more, nobody is.                        *)
LEMMA NobodyIsThere ==
  ASSUME MainInv, AutonomyTypeOK, stage \in Stages
  PROVE  NobodyRunsAtTheEnd
<1> USE DEF MainInv, AgentsAtRest, DashboardAtRest
<1>1. stage \in {"files_stop", "files_signal", "files_join", "events_stop", "packets_stop",
                 "packets_join", "ended"} => loopPC = "none" /\ batch = <<>>
  <2>1. loopPC = "none" => batch = <<>>
    BY DEF AutonomyTypeOK
  <2>2. QED
    BY <2>1 DEF LoopStages
<1>2. stage \in {"events_stop", "packets_stop", "packets_join", "ended"} =>
        \A r \in Roots : watcher[r] = "none"
  BY DEF FileStages
<1>3. stage = "ended" => capture = "none" /\ subscribed = {}
  BY DEF FileStages, EventStages, PacketStages
<1>4. stage \in {"writer_stop", "writer_join", "ended"} => acceptor = "none"
  BY DEF ServerStages
<1>5. stage = "ended" => writer = "none"
  BY DEF ServerStages, WriterStages
<1>6. QED
  BY <1>1, <1>2, <1>3, <1>4, <1>5 DEF NobodyRunsAtTheEnd
-----------------------------------------------------------------------------
(* ------------------------------ the process ----------------------------- *)

IInv ==
  /\ RuleInv
  /\ ChaosInv /\ HighWindowsAreCovered
  /\ AutonomyInv
  /\ MonitorTypeOK
  /\ DashboardInv
  /\ part \in Parts /\ stage \in Stages /\ loopExists \in BOOLEAN
  /\ MainInv

LEMMA Initially == ProtectionInit => IInv
<1> SUFFICES ASSUME ProtectionInit PROVE IInv
  OBVIOUS
<1>1. RuleInv /\ ChaosInv /\ AutonomyInv /\ DashboardInv /\ MainInv
  BY RuleInitially, ChaosInitially, AutonomyInitially, DashboardInitially, MainInitially
     DEF ProtectionInit
<1>2. MonitorTypeOK
  BY DEF ProtectionInit, MonitorInit, MonitorTypeOK, WatcherPCs, CapturePCs
<1>3. HighWindowsAreCovered
  <2>1. chaosHigh = 0 /\ 0 * MinSamples = 0
    BY WindowIsScored DEF ProtectionInit, RuleServiceInit, RuleInit
  <2>2. ~torn => Cardinality(Reported) \in Nat
    BY <1>1, ReportedIsCounted
  <2>3. QED
    BY <2>1, <2>2 DEF HighWindowsAreCovered
<1>4. part \in Parts /\ stage \in Stages /\ loopExists \in BOOLEAN
  BY DEF ProtectionInit, Stages
<1>5. QED
  BY <1>1, <1>2, <1>3, <1>4 DEF IInv

(* What a component keeps when it is not touched. *)
LEMMA ComponentsAtRest ==
  /\ ChaosInv /\ UNCHANGED chaosVars => ChaosInv'
  /\ HighWindowsAreCovered /\ UNCHANGED <<chaosVars, chaosHigh, part>> => HighWindowsAreCovered'
  /\ RuleInv /\ UNCHANGED ruleServiceVars => RuleInv'
  /\ AutonomyInv /\ UNCHANGED autonomyVars => AutonomyInv'
  /\ MonitorTypeOK /\ UNCHANGED monitorVars => MonitorTypeOK'
  /\ DashboardInv /\ UNCHANGED dashboardVars => DashboardInv'
<1>1. ASSUME ChaosInv, UNCHANGED chaosVars PROVE ChaosInv'
  <2>1. UNCHANGED <<Buffer, slots, size, detector, sample, seen, window, pushed, times, torn, twice>>
    BY <1>1 DEF chaosVars, Buffer
  <2>2. ChaosTypeOK'
    BY <1>1, <2>1 DEF ChaosInv, ChaosTypeOK
  <2>3. AppendedOnce'
    BY <1>1, <2>1 DEF ChaosInv, AppendedOnce
  <2>4. ~torn' => BufferIsSound'
    BY <1>1, <2>1 DEF ChaosInv, BufferIsSound, Appended
  <2>5. ~torn' /\ ~twice' => OneWindow'
    BY <1>1, <2>1 DEF ChaosInv, OneWindow
  <2>6. QED
    BY <2>2, <2>3, <2>4, <2>5 DEF ChaosInv
<1>2. RuleInv /\ UNCHANGED ruleServiceVars => RuleInv'
  BY RuleStepKeeps
<1>3. AutonomyInv /\ UNCHANGED autonomyVars => AutonomyInv'
  BY QuietStepKeeps
<1>4. MonitorTypeOK /\ UNCHANGED monitorVars => MonitorTypeOK'
  BY MonitorStepKeeps
<1>5. DashboardInv /\ UNCHANGED dashboardVars => DashboardInv'
  BY OtherDashboardStepKeeps DEF OtherDashboardStep
<1>6. HighWindowsAreCovered /\ UNCHANGED <<chaosVars, chaosHigh, part>> => HighWindowsAreCovered'
  BY OtherStepsCover DEF chaosVars
<1>7. QED
  BY <1>1, <1>2, <1>3, <1>4, <1>5, <1>6

LEMMA StepKeeps == IInv /\ [ProtectionNext]_protectionVars => IInv'
<1> SUFFICES ASSUME IInv, [ProtectionNext]_protectionVars PROVE IInv'
  OBVIOUS
<1> USE DEF IInv
<1>1. CASE RulesNext
  <2>1. /\ part = "rules" /\ RuleServiceNext
        /\ UNCHANGED <<chaosVars, autonomyVars, monitorVars, stage, loopExists, dashboardVars, part>>
    BY <1>1 DEF RulesNext, agentVars
  <2>2. RuleInv'
    BY <2>1, RuleStepKeeps
  <2>3. HighWindowsAreCovered'
    BY <2>1 DEF HighWindowsAreCovered
  <2>4. ChaosInv'
    BY <2>1, ComponentsAtRest
  <2>5. MainInv'
    BY <2>1, MainSame
       DEF mainVars, autonomyVars, monitorVars, fileVars, eventVars, packetVars, dashboardVars,
           writerVars, acceptVars
  <2>6. QED
    BY <2>1, <2>2, <2>3, <2>4, <2>5, ComponentsAtRest
<1>2. CASE WindowsNext
  <2>1. PICK t \in Feeders : \/ ReportsWindow(t)
                             \/ DetectorStep(t) /\ UNCHANGED <<worm, tier, pc, score, fired, chaosHigh>>
    BY <1>2 DEF WindowsNext
  <2>2. UNCHANGED <<lifted, autonomyVars, monitorVars, stage, loopExists, dashboardVars, part>>
    BY <1>2 DEF WindowsNext, agentVars
  <2>3. ChaosInv'
    BY <2>1, ChaosStepKeeps DEF ReportsWindow
  <2>4. chaosHigh \in 0 .. SustainedWindows
    BY DEF RuleInv, RuleTypeOK
  <2>5. RuleInv' /\ HighWindowsAreCovered'
    <3>1. CASE ReportsWindow(t)
      <4>1. PICK high \in BOOLEAN : EvaluateChaosWindow(t, high)
        BY <3>1 DEF ReportsWindow
      <4>2. RuleInv'
        BY <2>2, <4>1, FeedersAreThreads, ReportedWindowKeeps
      <4>3. QED
        BY <2>2, <2>4, <3>1, <4>2, ReportedWindowIsCovered
    <3>2. CASE DetectorStep(t) /\ UNCHANGED <<worm, tier, pc, score, fired, chaosHigh>>
      <4>1. RuleInv'
        BY <2>2, <3>2, ComponentsAtRest DEF ruleServiceVars
      <4>2. UNCHANGED times /\ (~torn' => ~torn) /\ (~twice' => ~twice)
        <5>1. CASE Push(t) \/ TestsSize(t) \/ Clears(t)
          BY <5>1 DEF Push, TestsSize, Clears
        <5>2. CASE Appends(t)
          <6>1. torn' = (torn \/ ~(Buffer' \subseteq Buffer \cup {sample[t]})) /\ UNCHANGED <<times, twice>>
            BY <5>2 DEF Appends
          <6>2. QED
            BY <6>1
        <5>3. CASE Flushes(t)
          BY <5>3 DEF Flushes, Compute
        <5>4. CASE ForcesFlush(t)
          BY <5>4 DEF ForcesFlush, Compute
        <5>5. QED
          BY <3>2, <5>1, <5>2, <5>3, <5>4 DEF DetectorStep
      <4>3. QED
        BY <2>2, <3>2, <4>1, <4>2, OtherStepsCover
    <3>3. QED
      BY <2>1, <3>1, <3>2
  <2>6. MainInv'
    BY <2>2, MainSame
       DEF mainVars, autonomyVars, monitorVars, fileVars, eventVars, packetVars, dashboardVars,
           writerVars, acceptVars
  <2>7. QED
    BY <2>2, <2>3, <2>5, <2>6, ComponentsAtRest
<1>3. CASE AgentsNext
  <2>1. UNCHANGED <<ruleServiceVars, chaosVars, dashboardVars, part>>
    BY <1>3 DEF AgentsNext, AgentsOnly, threatVars
  <2>2. AutonomyInv' /\ MonitorTypeOK' /\ MainInv' /\ loopExists' \in BOOLEAN /\ stage' \in Stages
    BY <1>3, AgentsStepKeeps
  <2>3. UNCHANGED chaosHigh
    BY <2>1 DEF ruleServiceVars
  <2>4. QED
    BY <2>1, <2>2, <2>3, ComponentsAtRest
<1>4. CASE DashboardNext
  <2>1. UNCHANGED <<ruleServiceVars, chaosVars, autonomyVars, monitorVars, loopExists, part>>
    BY <1>4 DEF DashboardNext, DashboardOnly, threatVars
  <2>2. DashboardInv' /\ MainInv' /\ stage' \in Stages
    BY <1>4, DashboardStepKeeps
  <2>3. UNCHANGED chaosHigh
    BY <2>1 DEF ruleServiceVars
  <2>4. QED
    BY <2>1, <2>2, <2>3, ComponentsAtRest
<1>5. CASE UNCHANGED protectionVars
  <2>1. UNCHANGED <<ruleServiceVars, chaosVars, autonomyVars, monitorVars, stage, loopExists, dashboardVars, part>>
    BY <1>5 DEF protectionVars, threatVars, agentVars
  <2>2. MainInv'
    BY <2>1, MainSame
       DEF mainVars, autonomyVars, monitorVars, fileVars, eventVars, packetVars, dashboardVars,
           writerVars, acceptVars
  <2>3. UNCHANGED chaosHigh
    BY <2>1 DEF ruleServiceVars
  <2>4. QED
    BY <2>1, <2>2, <2>3, ComponentsAtRest
<1>6. QED
  BY <1>1, <1>2, <1>3, <1>4, <1>5 DEF ProtectionNext

(* The invariant of the process. *)
THEOREM InvariantHolds == ProtectionSpec => []IInv
BY Initially, StepKeeps, PTL DEF ProtectionSpec

(* The types of every component of the process and of main (main,          *)
(* start_protect_session and the components' headers).                     *)
THEOREM TypeCorrect == ProtectionSpec => []ProtectionTypeOK
<1>1. IInv => ProtectionTypeOK
  BY DEF IInv, RuleInv, ChaosInv, AutonomyInv, DashboardInv, ProtectionTypeOK
<1>2. QED
  BY <1>1, InvariantHolds, PTL

(* CRITICAL without its lockdown means that somebody lifted the lock, also *)
(* when the windows come from feeders that race (do_transition,            *)
(* on_chaos_window).                                                       *)
THEOREM ProcessIsLocked == ProtectionSpec => []CriticalOpenOnlyIfLifted
<1>1. IInv => CriticalOpenOnlyIfLifted
  BY DEF IInv, RuleInv
<1>2. QED
  BY <1>1, InvariantHolds, PTL

(* Unless an append tore the buffer no feeder reports a sample twice, and  *)
(* unless two windows were computed from one buffer besides, the windows   *)
(* that sustain RULE-05's escalation have no sample in common and each has *)
(* enough (push, flush_window, evaluate_chaos_window).                     *)
THEOREM SustainedIsDistinct == ProtectionSpec => []SustainedOnDistinctSamples
<1>1. IInv => SustainedOnDistinctSamples
  BY SustainedOnSamples DEF IInv, RuleInv, RuleTypeOK
<1>2. QED
  BY <1>1, InvariantHolds, PTL

(* Of any number of signals pushed by any threads each is at one place, in *)
(* order, and handed over as urgently as it asks for (push_signal,         *)
(* tick_signal_drain, route_to_agent).                                     *)
THEOREM SignalsAreKept == ProtectionSpec => []SignalsOnceInOrder
<1>1. IInv => SignalsOnceInOrder
  BY OnePlaceEach DEF IInv
<1>2. QED
  BY <1>1, InvariantHolds, PTL

(* When main has joined a thread that thread is gone, whatever the threads *)
(* were at when it began to stop them, and nothing that was begun is cut   *)
(* off (main, the stop of the monitors, the loop, the server, the writer). *)
THEOREM NobodyIsLeft == ProtectionSpec => []NobodyRunsAtTheEnd
<1>1. IInv => NobodyRunsAtTheEnd
  BY NobodyIsThere DEF IInv, AutonomyInv
<1>2. QED
  BY <1>1, InvariantHolds, PTL

(* What config.json holds is of the configurations saved together last and *)
(* of nothing earlier; of one saved alone it is the whole, or a beginning  *)
(* if a write failed (handle_config_post).                                 *)
THEOREM ConfigIsOfLastBurst == ProtectionSpec => []ConfigIsFromTheLastBurst
<1>1. IInv => ConfigIsFromTheLastBurst
  BY DEF IInv, DashboardInv, ConfigIsFromTheLastBurst
<1>2. QED
  BY <1>1, InvariantHolds, PTL
=============================================================================
