---------------------------- MODULE ChaosDetector ----------------------------
(***************************************************************************)
(* core/chaos_detector: samples gathered into windows, each window scored  *)
(* and reported.  The class has no mutex and several threads push: the     *)
(* packet sensor's, the stdin thread, the demo thread.  So the vector is   *)
(* modelled as the memory it is: slots, of which those up to its end are   *)
(* its samples, and an end that push_back reads, uses and writes back while *)
(* another feeder's push_back or clear moves it.  What the compiler keeps  *)
(* in a register of an end it has read is left open.                       *)
(*                                                                         *)
(* detector[t] is where feeder t stands: idle, append (it has read the     *)
(* end), test (appended), flush (found the window full), report (window    *)
(* computed), clear.  The mark any_synthetic_ and the number of the window *)
(* are printed and decide nothing; they are left out.                      *)
(***************************************************************************)
EXTENDS Naturals, Sequences, FiniteSets

CONSTANTS Feeders,          \* threads that push samples
          WindowSize,       \* window_size_
          MinSamples,       \* fewer samples are not scored
          MaxPushes         \* bound: samples pushed in a behaviour

ASSUME WindowIsScored == {WindowSize, MinSamples, MaxPushes} \subseteq Nat /\ MinSamples <= WindowSize

VARIABLES slots,            \* the memory of samples_, by the number of the sample in it
          size,             \* its end
          detector,
          sample,           \* the sample a feeder brings
          seen,             \* the end as a feeder in push last read or wrote it
          window,           \* the samples of the window a feeder has computed
          pushed,           \* history: samples pushed
          times,            \* history: how often feeder t reported sample id
          torn,             \* history: an append brought back what was no longer in the vector
          twice             \* history: a window was computed before the one before it was cleared

chaosVars == <<slots, size, detector, sample, seen, window, pushed, times, torn, twice>>

DetectorPCs == {"idle", "append", "test", "flush", "report", "clear"}
Numbers == 1 .. MaxPushes
Unwritten == 0              \* what is in a slot never written to; also: no sample

ChaosInit ==
  /\ slots = <<>> /\ size = 0
  /\ detector = [t \in Feeders |-> "idle"]
  /\ sample = [t \in Feeders |-> Unwritten]
  /\ seen = [t \in Feeders |-> 0]
  /\ window = [t \in Feeders |-> {}]
  /\ pushed = 0
  /\ times = [t \in Feeders |-> [id \in Numbers |-> 0]]
  /\ torn = FALSE /\ twice = FALSE

Buffer == {slots[k] : k \in 1 .. size}
GotoIn(t, where) == detector' = [detector EXCEPT ![t] = where]
Sees(t, end) == seen' = [seen EXCEPT ![t] = end]
Larger(m, n) == IF m >= n THEN m ELSE n

-----------------------------------------------------------------------------
(* push(value): push_back reads the end ... *)
Push(t) ==
  /\ detector[t] = "idle" /\ pushed < MaxPushes
  /\ pushed' = pushed + 1
  /\ sample' = [sample EXCEPT ![t] = pushed']
  /\ Sees(t, size)
  /\ GotoIn(t, "append")
  /\ UNCHANGED <<slots, size, window, times, torn, twice>>

(* ... fills the slot after it, and writes back one more than it read, or  *)
(* than it reads now: a push of another feeder in between is lost, or its  *)
(* clear undone.                                                           *)
Appends(t) ==
  /\ detector[t] = "append"
  /\ size' \in {seen[t] + 1, size + 1}
  /\ slots' = [k \in 1 .. Larger(Len(slots), Larger(seen[t] + 1, size')) |->
                 IF k = seen[t] + 1 THEN sample[t]
                 ELSE IF k <= Len(slots) THEN slots[k] ELSE Unwritten]
  /\ torn' = (torn \/ ~(Buffer' \subseteq Buffer \cup {sample[t]}))
  /\ sample' = [sample EXCEPT ![t] = Unwritten]
  /\ Sees(t, size')
  /\ GotoIn(t, "test")
  /\ UNCHANGED <<window, pushed, times, twice>>

(* The comparison with window_size_, of the end it wrote or of the end.    *)
TestsSize(t) ==
  /\ detector[t] = "test"
  /\ \E end \in {seen[t], size} :
       IF end >= WindowSize THEN GotoIn(t, "flush") /\ Sees(t, end)
                            ELSE GotoIn(t, "idle") /\ Sees(t, 0)
  /\ UNCHANGED <<slots, size, sample, window, pushed, times, torn, twice>>

(* The window as flush_window computes it; what K it gets is left to the   *)
(* moment it is used.                                                      *)
Compute(t) ==
  /\ window' = [window EXCEPT ![t] = Buffer]
  /\ twice' = (twice \/ \E u \in Feeders : detector[u] \in {"report", "clear"})
  /\ GotoIn(t, "report")

(* flush_window(false), called by push: another feeder may have emptied    *)
(* the buffer since.                                                       *)
Flushes(t) ==
  /\ detector[t] = "flush"
  /\ \E end \in {seen[t], size} :
       IF end < MinSamples THEN GotoIn(t, "idle") /\ UNCHANGED <<window, twice>> ELSE Compute(t)
  /\ Sees(t, 0)
  /\ UNCHANGED <<slots, size, sample, pushed, times, torn>>

(* flush_window(true), called from outside (its tests): a partial window. *)
ForcesFlush(t) ==
  /\ detector[t] = "idle" /\ size # 0
  /\ Compute(t)
  /\ UNCHANGED <<slots, size, sample, seen, pushed, times, torn>>

(* compute_K gives 0 to a window of fewer than MinSamples samples; slots   *)
(* never written may be any number of them.                                *)
MayBeHigh(t) == Cardinality(window[t]) >= MinSamples \/ Unwritten \in window[t]

(* window_cb_: what the callback does is conjoined where it is composed. *)
Reports(t) ==
  /\ detector[t] = "report"
  /\ times' = [times EXCEPT ![t] = [id \in Numbers |-> @[id] + (IF id \in window[t] THEN 1 ELSE 0)]]
  /\ window' = [window EXCEPT ![t] = {}]
  /\ GotoIn(t, "clear")
  /\ UNCHANGED <<slots, size, sample, seen, pushed, torn, twice>>

(* A faulty flush that forgets the samples it reported are still there. *)
ClearsNothing(t) ==
  /\ detector[t] = "clear"
  /\ GotoIn(t, "idle")
  /\ UNCHANGED <<slots, size, sample, seen, window, pushed, times, torn, twice>>

(* clear() moves the end and leaves the slots as they are. *)
Clears(t) ==
  /\ detector[t] = "clear"
  /\ size' = 0
  /\ GotoIn(t, "idle")
  /\ UNCHANGED <<slots, sample, seen, window, pushed, times, torn, twice>>

(* The steps of the detector that touch nothing else. *)
DetectorStep(t) ==
  \/ Push(t)
  \/ Appends(t) \/ TestsSize(t) \/ Flushes(t) \/ ForcesFlush(t) \/ Clears(t)
-----------------------------------------------------------------------------
(* Types of chaos_detector.h. *)
ChaosTypeOK ==
  /\ slots \in Seq({Unwritten} \cup Numbers)
  /\ size \in 0 .. Len(slots)
  /\ detector \in [Feeders -> DetectorPCs]
  /\ sample \in [Feeders -> {Unwritten} \cup Numbers]
  /\ seen \in [Feeders -> 0 .. Len(slots)]
  /\ window \in [Feeders -> SUBSET ({Unwritten} \cup Numbers)]
  /\ pushed \in 0 .. MaxPushes
  /\ times \in [Feeders -> [Numbers -> Nat]]
  /\ torn \in BOOLEAN /\ twice \in BOOLEAN

(* A sample is reported by one feeder, once, but for two races and no      *)
(* others: a push_back whose end undoes a clear, or takes in slots that    *)
(* were dropped or never written, after which the same feeder may report   *)
(* again what it has reported; and two windows computed from one buffer.   *)
(* Pushes that lose each other's samples, and full buffers found empty,    *)
(* report nothing twice (push, flush_window).                              *)
SamplesReportedOnce ==
  ~torn => /\ \A t \in Feeders, id \in Numbers : times[t][id] <= 1
           /\ ~twice => \A t, u \in Feeders, id \in Numbers :
                times[t][id] = 1 /\ times[u][id] = 1 => t = u
=============================================================================
