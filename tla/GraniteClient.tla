----------------------------- MODULE GraniteClient -----------------------------
(***************************************************************************)
(* agents/controller/granite_client: inference over HTTP, a counter of     *)
(* requests in flight per model, and a keep-alive thread that pings the    *)
(* models nobody uses.  The server is external: it answers or fails in     *)
(* every way the client tells apart.                                       *)
(*                                                                         *)
(* callPC[t] is where caller t stands: idle, call (in call_ollama_api),    *)
(* judge (with what that returned), settle (in generateAsync, generate     *)
(* done).                                                                  *)
(* keep.at is where the keep-alive thread stands: none, head (of its loop),*)
(* tier (at the n-th model), dial (found it in no use, makes a request and *)
(* connects), ping (the server has it), sleep, done.                       *)
(***************************************************************************)
EXTENDS Naturals, FiniteSets, SequencesExt

CONSTANTS Callers,
          Answers,          \* what may become of a request
          MaxCalls          \* bound: calls to generate in a behaviour

ASSUME AnswersKnown ==
  "unreachable" \in Answers /\
  Answers \subseteq {"unreachable", "slow_to_take", "slow_to_answer", "too_long",
                    "error", "void", "garbage", "good"}
ASSUME CallersAreFinite == IsFiniteSet(Callers)
ASSUME CallsBounded == MaxCalls \in Nat

VARIABLES inflight,         \* inflight_fast_, inflight_heavy_, inflight_accuracy_
          inflight_async,
          keep_alive_running,
          keep, callPC, job,
          keeper,           \* the thread that starts and stops the keep-alive
          resp,             \* the answer and the verdict of the last call that ended
          used,             \* history: the counters that were raised
          calls

graniteVars ==
  <<inflight, inflight_async, keep_alive_running, keep, callPC, job, keeper, resp, used, calls>>

Models == {"FAST", "HEAVY", "ACCURACY", "ORCHESTRATOR"}
Tiers == {"fast", "heavy", "accuracy"}
TierOf(m) == CASE m = "FAST" -> "fast" [] m = "HEAVY" -> "heavy" [] OTHER -> "accuracy"
KeepAliveOrder == <<"fast", "heavy", "accuracy">>

(* Strings are sequences of words, NUL a word of its own.  A literal       *)
(* passed as const char* ends before its first NUL.                        *)
NUL == "NUL"
CString(s) == LET n == SelectInSeq(s, LAMBDA c : c = NUL) IN IF n = 0 THEN s ELSE SubSeq(s, 1, n - 1)
Occurs(needle, s) == \E i \in 1 .. Len(s) + 1 : SubSeq(s, i, i + Len(needle) - 1) = needle
TRUNCATED == <<NUL, "TRUNCATED">>
DEADLINE == <<NUL, "DEADLINE">>

(* What call_ollama_api returns: the body, empty when there is none; the   *)
(* sentinel it builds from a character and a literal; or the two it builds *)
(* from literals.                                                          *)
Returned(answer) ==
  CASE answer = "unreachable" -> <<>>
    [] answer = "slow_to_take" -> DEADLINE
    [] answer = "slow_to_answer" -> <<"half">> \o CString(DEADLINE)
    [] answer = "too_long" -> CString(TRUNCATED)
    [] OTHER -> <<answer>>

(* What generate makes of it: the first test that applies, and whether it  *)
(* takes the request out of the counter before it returns.                 *)
Verdict(raw) ==
  CASE raw = <<>> -> [ok |-> FALSE, counted_out |-> FALSE]
    [] Occurs(CString(TRUNCATED), raw) -> [ok |-> FALSE, counted_out |-> FALSE]
    [] Occurs(CString(DEADLINE), raw) -> [ok |-> FALSE, counted_out |-> FALSE]
    [] OTHER -> [ok |-> raw = <<"good">>, counted_out |-> TRUE]

NoJob == [model |-> "FAST", async |-> FALSE, answer |-> "unreachable"]
In(t, places) == callPC[t] \in places
Calling(tier) == {t \in Callers : In(t, {"call", "judge"}) /\ TierOf(job[t].model) = tier}

GraniteInit ==
  /\ inflight = [tier \in Tiers |-> 0] /\ inflight_async = 0
  /\ keep_alive_running = FALSE
  /\ keep = [at |-> "none", n |-> 0]
  /\ callPC = [t \in Callers |-> "idle"]
  /\ job = [t \in Callers |-> NoJob]
  /\ keeper = "idle"
  /\ resp = [answer |-> "unreachable", ok |-> FALSE]
  /\ used = {} /\ calls = 0

CallGoes(t, where) == callPC' = [callPC EXCEPT ![t] = where]
keepVars == <<keep_alive_running, keep, keeper>>
-----------------------------------------------------------------------------
(* increment_inflight. *)
CountIn(m) ==
  /\ inflight' = [inflight EXCEPT ![TierOf(m)] = @ + 1]
  /\ used' = used \cup {TierOf(m)}

(* generate, called or, by generateAsync, run on a thread of its own.  All *)
(* four tags are allowed models: is_allowed_model refuses none.            *)
Generate(t, m, async) ==
  /\ callPC[t] = "idle" /\ calls < MaxCalls
  /\ calls' = calls + 1
  /\ CountIn(m)
  /\ inflight_async' = inflight_async + (IF async THEN 1 ELSE 0)
  /\ job' = [job EXCEPT ![t] = [model |-> m, async |-> async, answer |-> "unreachable"]]
  /\ CallGoes(t, "call")
  /\ UNCHANGED <<keepVars, resp>>

(* generateAsync gets no thread: std::async throws, the counter is raised. *)
GetsNoThread(t) ==
  /\ callPC[t] = "idle" /\ calls < MaxCalls
  /\ calls' = calls + 1
  /\ inflight_async' = inflight_async + 1
  /\ UNCHANGED <<inflight, keepVars, callPC, job, resp, used>>

(* call_ollama_api ends within its timeout, one way or another. *)
ServerAnswers(t) ==
  /\ callPC[t] = "call"
  /\ \E a \in Answers : job' = [job EXCEPT ![t].answer = a]
  /\ CallGoes(t, "judge")
  /\ UNCHANGED <<inflight, inflight_async, keepVars, resp, used, calls>>

(* A faulty generate that counts every request out and a timed out one     *)
(* twice.                                                                  *)
JudgeTwice(t) ==
  /\ callPC[t] = "judge"
  /\ inflight' = [inflight EXCEPT ![TierOf(job[t].model)] =
                    IF job[t].answer = "slow_to_answer" /\ @ > 1 THEN @ - 2 ELSE @ - 1]
  /\ resp' = [answer |-> job[t].answer, ok |-> job[t].answer = "good"]
  /\ CallGoes(t, IF job[t].async THEN "settle" ELSE "idle")
  /\ job' = [job EXCEPT ![t] = IF job[t].async THEN @ ELSE NoJob]
  /\ UNCHANGED <<inflight_async, keepVars, used, calls>>

(* A faulty one that counts every request out, however it ended. *)
JudgeCountsOut(t) ==
  /\ callPC[t] = "judge"
  /\ inflight' = [inflight EXCEPT ![TierOf(job[t].model)] = @ - 1]
  /\ resp' = [answer |-> job[t].answer, ok |-> Verdict(Returned(job[t].answer)).ok]
  /\ CallGoes(t, IF job[t].async THEN "settle" ELSE "idle")
  /\ job' = [job EXCEPT ![t] = IF job[t].async THEN @ ELSE NoJob]
  /\ UNCHANGED <<inflight_async, keepVars, used, calls>>

Judge(t) ==
  /\ callPC[t] = "judge"
  /\ LET v == Verdict(Returned(job[t].answer)) IN
       /\ inflight' = IF v.counted_out THEN [inflight EXCEPT ![TierOf(job[t].model)] = @ - 1]
                                       ELSE inflight
       /\ resp' = [answer |-> job[t].answer, ok |-> v.ok]
  /\ CallGoes(t, IF job[t].async THEN "settle" ELSE "idle")
  /\ job' = [job EXCEPT ![t] = IF job[t].async THEN @ ELSE NoJob]
  /\ UNCHANGED <<inflight_async, keepVars, used, calls>>

(* generate throws, outside its try: the request is not text that can be   *)
(* dumped, or audit_adder_ throws at the prefix or at either sentinel.     *)
(* Neither counter comes down: the lambda of generateAsync decrements only *)
(* after generate has returned.                                            *)
GenerateThrows(t) ==
  /\ \/ callPC[t] = "call"
     \/ callPC[t] = "judge" /\ Returned(job[t].answer) # <<>>
                           /\ ~Verdict(Returned(job[t].answer)).counted_out
  /\ CallGoes(t, "idle")
  /\ job' = [job EXCEPT ![t] = NoJob]
  /\ UNCHANGED <<inflight, inflight_async, keepVars, resp, used, calls>>

(* generateAsync's thread ends; a faulty one counts out what generate did  *)
(* count out besides.                                                      *)
SettleTwice(t) ==
  /\ callPC[t] = "settle"
  /\ inflight_async' = inflight_async - 2
  /\ CallGoes(t, "idle")
  /\ job' = [job EXCEPT ![t] = NoJob]
  /\ UNCHANGED <<inflight, keepVars, resp, used, calls>>

Settle(t) ==
  /\ callPC[t] = "settle"
  /\ inflight_async' = inflight_async - 1
  /\ CallGoes(t, "idle")
  /\ job' = [job EXCEPT ![t] = NoJob]
  /\ UNCHANGED <<inflight, keepVars, resp, used, calls>>

-----------------------------------------------------------------------------
generateVars == <<inflight, inflight_async, callPC, job, resp, used, calls>>

(* start_keep_alive: nothing when it runs. *)
StartKeepAlive ==
  /\ keeper = "idle" /\ ~keep_alive_running
  /\ keep_alive_running' = TRUE
  /\ keep' = [at |-> "head", n |-> 0]
  /\ UNCHANGED <<keeper, generateVars>>

(* stop_keep_alive, also first thing in the destructor: clear, then join. *)
StopKeepAlive ==
  /\ keeper = "idle" /\ keep_alive_running
  /\ keep_alive_running' = FALSE
  /\ keeper' = "join"
  /\ UNCHANGED <<keep, generateVars>>

JoinKeepAlive ==
  /\ keeper = "join" /\ keep.at = "done"
  /\ keep' = [at |-> "none", n |-> 0]
  /\ keeper' = "idle"
  /\ UNCHANGED <<keep_alive_running, generateVars>>

KeepGoes(at, n) ==
  /\ keep' = [at |-> at, n |-> n]
  /\ UNCHANGED <<keep_alive_running, keeper, generateVars>>

(* A faulty loop that looks at the flag before a model only.            *)
KeepAliveHeadForever ==
  /\ keep.at = "head"
  /\ KeepGoes("tier", 1)

KeepAliveHead ==
  /\ keep.at = "head"
  /\ IF keep_alive_running THEN KeepGoes("tier", 1) ELSE KeepGoes("done", 0)

NextTier == IF keep.n = Len(KeepAliveOrder) THEN KeepGoes("sleep", 0) ELSE KeepGoes("tier", keep.n + 1)

(* One model: the loop is left when stopping, the model skipped when in use. *)
KeepAliveTier ==
  /\ keep.at = "tier"
  /\ IF ~keep_alive_running THEN KeepGoes("sleep", 0)
     ELSE IF inflight[KeepAliveOrder[keep.n]] > 0 THEN NextTier
     ELSE KeepGoes("dial", keep.n)

(* call_ollama_api, some time after the counter was read. *)
KeepAlivePings == keep.at = "dial" /\ KeepGoes("ping", keep.n)

(* It ends within its timeout, or ended before there was a connection. *)
KeepAlivePinged == keep.at \in {"dial", "ping"} /\ NextTier

KeepAliveSleeps == keep.at = "sleep" /\ KeepGoes("head", 0)

KeepAliveStep ==
  KeepAliveHead \/ KeepAliveTier \/ KeepAlivePings \/ KeepAlivePinged \/ KeepAliveSleeps
CallStep(t) == GetsNoThread(t) \/ ServerAnswers(t) \/ GenerateThrows(t) \/ Judge(t) \/ Settle(t)

GraniteNext ==
  \/ \E t \in Callers, m \in Models, async \in BOOLEAN : Generate(t, m, async)
  \/ \E t \in Callers : CallStep(t)
  \/ StartKeepAlive \/ StopKeepAlive \/ JoinKeepAlive
  \/ KeepAliveStep

(* Every call has a timeout, so the keep-alive thread goes on; so does a   *)
(* stop() that can.                                                        *)
GraniteSpec ==
  /\ GraniteInit /\ [][GraniteNext]_graniteVars
  /\ WF_graniteVars(KeepAliveStep) /\ WF_graniteVars(JoinKeepAlive)
-----------------------------------------------------------------------------
(* Types of granite_client.h; the keep-alive thread exists exactly from    *)
(* start to the end of stop, and no asynchronous call in progress is       *)
(* missing from inflight_async_, which one that threw never leaves.        *)
GraniteTypeOK ==
  /\ inflight \in [Tiers -> 0 .. MaxCalls]
  /\ inflight_async \in 0 .. MaxCalls
  /\ Cardinality({t \in Callers : callPC[t] # "idle" /\ job[t].async}) <= inflight_async
  /\ keep_alive_running \in BOOLEAN
  /\ keep \in [at : {"none", "head", "tier", "dial", "ping", "sleep", "done"}, n : 0 .. Len(KeepAliveOrder)]
  /\ callPC \in [Callers -> {"idle", "call", "judge", "settle"}]
  /\ job \in [Callers -> [model : Models, async : BOOLEAN, answer : Answers]]
  /\ keeper \in {"idle", "join"}
  /\ keep.at = "none" <=> keeper = "idle" /\ ~keep_alive_running
  /\ resp \in [answer : Answers, ok : BOOLEAN]
  /\ used \subseteq Tiers /\ calls \in 0 .. MaxCalls

(* No request in progress is missing from its model's counter, whatever    *)
(* the others did to it when they returned (increment_inflight and the     *)
(* returns of generate).                                                   *)
CallsAreCounted == \A tier \in Tiers : Cardinality(Calling(tier)) <= inflight[tier]

(* A model that was used once is kept alive no more: whether its requests  *)
(* are answered, refused, timed out or thrown out, their counter is never  *)
(* back at zero when the keep-alive reads it (generate's early returns and *)
(* exceptions, S2.3).  A ping decided before may still meet the request.   *)
UsedIsPingedNoMore ==
  [][keep.at = "tier" /\ keep'.at = "dial" => KeepAliveOrder[keep.n] \notin used]_graniteVars

(* stop_keep_alive returns, wherever in a round of pings it comes.         *)
KeepAliveStops == keeper = "join" ~> keeper = "idle"

(* What test_ollama_recovery.cpp expects of a live server: a request that  *)
(* was answered well succeeds.                                             *)
GoodAnswerIsUsed == resp.answer = "good" => resp.ok
=============================================================================
