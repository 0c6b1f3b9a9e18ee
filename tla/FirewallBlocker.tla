---------------------------- MODULE FirewallBlocker ----------------------------
(***************************************************************************)
(* core/firewall: blocks with a time to live, each recorded in blocks_ and *)
(* enforced by two rules of the host's firewall, one per direction.  The   *)
(* firewall is external: every change is a netsh process of its own, which *)
(* may fail, and which run_netsh gives up on after 30 seconds although it  *)
(* runs on.  The rules outlive the process, the records do not.            *)
(*                                                                         *)
(* pc[t] is where thread t stands:                                         *)
(*   idle                not in the blocker                                *)
(*   add_in, add_out     in block(), holding the mutex                     *)
(*   delete_in, delete_out   in do_unblock_locked or the destructor, alike *)
(*   head, lock, scan    expiry_loop: reads the clock, wants the mutex,    *)
(*                       goes through the blocks                           *)
(*   join, close         the destructor                                    *)
(*   done                thread function or destructor at its end          *)
(***************************************************************************)
EXTENDS Naturals, FiniteSets

CONSTANTS Ips,              \* addresses not in allowlist_ (the others are refused at once)
          Callers,          \* threads that call block() and unblock()
          Loop,             \* expiry_thread_
          Owner,            \* the thread that destroys the blocker
          Free, NoBlock, NoJob,
          MaxBlocks         \* bound: blocks begun in a behaviour

ASSUME ThreadsDiffer == Loop # Owner /\ {Loop, Owner, Free} \cap Callers = {} /\ Free \notin {Loop, Owner}
ASSUME BlocksBounded == MaxBlocks \in Nat
ASSUME NoBlockIsNone == NoBlock \notin [stem : Nat, expired : BOOLEAN]

VARIABLES rules,            \* external: the rules of the host's firewall
          overdue,          \* external: netsh processes that outlived their 30 seconds
          blocks,           \* blocks_
          mutex,            \* who holds mutex_
          pc, job,
          due,              \* the blocks past expires_at_ms when expiry_loop read the clock
          running,          \* running_
          stems,            \* rule name stems used (address and millisecond: never again)
          excused           \* history: rules netsh misreported on, or left by a killed process

firewallVars == <<rules, overdue, blocks, mutex, pc, job, due, running, stems, excused>>
hostVars == <<rules, overdue, excused>>

Threads == Callers \cup {Loop, Owner}
Stems == 1 .. MaxBlocks
Rules == [stem : Stems, dir : {"in", "out"}]
Rule(s, d) == [stem |-> s, dir |-> d]
Recorded == {ip \in Ips : blocks[ip] # NoBlock}

FirewallInit ==
  /\ rules = {} /\ overdue = {} /\ excused = {}
  /\ blocks = [ip \in Ips |-> NoBlock]
  /\ mutex = Free
  /\ pc = [t \in Threads |-> IF t = Loop THEN "head" ELSE "idle"]
  /\ job = [t \in Threads |-> NoJob]
  /\ due = {}
  /\ running = TRUE
  /\ stems = 0

Goto(t, where) == pc' = [pc EXCEPT ![t] = where]
Working(t, where) == pc[t] = where
Does(t, j) == job' = [job EXCEPT ![t] = j]

-----------------------------------------------------------------------------
(* run_netsh: exit code 0 means done; anything else, not done or, after    *)
(* the 30 seconds, not yet.                                                *)
Fails(op, r, misreported) ==
  /\ UNCHANGED rules
  /\ \/ UNCHANGED overdue /\ excused' = excused \cup (misreported \cap {r})
     \/ /\ overdue' = overdue \cup {[op |-> op, rule |-> r]}
        /\ excused' = excused \cup {r}

AddRule(r, ok) ==
  IF ok THEN rules' = rules \cup {r} /\ UNCHANGED <<overdue, excused>>
        ELSE Fails("add", r, {})

(* netsh refuses to delete a rule there is not. *)
DeleteRule(r) ==
  \/ r \in rules /\ rules' = rules \ {r} /\ UNCHANGED <<overdue, excused>>
  \/ Fails("delete", r, rules)

(* A netsh process nobody waits for any more ends, with or without effect. *)
OverdueEnds ==
  /\ \E o \in overdue :
       /\ overdue' = overdue \ {o}
       /\ rules' \in {rules, IF o.op = "add" THEN rules \cup {o.rule} ELSE rules \ {o.rule}}
  /\ UNCHANGED <<blocks, mutex, pc, job, due, running, stems, excused>>

-----------------------------------------------------------------------------
(* block(): an address already blocked is refused, which changes nothing.  *)
BlockBegins(t, ip) ==
  /\ running /\ pc[t] = "idle" /\ mutex = Free
  /\ blocks[ip] = NoBlock /\ stems < MaxBlocks
  /\ mutex' = t
  /\ stems' = stems + 1
  /\ Does(t, [ip |-> ip, stem |-> stems', ok |-> FALSE])
  /\ Goto(t, "add_in")
  /\ UNCHANGED <<hostVars, blocks, due, running>>

AddIn(t) ==
  /\ Working(t, "add_in")
  /\ \E ok \in BOOLEAN : /\ AddRule(Rule(job[t].stem, "in"), ok)
                         /\ Does(t, [job[t] EXCEPT !.ok = ok])
  /\ Goto(t, "add_out")
  /\ UNCHANGED <<blocks, mutex, due, running, stems>>

Release(t) == mutex' = Free /\ Goto(t, "idle") /\ Does(t, NoJob)
Record(t) == blocks' = [blocks EXCEPT ![job[t].ip] = [stem |-> job[t].stem, expired |-> FALSE]]

(* Faulty ends of block(): one that records whatever netsh said, and one   *)
(* that records nothing unless both rules were added.                      *)
AddOutRecordsAlways(t) ==
  /\ Working(t, "add_out")
  /\ \E ok \in BOOLEAN : AddRule(Rule(job[t].stem, "out"), ok)
  /\ Record(t)
  /\ Release(t)
  /\ UNCHANGED <<due, running, stems>>

AddOutNeedsBoth(t) ==
  /\ Working(t, "add_out")
  /\ \E ok \in BOOLEAN :
       /\ AddRule(Rule(job[t].stem, "out"), ok)
       /\ IF ok /\ job[t].ok THEN Record(t) ELSE UNCHANGED blocks
  /\ Release(t)
  /\ UNCHANGED <<due, running, stems>>

(* The block is recorded when at least one of its rules was added.         *)
AddOut(t) ==
  /\ Working(t, "add_out")
  /\ \E ok \in BOOLEAN :
       /\ AddRule(Rule(job[t].stem, "out"), ok)
       /\ IF ok \/ job[t].ok THEN Record(t) ELSE UNCHANGED blocks
  /\ Release(t)
  /\ UNCHANGED <<due, running, stems>>

(* unblock(): an address not blocked is refused. *)
Removes(t, ip) ==
  /\ Does(t, [ip |-> ip, stem |-> blocks[ip].stem, ok |-> FALSE])
  /\ Goto(t, "delete_in")

UnblockBegins(t, ip) ==
  /\ running /\ pc[t] = "idle" /\ mutex = Free
  /\ ip \in Recorded
  /\ mutex' = t
  /\ Removes(t, ip)
  /\ UNCHANGED <<hostVars, blocks, due, running, stems>>

DeleteIn(t) ==
  /\ Working(t, "delete_in")
  /\ DeleteRule(Rule(job[t].stem, "in"))
  /\ Goto(t, "delete_out")
  /\ UNCHANGED <<blocks, mutex, job, due, running, stems>>

(* The record is erased whatever became of the rules.  The destructor      *)
(* erases all of them at its end, when nobody can tell the difference.     *)
DeleteOut(t) ==
  /\ Working(t, "delete_out")
  /\ DeleteRule(Rule(job[t].stem, "out"))
  /\ blocks' = [blocks EXCEPT ![job[t].ip] = NoBlock]
  /\ \/ t \in Callers /\ Release(t)
     \/ t = Loop /\ Goto(t, "scan") /\ Does(t, NoJob) /\ UNCHANGED mutex
     \/ t = Owner /\ Goto(t, "close") /\ Does(t, NoJob) /\ UNCHANGED mutex
  /\ UNCHANGED <<due, running, stems>>

-----------------------------------------------------------------------------
(* Time passes a block's expires_at_ms. *)
Expires(ip) ==
  /\ ip \in Recorded /\ ~blocks[ip].expired
  /\ blocks' = [blocks EXCEPT ![ip].expired = TRUE]
  /\ UNCHANGED <<hostVars, mutex, pc, job, due, running, stems>>

ExpiredStems == {blocks[ip].stem : ip \in {i \in Recorded : blocks[i].expired}}

(* A faulty loop that looks for the blocks that have not expired. *)
LoopReadsClockInverted ==
  /\ Working(Loop, "head")
  /\ due' = IF running THEN {blocks[ip].stem : ip \in Recorded} \ ExpiredStems ELSE due
  /\ Goto(Loop, IF running THEN "lock" ELSE "done")
  /\ UNCHANGED <<hostVars, blocks, mutex, job, running, stems>>

(* expiry_loop: the clock is read before the mutex is taken. *)
LoopReadsClock ==
  /\ Working(Loop, "head")
  /\ due' = IF running THEN ExpiredStems ELSE due
  /\ Goto(Loop, IF running THEN "lock" ELSE "done")
  /\ UNCHANGED <<hostVars, blocks, mutex, job, running, stems>>

LoopLocks ==
  /\ Working(Loop, "lock") /\ mutex = Free
  /\ mutex' = Loop
  /\ Goto(Loop, "scan")
  /\ UNCHANGED <<hostVars, blocks, job, due, running, stems>>

LoopRemoves ==
  /\ Working(Loop, "scan")
  /\ \E ip \in Recorded : blocks[ip].stem \in due /\ Removes(Loop, ip)
  /\ UNCHANGED <<hostVars, blocks, mutex, due, running, stems>>

(* A faulty pass that forgets to leave the mutex. *)
LoopSleepsLocked ==
  /\ Working(Loop, "scan")
  /\ \A ip \in Recorded : blocks[ip].stem \notin due
  /\ due' = {}
  /\ Goto(Loop, "head")
  /\ UNCHANGED <<hostVars, blocks, mutex, job, running, stems>>

LoopSleeps ==
  /\ Working(Loop, "scan")
  /\ \A ip \in Recorded : blocks[ip].stem \notin due
  /\ mutex' = Free
  /\ due' = {}
  /\ Goto(Loop, "head")
  /\ UNCHANGED <<hostVars, blocks, job, running, stems>>

-----------------------------------------------------------------------------
(* The destructor, once no caller is left in the blocker: stop and join    *)
(* the loop, then delete the rules of every block.                         *)
Stops ==
  /\ running /\ \A t \in Callers : pc[t] = "idle"
  /\ running' = FALSE
  /\ Goto(Owner, "join")
  /\ UNCHANGED <<hostVars, blocks, mutex, job, due, stems>>

Joins ==
  /\ Working(Owner, "join") /\ Working(Loop, "done") /\ mutex = Free
  /\ mutex' = Owner
  /\ Goto(Owner, "close")
  /\ UNCHANGED <<hostVars, blocks, job, due, running, stems>>

ClosesOne ==
  /\ Working(Owner, "close")
  /\ \E ip \in Recorded : Removes(Owner, ip)
  /\ UNCHANGED <<hostVars, blocks, mutex, due, running, stems>>

Closed ==
  /\ Working(Owner, "close") /\ Recorded = {}
  /\ mutex' = Free
  /\ Goto(Owner, "done")
  /\ UNCHANGED <<hostVars, blocks, job, due, running, stems>>

(* The process ends, killed or after its destructors, and is started again *)
(* with nothing recorded: the rules stay as they are.                      *)
Restarts ==
  /\ excused' = IF pc[Owner] = "done" THEN excused ELSE excused \cup rules
  /\ blocks' = [ip \in Ips |-> NoBlock]
  /\ mutex' = Free
  /\ pc' = [t \in Threads |-> IF t = Loop THEN "head" ELSE "idle"]
  /\ job' = [t \in Threads |-> NoJob]
  /\ due' = {}
  /\ running' = TRUE
  /\ UNCHANGED <<rules, overdue, stems>>

CallerStep(t) == AddIn(t) \/ AddOut(t) \/ DeleteIn(t) \/ DeleteOut(t)
LoopStep == LoopReadsClock \/ LoopLocks \/ LoopRemoves \/ LoopSleeps \/ DeleteIn(Loop) \/ DeleteOut(Loop)
OwnerStep == Joins \/ ClosesOne \/ Closed \/ DeleteIn(Owner) \/ DeleteOut(Owner)

FirewallNext ==
  \/ \E t \in Callers, ip \in Ips : BlockBegins(t, ip) \/ UnblockBegins(t, ip)
  \/ \E t \in Callers : CallerStep(t)
  \/ \E ip \in Ips : Expires(ip)
  \/ LoopStep
  \/ Stops \/ OwnerStep
  \/ OverdueEnds
  \/ Restarts

(* A thread inside the blocker goes on; the expiry thread gets the mutex   *)
(* when it is free again and again.  Nobody is bound to call or to stop,   *)
(* and no overdue netsh to end.                                            *)
FirewallSpec ==
  /\ FirewallInit /\ [][FirewallNext]_firewallVars
  /\ \A t \in Callers : WF_firewallVars(CallerStep(t))
  /\ SF_firewallVars(LoopStep)
  /\ WF_firewallVars(OwnerStep)
-----------------------------------------------------------------------------
Blocks == [stem : Stems, expired : BOOLEAN]
Jobs == [ip : Ips, stem : Stems, ok : BOOLEAN]
Adding == {"add_in", "add_out"}
Deleting == {"delete_in", "delete_out"}
PCsOf(t) ==
  IF t = Loop THEN {"head", "lock", "scan", "done"} \cup Deleting
  ELSE IF t = Owner THEN {"idle", "join", "close", "done"} \cup Deleting
  ELSE {"idle"} \cup Adding \cup Deleting

(* Types of firewall_blocker.h; the mutex is held exactly inside block(),  *)
(* unblock(), a pass of the loop, and the destructor's deletions.          *)
FirewallTypeOK ==
  /\ rules \subseteq Rules /\ excused \subseteq Rules
  /\ overdue \subseteq [op : {"add", "delete"}, rule : Rules]
  /\ blocks \in [Ips -> Blocks \cup {NoBlock}]
  /\ mutex \in Threads \cup {Free}
  /\ \A t \in Threads :
       /\ pc[t] \in PCsOf(t)
       /\ job[t] \in IF pc[t] \in Adding \cup Deleting THEN Jobs ELSE {NoJob}
       /\ mutex = t <=> pc[t] \in Adding \cup Deleting \cup {"scan", "close"}
  /\ due \subseteq Stems
  /\ running \in BOOLEAN
  /\ stems \in 0 .. MaxBlocks

(* An address reported as blocked is blocked, in one direction at least:   *)
(* whatever the callers, the expiry, failed and late netsh calls did       *)
(* before, nobody who gets the mutex finds a record with no rule (block).  *)
RecordedIsInForce ==
  mutex = Free => \A ip \in Recorded : \E r \in rules : r.stem = blocks[ip].stem

(* A rule of the host without a record is the fault of netsh, which said   *)
(* it had failed when it had not, or could not delete the rule, or of a    *)
(* process killed while blocking: no order of calls, expiry and shutdown   *)
(* of the blocker leaves one behind (block, do_unblock_locked).            *)
OrphansAreExcused ==
  mutex = Free =>
    \A r \in rules \ excused : \E ip \in Recorded : blocks[ip].stem = r.stem

(* Every block expires for good: once its time has passed it is taken off  *)
(* the records, however the callers keep the mutex busy (expiry_loop).     *)
ExpiredIsForgotten ==
  \A s \in Stems : s \in ExpiredStems ~> s \notin ExpiredStems
=============================================================================
