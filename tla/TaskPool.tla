------------------------------- MODULE TaskPool -------------------------------
(***************************************************************************)
(* What a pool of workers promises to those who submit tasks: every task   *)
(* is begun once and ended once, nothing is begun while something more     *)
(* urgent waits, and at most Capacity tasks are under way.  How threads,   *)
(* locks and wake-ups bring that about is not its business, nor is when    *)
(* the pool is started and stopped.                                        *)
(***************************************************************************)
EXTENDS Naturals, FiniteSets

CONSTANTS Tasks,            \* records with an id and a priority, 0 the most urgent
          Capacity

VARIABLES waiting,          \* tasks submitted and not begun
          active            \* tasks begun and not ended

Init == waiting = {} /\ active = {}

Outstanding == {t.id : t \in waiting \cup active}

(* An id tells apart the tasks that have not ended. *)
Enqueue(t) ==
  /\ t.id \notin Outstanding
  /\ waiting' = waiting \cup {t}
  /\ UNCHANGED active

Begin(t) ==
  /\ t \in waiting
  /\ \A u \in waiting : t.priority <= u.priority
  /\ Cardinality(active) < Capacity
  /\ waiting' = waiting \ {t}
  /\ active' = active \cup {t}

End(t) ==
  /\ t \in active
  /\ active' = active \ {t}
  /\ UNCHANGED waiting

Next == \E t \in Tasks : Enqueue(t) \/ Begin(t) \/ End(t)

Spec == Init /\ [][Next]_<<waiting, active>>
=============================================================================
