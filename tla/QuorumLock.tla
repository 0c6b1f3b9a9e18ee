----------------------------- MODULE QuorumLock -----------------------------
(***************************************************************************)
(* What the lockdown promises to whoever relies on it: anybody may engage  *)
(* it, ballots are collected only while it is engaged and never outlive    *)
(* the engagement they were cast in, and only the ballot that completes a  *)
(* quorum of distinct voters lifts it.                                     *)
(***************************************************************************)
CONSTANTS Voters,
          Quorums           \* the sets of voters that may lift the lock

VARIABLES locked, ballots

Init == locked = FALSE /\ ballots = {}

Engage ==
  /\ ~locked
  /\ locked' = TRUE
  /\ ballots' = {}

Ballot(v) ==
  /\ locked
  /\ v \notin ballots
  /\ ballots \cup {v} \notin Quorums
  /\ ballots' = ballots \cup {v}
  /\ UNCHANGED locked

Lift(v) ==
  /\ locked
  /\ v \notin ballots
  /\ ballots \cup {v} \in Quorums
  /\ locked' = FALSE
  /\ ballots' = {}

Next == Engage \/ \E v \in Voters : Ballot(v) \/ Lift(v)

Spec == Init /\ [][Next]_<<locked, ballots>>
=============================================================================
