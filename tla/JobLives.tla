------------------------------ MODULE JobLives ------------------------------
(***************************************************************************)
(* What the queue promises of a job ID, whose jobs replace one another.    *)
(* Each life of the ID is tried, at most twice, until it has one outcome.  *)
(* That outcome, or that something went wrong, is published once and then  *)
(* stays as long as the life does.  A life that is being tried is not      *)
(* replaced, and what was published of one life is not read in the next.   *)
(***************************************************************************)
EXTENDS Naturals

CONSTANTS
  Jobs,
  Outcomes    \* what a try can come to, "none" when it threw

VARIABLES
  life,       \* how many lives each ID has had
  state,      \* of its life: "none", "waiting", "active" or "over"
  lost,       \* whether a try of this life was lost already
  outcome,    \* the outcome of the life
  said        \* what a reader of the ID is told, or "none"

vars == <<life, state, lost, outcome, said>>

Init ==
  /\ life = [j \in Jobs |-> 0]
  /\ state = [j \in Jobs |-> "none"]
  /\ lost = [j \in Jobs |-> FALSE]
  /\ outcome = [j \in Jobs |-> "none"]
  /\ said = [j \in Jobs |-> "none"]

Begin(j) ==
  /\ state[j] = "none"
  /\ life' = [life EXCEPT ![j] = @ + 1]
  /\ state' = [state EXCEPT ![j] = "waiting"]
  /\ UNCHANGED <<lost, outcome, said>>

Try(j) ==
  /\ state[j] = "waiting"
  /\ state' = [state EXCEPT ![j] = "active"]
  /\ UNCHANGED <<life, lost, outcome, said>>

Lose(j) ==
  /\ state[j] = "active"
  /\ ~lost[j]
  /\ lost' = [lost EXCEPT ![j] = TRUE]
  /\ state' = [state EXCEPT ![j] = "waiting"]
  /\ UNCHANGED <<life, outcome, said>>

Settle(j, r) ==
  /\ state[j] = "active"
  /\ state' = [state EXCEPT ![j] = "over"]
  /\ outcome' = [outcome EXCEPT ![j] = r]
  /\ UNCHANGED <<life, lost, said>>

Say(j, r) ==
  /\ state[j] = "over"
  /\ said[j] = "none"
  /\ r \in {outcome[j], "internal"} \ {"none"}
  /\ said' = [said EXCEPT ![j] = r]
  /\ UNCHANGED <<life, state, lost, outcome>>

\* The record goes, and with it all that can be read of the life.
End(j) ==
  /\ state[j] \in {"waiting", "over"}
  /\ state' = [state EXCEPT ![j] = "none"]
  /\ lost' = [lost EXCEPT ![j] = FALSE]
  /\ outcome' = [outcome EXCEPT ![j] = "none"]
  /\ said' = [said EXCEPT ![j] = "none"]
  /\ UNCHANGED life

Next ==
  \E j \in Jobs : \/ Begin(j) \/ Try(j) \/ Lose(j) \/ End(j)
                  \/ \E r \in Outcomes : Settle(j, r) \/ Say(j, r)

Spec == Init /\ [][Next]_vars
=============================================================================
