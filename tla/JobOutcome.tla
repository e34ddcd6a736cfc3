----------------------------- MODULE JobOutcome -----------------------------
(***************************************************************************)
(* What a compile job promises to those who wait for it, whoever runs it:  *)
(* one outcome, decided once, and the same for the stream that is told and *)
(* for the client that polls; and once a cancellation is granted, the      *)
(* outcome is that the job was cancelled.                                  *)
(***************************************************************************)
CONSTANTS
  Jobs,
  Watchers,   \* streams and other clients that are told the outcome
  Outcomes    \* the results a job can come to, "cancelled" among them

VARIABLES
  accepted,   \* jobs whose ID was given to a client
  granted,    \* jobs whose cancellation was promised while they ran
  decided,    \* the outcome of each job, or "none"
  polled,     \* the outcome a poll is answered with, or "none"
  told        \* the outcomes each watcher was told: pairs of a job and one

vars == <<accepted, granted, decided, polled, told>>

Init ==
  /\ accepted = {}
  /\ granted = {}
  /\ decided = [j \in Jobs |-> "none"]
  /\ polled = [j \in Jobs |-> "none"]
  /\ told = [w \in Watchers |-> {}]

Accept(j) ==
  /\ accepted' = accepted \cup {j}
  /\ UNCHANGED <<granted, decided, polled, told>>

\* Only a job that is still open can be promised to end as cancelled.
Grant(j) ==
  /\ j \in accepted
  /\ decided[j] = "none"
  /\ granted' = granted \cup {j}
  /\ UNCHANGED <<accepted, decided, polled, told>>

\* Those in W are told the outcome of j as it is after the step.
Tell(j, W) ==
  told' = [w \in Watchers |-> IF w \in W THEN told[w] \cup {<<j, decided'[j]>>}
                                         ELSE told[w]]

\* The outcome is settled, and may be made known in the same step.
Decide(j, r) ==
  /\ j \in accepted
  /\ decided[j] = "none"
  /\ j \in granted => r = "cancelled"
  /\ decided' = [decided EXCEPT ![j] = r]
  /\ polled' \in {polled, [polled EXCEPT ![j] = r]}
  /\ \E W \in SUBSET Watchers : Tell(j, W)
  /\ UNCHANGED <<accepted, granted>>

Publish(j) ==
  /\ decided[j] # "none"
  /\ polled' \in {polled, [polled EXCEPT ![j] = decided[j]]}
  /\ \E W \in SUBSET Watchers : Tell(j, W)
  /\ UNCHANGED <<accepted, granted, decided>>

Next ==
  \E j \in Jobs : \/ Accept(j) \/ Grant(j) \/ Publish(j)
                  \/ \E r \in Outcomes : Decide(j, r)

Spec == Init /\ [][Next]_vars
=============================================================================
