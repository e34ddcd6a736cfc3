------------------------------ MODULE Autoscale ------------------------------
(***************************************************************************)
(* The autoscaler of one worker pool: a loop that reads the queue and the  *)
(* capability keys, decides with hysteresis, cooldowns and an idle grace   *)
(* how many replicas there should be, posts the order to a webhook and     *)
(* keeps its state in Redis.  The webhook and the state are two systems:   *)
(* an order may be carried out and not recorded.  An iteration of the loop *)
(* is one tick; every worker advertises a capacity of 1, as worker.ts does.*)
(***************************************************************************)
EXTENDS Integers

CONSTANTS
  MinReplicas, MaxReplicas,
  TargetJobs,       \* targetJobsPerReplica
  Hysteresis,       \* in per cent
  UpCooldown, DownCooldown, IdleGrace,
  PerReplica,       \* capacityPerReplica, for a pool without a live worker
  Loads,            \* bound: the pairs of jobs waiting and jobs active
  MaxChanges,       \* bound: how often the queue changes
  MaxFaults         \* bound: lost replicas, failed posts, writes and states
                    \* together
CONSTANT Never      \* null in the state

ASSUME AutoscaleConstants ==
  /\ MinReplicas \in Nat /\ MaxReplicas \in Nat \ {0} /\ MinReplicas <= MaxReplicas
  /\ TargetJobs \in Nat \ {0} /\ PerReplica \in Nat \ {0} /\ Hysteresis \in 0..90
  /\ UpCooldown \in Nat /\ DownCooldown \in Nat /\ IdleGrace \in Nat
  /\ Loads \subseteq Nat \X Nat /\ MaxChanges \in Nat /\ MaxFaults \in Nat
  /\ Never \notin Nat

VARIABLES
  waiting, active,  \* the queue's counts
  replicas,         \* live capability keys of the pool
  target,           \* what the receiver of the webhook was last told
  step,             \* the loop: off, asleep, posting, recording
  order,            \* the decision of this iteration
  next,             \* nextState of this iteration
  saved,            \* the state in Redis: ages of lastScaleAt and idleSince
  last,             \* the last order that reached the receiver
  calm,             \* nothing but the receiver moved since then
  changes, faults

queueVars == <<waiting, active, replicas, target>>
auditVars == <<last, calm>>
autoscaleVars == <<queueVars, step, order, next, saved, auditVars, changes, faults>>

Larger(a, b)  == IF a > b THEN a ELSE b
Smaller(a, b) == IF a < b THEN a ELSE b

\* Ages beyond the longest period are not told apart.
Long == Larger(UpCooldown, Larger(DownCooldown, IdleGrace))
Older(age) == IF age = Never THEN Never ELSE Smaller(age + 1, Long)
Within_Ever(age, period) == age # Never /\ period > 0
Within(age, period) == age # Never /\ age < period

Demand == waiting + active
CeilDiv(a, b) == (a + b - 1) \div b
Clamp(n) == Smaller(MaxReplicas, Larger(n, MinReplicas))

Average == IF replicas > 0 THEN 1 ELSE PerReplica
ActiveFloor == CeilDiv(active, Average)
RawDesired ==
  Clamp(Larger(IF Demand = 0 THEN MinReplicas ELSE CeilDiv(Demand, Average * TargetJobs),
               ActiveFloor))

Keep(why) == [to |-> replicas, reason |-> why]

UpTarget == RawDesired
ScaleUp(since) ==
  IF 100 * Demand <= replicas * TargetJobs * (100 + Hysteresis) THEN Keep("hysteresis")
  ELSE IF Within(since, UpCooldown) THEN Keep("cooldown")
  ELSE [to |-> UpTarget, reason |-> "scale-up"]

ScaleDown(since, idle) ==
  IF Demand = 0 /\ Within(idle, IdleGrace) THEN Keep("idle-grace")
  ELSE IF 100 * Demand >= (replicas - 1) * TargetJobs * (100 - Hysteresis) /\ Demand # 0
    THEN Keep("hysteresis")
  ELSE IF Within(since, DownCooldown) THEN Keep("cooldown")
  ELSE [to |-> Larger(Larger(RawDesired, ActiveFloor), replicas - 1),
        reason |-> "scale-down"]

\* decideWorkerReplicas: how many replicas, and why.  Above the maximum the
\* code spares the active jobs first, and the clamp at its end undoes that.
Decision(since, idle) ==
  IF replicas < MinReplicas THEN [to |-> MinReplicas, reason |-> "below-minimum"]
  ELSE IF replicas > MaxReplicas
    THEN [to |-> MaxReplicas,
          reason |-> IF ActiveFloor < replicas THEN "above-maximum" ELSE "steady"]
  ELSE IF RawDesired > replicas THEN ScaleUp(since)
  ELSE IF RawDesired < replicas THEN ScaleDown(since, idle)
  ELSE Keep("steady")

\* decisionId: what is hashed into it.  The time is not.
DecisionId_Timed(d, since) ==
  [queue |-> <<waiting, active>>, from |-> replicas, to |-> d.to, why |-> d.reason, at |-> since]
DecisionId(d, since) ==
  [queue |-> <<waiting, active>>, from |-> replicas, to |-> d.to, why |-> d.reason]

NoOrder == [queue |-> <<0, 0>>, from |-> 0, to |-> 0, why |-> "none"]
Blank == [since |-> Never, idle |-> Never]

AutoscaleInit ==
  /\ waiting = 0 /\ active = 0
  /\ replicas = MinReplicas /\ target = MinReplicas
  /\ step = "off" /\ order = NoOrder /\ next = Blank /\ saved = Blank
  /\ last = NoOrder /\ calm = FALSE
  /\ changes = 0 /\ faults = 0

StartService ==
  /\ step = "off"
  /\ step' = "asleep"
  /\ UNCHANGED <<queueVars, order, next, saved, auditVars, changes, faults>>

NextState(d, since, idle) ==
  [since |-> IF d.to # replicas THEN 0 ELSE since, idle |-> idle]

\* An iteration up to the webhook: stats, capabilities, state, decision.
Observe ==
  /\ step = "asleep"
  /\ LET since == Older(saved.since)
         idle  == IF Demand > 0 THEN Never
                  ELSE IF saved.idle = Never THEN 0 ELSE Older(saved.idle)
         d     == Decision(since, idle)
     IN  /\ step' = IF d.to # replicas THEN "posting" ELSE "recording"
         /\ order' = DecisionId(d, since)
         /\ next' = NextState(d, since, idle)
         /\ saved' = [since |-> since, idle |-> Older(saved.idle)]
  /\ UNCHANGED <<queueVars, auditVars, changes, faults>>

\* The receiver gets the order.  Without an answer in time the post counts as
\* failed, and nothing is recorded.
Post ==
  /\ step = "posting"
  /\ target' = order.to
  /\ last' = order
  /\ calm' = (replicas = order.from /\ <<waiting, active>> = order.queue)
  /\ \/ step' = "recording" /\ UNCHANGED faults
     \/ step' = "asleep" /\ faults < MaxFaults /\ faults' = faults + 1
  /\ UNCHANGED <<waiting, active, replicas, order, next, saved, changes>>

PostFails ==
  /\ step = "posting" /\ faults < MaxFaults
  /\ step' = "asleep"
  /\ faults' = faults + 1
  /\ UNCHANGED <<queueVars, order, next, saved, auditVars, changes>>

Record ==
  /\ step = "recording"
  /\ step' = "asleep"
  /\ saved' = next
  /\ UNCHANGED <<queueVars, order, next, auditVars, changes, faults>>

\* SET fails, or the process is stopped and starts again.
RecordFails ==
  /\ step = "recording" /\ faults < MaxFaults
  /\ step' = "asleep"
  /\ faults' = faults + 1
  /\ UNCHANGED <<queueVars, order, next, saved, auditVars, changes>>

\* The state expired or cannot be parsed, or the clock went back.
StateLost ==
  /\ saved # Blank /\ faults < MaxFaults
  /\ saved' = Blank
  /\ faults' = faults + 1
  /\ UNCHANGED <<queueVars, step, order, next, auditVars, changes>>

QueueMoves ==
  /\ changes < MaxChanges /\ step # "off"
  /\ \E load \in Loads \ {<<waiting, active>>} : waiting' = load[1] /\ active' = load[2]
  /\ changes' = changes + 1
  /\ calm' = FALSE
  /\ UNCHANGED <<replicas, target, step, order, next, saved, last, faults>>

\* The receiver starts and stops workers one by one.
Orchestrate ==
  /\ replicas # target
  /\ replicas' = IF replicas < target THEN replicas + 1 ELSE replicas - 1
  /\ UNCHANGED <<waiting, active, target, step, order, next, saved, auditVars, changes, faults>>

\* A worker dies, or one more than ordered joins.
ReplicaFault ==
  /\ faults < MaxFaults /\ step # "off"
  /\ \/ replicas > 0 /\ replicas' = replicas - 1
     \/ replicas <= MaxReplicas /\ replicas' = replicas + 1
  /\ faults' = faults + 1
  /\ calm' = FALSE
  /\ UNCHANGED <<waiting, active, target, step, order, next, saved, last, changes>>

AutoscaleNext ==
  \/ StartService \/ Observe \/ Post \/ PostFails \/ Record \/ RecordFails
  \/ StateLost \/ QueueMoves \/ Orchestrate \/ ReplicaFault

AutoscaleFairness ==
  /\ WF_autoscaleVars(Observe)
  /\ WF_autoscaleVars(Post)
  /\ WF_autoscaleVars(Record)
  /\ WF_autoscaleVars(Orchestrate)

AutoscaleSpec == AutoscaleInit /\ [][AutoscaleNext]_autoscaleVars /\ AutoscaleFairness

(***************************************************************************)
(* Properties.                                                             *)
(***************************************************************************)
\* Every variable keeps to its range.
AutoscaleTypeOK ==
  /\ waiting \in Nat /\ active \in Nat
  /\ replicas \in Nat /\ target \in MinReplicas..MaxReplicas
  /\ step \in {"off", "asleep", "posting", "recording"}
  /\ \A s \in {next, saved} : /\ s.since \in 0..Long \cup {Never}
                              /\ s.idle \in 0..Long \cup {Never}
  /\ calm \in BOOLEAN

Decides == step = "asleep" /\ step' = "posting"

\* "Retrying an unchanged decision is idempotent": an order the receiver has
\* already, recorded or not, is never posted under another decisionId while the
\* queue and the workers are what they were.
RetryIsIdempotent ==
  [][Decides /\ calm /\ replicas = last.from => order' = last]_autoscaleVars

Settled ==
  \/ step = "off"
  \/ /\ step # "posting" /\ replicas = target
     /\ \/ 100 * Demand <= replicas * TargetJobs * (100 + Hysteresis)
        \/ replicas = MaxReplicas

\* With a load that no longer changes and no more faults the orders end, and
\* the workers are enough for the load, or as many as there may be.
Settles == <>[]Settled
=============================================================================
