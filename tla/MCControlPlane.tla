--------------------------- MODULE MCControlPlane ---------------------------
(***************************************************************************)
(* The parts around the queue, checked side by side: the submission lock,  *)
(* the slots of a host, the end of a worker, the autoscaler, the rate      *)
(* limit and the project quotas.  They share no variable (each has Redis   *)
(* keys of its own), so their interleavings add nothing: one of them runs, *)
(* the others stay as they start, where no fair action of theirs is        *)
(* enabled.                                                                *)
(***************************************************************************)
EXTENDS AdmissionLock, CompileCapacity, WorkerLifecycle, Autoscale, RateLimit,
        ProjectQuota, TLC

VARIABLE part  \* the component that runs

CONSTANTS r1, r2, u1, u2

MCKeysOf == r1 :> {"global", "one"} @@ r2 :> {"global", "two"}
MCBudget == [k \in {"global", "one", "two"} |-> IF k = "global" THEN 4 ELSE 3]
MCFullCost == r1 :> 2 @@ r2 :> 3
MCOffset == r1 :> 1 @@ r2 :> 0

\* Idle, below and in the dead band, beyond the maximum, more active than waiting.
MCLoads == {<<0, 0>>, <<1, 0>>, <<1, 2>>, <<0, 3>>, <<5, 2>>}

\* Three projects against a quota of two, and another visitor.
MCTokens == {<<u1, 1>>, <<u1, 2>>, <<u1, 3>>, <<u2, 1>>}

Rest(others) == UNCHANGED <<others, part>>

ControlInit ==
  /\ Init /\ CapacityInit /\ LifecycleInit /\ AutoscaleInit /\ RateInit
  /\ QuotaInit
  /\ part \in {"lock", "capacity", "worker", "autoscaler", "rate", "quota"}

LockSteps ==
  part = "lock" /\ Next /\ Rest(<<capacityVars, lifecycleVars, autoscaleVars, rateVars, quotaVars>>)
CapacitySteps ==
  part = "capacity" /\ CapacityNext /\ Rest(<<vars, lifecycleVars, autoscaleVars, rateVars, quotaVars>>)
WorkerSteps ==
  part = "worker" /\ LifecycleNext /\ Rest(<<vars, capacityVars, autoscaleVars, rateVars, quotaVars>>)
AutoscalerSteps ==
  part = "autoscaler" /\ AutoscaleNext /\ Rest(<<vars, capacityVars, lifecycleVars, rateVars, quotaVars>>)
RateSteps ==
  part = "rate" /\ RateNext /\ Rest(<<vars, capacityVars, lifecycleVars, autoscaleVars, quotaVars>>)
QuotaSteps ==
  part = "quota" /\ QuotaNext
  /\ Rest(<<vars, capacityVars, lifecycleVars, autoscaleVars, rateVars>>)

ControlNext ==
  \/ LockSteps \/ CapacitySteps \/ WorkerSteps \/ AutoscalerSteps \/ RateSteps
  \/ QuotaSteps

controlVars == <<vars, capacityVars, lifecycleVars, autoscaleVars, rateVars, quotaVars,
                 part>>

ControlSpec ==
  /\ ControlInit /\ [][ControlNext]_controlVars
  /\ Fairness /\ CapacityFairness /\ LifecycleFairness /\ AutoscaleFairness

\* Every variable of the six components keeps to its range.
ControlTypeOK ==
  /\ TypeOK /\ CapacityTypeOK /\ LifecycleTypeOK /\ AutoscaleTypeOK /\ RateTypeOK
  /\ QuotaTypeOK
=============================================================================
