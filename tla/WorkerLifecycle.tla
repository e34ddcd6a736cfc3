--------------------------- MODULE WorkerLifecycle ---------------------------
(***************************************************************************)
(* The end of a worker.  It advertises itself with heartbeats, keys in     *)
(* Redis that expire, and fetches jobs.  Told to stop, it withdraws the    *)
(* key, pauses the fetch loop, waits for both and for the job it has, but  *)
(* not longer than the drain timeout, and closes, by force if it must.     *)
(* Meanwhile beats are under way, the loop may still be handed a job, and  *)
(* Redis may stop answering: this connection has no command timeout.       *)
(***************************************************************************)
EXTENDS Integers

CONSTANTS
  KeyTTL,        \* ttlMs of the capability key, in ticks
  JobWallTimeout, \* AF_JOB_WALL_TIMEOUT_MS
  DrainTimeout,  \* AF_WORKER_DRAIN_TIMEOUT_MS, checked not to be less
  MaxBeats       \* bound: beats under way at a time

ASSUME LifecycleConstants ==
  /\ KeyTTL \in Nat \ {0} /\ JobWallTimeout \in Nat \ {0} /\ DrainTimeout \in Nat
  /\ JobWallTimeout <= DrainTimeout
  /\ MaxBeats \in Nat \ {0}

VARIABLES
  lifecycle,  \* currentState, starting before it, dead when the process is
  outcome,    \* what waitForDrain resolved with
  drainLeft,  \* ticks until its timer fires
  loop,       \* the fetch loop: idle, fetching, or stopped by pause()
  job,        \* the active job: none, early, or late when the loop was
              \* handed it after the shutdown began
  jobLeft,    \* ticks until its deadline
  beats,      \* pendingBeats: SETs sent and not answered
  revoke,     \* close() of the heartbeat: not called, waiting for the
              \* beats, DEL sent, settled
  key,        \* ticks until the capability key expires
  link        \* the connection: up, hung for good, or gone

lifecycleVars == <<lifecycle, outcome, drainLeft, loop, job, jobLeft, beats, revoke, key, link>>

LifecycleInit ==
  /\ lifecycle = "starting" /\ outcome = "none" /\ drainLeft = 0
  /\ loop = "idle" /\ job = "none" /\ jobLeft = 0
  /\ beats = 0 /\ revoke = "no" /\ key = 0 /\ link = "up"

Alive == lifecycle # "dead"

----------------------------------------------------------------------------
(* The heartbeat. *)

\* The first beat is awaited before there is a fetch loop or a signal handler.
Start ==
  /\ lifecycle = "starting"
  /\ lifecycle' = "running"
  /\ key' = KeyTTL
  /\ UNCHANGED <<outcome, drainLeft, loop, job, jobLeft, beats, revoke, link>>

MayBeat_Always == Alive
MayBeat == Alive /\ revoke = "no"

Beat ==
  /\ MayBeat /\ lifecycle # "starting" /\ link # "gone" /\ beats < MaxBeats
  /\ beats' = beats + 1
  /\ UNCHANGED <<lifecycle, outcome, drainLeft, loop, job, jobLeft, revoke, key, link>>

\* Redis executes a SET.  The answer may be lost with the connection: the
\* client then sends the same command again.
ServeBeat ==
  /\ beats > 0 /\ link = "up"
  /\ key' = KeyTTL
  /\ \/ beats' = beats - 1
     \/ UNCHANGED beats
  /\ UNCHANGED <<lifecycle, outcome, drainLeft, loop, job, jobLeft, revoke, link>>

\* allSettled(pending), then the DEL.
SendDel ==
  /\ Alive /\ revoke = "waiting" /\ beats = 0
  /\ revoke' = "sent"
  /\ UNCHANGED <<lifecycle, outcome, drainLeft, loop, job, jobLeft, beats, key, link>>

ServeDel ==
  /\ revoke = "sent" /\ link = "up"
  /\ revoke' = "settled"
  /\ key' = 0
  /\ UNCHANGED <<lifecycle, outcome, drainLeft, loop, job, jobLeft, beats, link>>

\* An error, or a connection that is closed: the TTL is the fallback.
DelFails ==
  /\ Alive /\ revoke = "sent" /\ link # "hung"
  /\ revoke' = "settled"
  /\ UNCHANGED <<lifecycle, outcome, drainLeft, loop, job, jobLeft, beats, key, link>>

RedisHangs ==
  /\ link = "up" /\ lifecycle # "starting"
  /\ link' = "hung"
  /\ UNCHANGED <<lifecycle, outcome, drainLeft, loop, job, jobLeft, beats, revoke, key>>

----------------------------------------------------------------------------
(* The fetch loop and its job. *)

Fetch ==
  /\ lifecycle = "running" /\ loop = "idle" /\ job = "none"
  /\ loop' = "fetching"
  /\ UNCHANGED <<lifecycle, outcome, drainLeft, job, jobLeft, beats, revoke, key, link>>

\* The deadline was stamped when the job was submitted.
Deliver ==
  /\ lifecycle \in {"running", "draining"} /\ loop = "fetching"
  /\ loop' = "idle"
  /\ job' = IF lifecycle = "running" THEN "early" ELSE "late"
  /\ jobLeft' \in 0..JobWallTimeout
  /\ UNCHANGED <<lifecycle, outcome, drainLeft, beats, revoke, key, link>>

\* pause() cuts the connection the fetch is blocked on.
FetchCut ==
  /\ lifecycle = "draining" /\ loop = "fetching"
  /\ loop' = "idle"
  /\ UNCHANGED <<lifecycle, outcome, drainLeft, job, jobLeft, beats, revoke, key, link>>

JobEnds ==
  /\ Alive /\ job # "none"
  /\ job' = "none" /\ jobLeft' = 0
  /\ UNCHANGED <<lifecycle, outcome, drainLeft, loop, beats, revoke, key, link>>

----------------------------------------------------------------------------
(* The shutdown. *)

DrainTime == DrainTimeout

\* SIGTERM or SIGINT; a second one gets the same promise.  close() of the
\* heartbeat goes as far as its first await.
Shutdown ==
  /\ lifecycle = "running"
  /\ lifecycle' = "draining"
  /\ drainLeft' = DrainTime
  /\ revoke' = IF beats = 0 THEN "sent" ELSE "waiting"
  /\ UNCHANGED <<outcome, loop, job, jobLeft, beats, key, link>>

\* pause(false) resolves when the loop has stopped and the job is over.
Paused ==
  /\ lifecycle = "draining" /\ loop = "idle" /\ job = "none"
  /\ loop' = "stopped"
  /\ UNCHANGED <<lifecycle, outcome, drainLeft, job, jobLeft, beats, revoke, key, link>>

Quiescent_Paused == loop = "stopped"
Quiescent == loop = "stopped" /\ revoke = "settled"

TimerFires_Never == FALSE
TimerFires == drainLeft = 0

Resolve(how) ==
  /\ lifecycle = "draining" /\ outcome = "none"
  /\ outcome' = how
  /\ UNCHANGED <<lifecycle, drainLeft, loop, job, jobLeft, beats, revoke, key, link>>

Drained     == Quiescent /\ Resolve("drained")
TimedOut    == TimerFires /\ Resolve("timeout")
PauseFailed == loop # "stopped" /\ Resolve("pause-error")

\* worker.close(); by force after a timeout or an error, when the signal of the
\* job is aborted first and nobody waits for it or for Redis.  After a clean
\* drain it takes leave of Redis, and has no time limit for the answer.
AnswerNeeded == outcome = "drained" /\ link = "hung"

Close ==
  /\ lifecycle = "draining" /\ outcome # "none"
  /\ lifecycle' = "closed"
  /\ loop' = "stopped"
  /\ UNCHANGED <<outcome, drainLeft, job, jobLeft, beats, revoke, key, link>>

\* dataRedis.quit(): what was sent and not answered by then is rejected.
Disconnect ==
  /\ lifecycle = "closed" /\ link # "gone"
  /\ link' = "gone"
  /\ beats' = 0
  /\ UNCHANGED <<lifecycle, outcome, drainLeft, loop, job, jobLeft, revoke, key>>

\* The process is killed; what it had sent Redis may still execute.
Killed ==
  /\ Alive
  /\ lifecycle' = "dead"
  /\ loop' = "stopped" /\ job' = "none" /\ jobLeft' = 0
  /\ UNCHANGED <<outcome, drainLeft, beats, revoke, key, link>>

LessOne(n) == IF n > 0 THEN n - 1 ELSE 0

LifecycleTick ==
  /\ \E n \in {key, drainLeft, jobLeft} : n > 0
  /\ key' = LessOne(key)
  /\ drainLeft' = IF lifecycle = "draining" THEN LessOne(drainLeft) ELSE drainLeft
  /\ jobLeft' = LessOne(jobLeft)
  /\ UNCHANGED <<lifecycle, outcome, loop, job, beats, revoke, link>>

LifecycleNext ==
  \/ Start \/ Beat \/ ServeBeat \/ SendDel \/ ServeDel \/ DelFails \/ RedisHangs
  \/ Fetch \/ Deliver \/ FetchCut \/ JobEnds
  \/ Shutdown \/ Paused \/ Drained \/ TimedOut \/ PauseFailed \/ Close
  \/ Disconnect \/ Killed \/ LifecycleTick

\* Time passes, the timer of the drain fires, what was sent is executed unless
\* the connection hangs, and the promises of the shutdown go on, but for the
\* close that waits for an answer.  No job, fetch or pause ever has to end.
LifecycleFairness ==
  /\ WF_lifecycleVars(LifecycleTick)
  /\ WF_lifecycleVars(TimedOut)
  /\ WF_lifecycleVars(Close /\ ~AnswerNeeded)
  /\ WF_lifecycleVars(beats > 0 /\ ServeBeat /\ beats' = beats - 1)

LifecycleSpec == LifecycleInit /\ [][LifecycleNext]_lifecycleVars /\ LifecycleFairness

(***************************************************************************)
(* Properties.                                                             *)
(***************************************************************************)
\* Every variable keeps to its range.
LifecycleTypeOK ==
  /\ lifecycle \in {"starting", "running", "draining", "closed", "dead"}
  /\ outcome \in {"none", "drained", "timeout", "pause-error"}
  /\ drainLeft \in 0..DrainTimeout
  /\ loop \in {"idle", "fetching", "stopped"}
  /\ job \in {"none", "early", "late"}
  /\ jobLeft \in 0..JobWallTimeout
  /\ beats \in 0..MaxBeats
  /\ revoke \in {"no", "waiting", "sent", "settled"}
  /\ key \in 0..KeyTTL
  /\ link \in {"up", "hung", "gone"}

\* What "drained" claims: no job is left, none can come, and no command that
\* advertises the worker or withdraws it is under way any more.
DrainedIsQuiet ==
  outcome = "drained" =>
    job = "none" /\ loop = "stopped" /\ beats = 0 /\ revoke = "settled"

\* "No future beat can re-advertise this worker": once the revocation has
\* settled, even by an error, the key only runs out.
NeverReadvertised == [][revoke = "settled" => key' <= key]_lifecycleVars

\* The drain timeout cuts off no job of before the shutdown that still had
\* time: the check that it is at least the job timeout is enough.
DrainOutlivesJobs ==
  [][outcome = "none" /\ outcome' = "timeout" /\ job = "early" => jobLeft = 0]_lifecycleVars

\* A shutdown ends although jobs, beats and the revocation may never do; only
\* when Redis hangs after a clean drain does its close wait for ever.
ShutdownEnds ==
  lifecycle = "draining" ~> lifecycle \in {"closed", "dead"} \/ AnswerNeeded
=============================================================================
