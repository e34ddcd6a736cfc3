----------------------------- MODULE JobManager -----------------------------
(***************************************************************************)
(* The in-process job manager of the standalone server: a capacity gate    *)
(* with backfilling and aging, the promise chain of every job, the event   *)
(* buffer with its SSE streams, and the retention of finished jobs.        *)
(*                                                                         *)
(* JavaScript runs a turn to its end, so an action is one turn: a call     *)
(* from a route, or the continuation of a promise.  What drain, release,   *)
(* finishJob and pruneCompleted do inside a turn is part of the action.    *)
(***************************************************************************)
EXTENDS Integers, FiniteSets

CONSTANTS
  Jobs,           \* jobs that may be submitted, one random ID each
  Tasks,          \* callers of withCapacity; each may call again
  Streams,        \* SSE connections
  Estimate,       \* estimateSlots, rounded up, of every job and task
  MaxConcurrent,  \* maxConcurrent, in slots
  MaxQueued,      \* maxQueued
  MaxRetained,    \* maxRetainedJobs
  MaxPerJob       \* maxSsePerJob

Units == Jobs \cup Tasks

ASSUME JobConstants ==
  /\ Jobs \cap Tasks = {}
  /\ IsFiniteSet(Units)
  /\ Estimate \in [Units -> Int]
  /\ MaxConcurrent \in Nat \ {0}
  /\ MaxQueued \in Nat
  /\ MaxRetained \in Nat
  /\ MaxPerJob \in Nat

VARIABLES
  waiting,       \* the units in the waiting array
  ahead,         \* ahead[u]: those in front of u in it
  aged,          \* those that have waited for maxBackfillWaitMs
  running, runningSlots,
  step,          \* where the promise chain of each unit is
  accepting,
  drained,       \* shutdown's waitForIdle: not called, waiting, its answer
  jobs,          \* the IDs in the job map
  state,         \* job.state
  aborted,       \* the abort signal of each job
  served,        \* the result the compile service has come to
  terminal,      \* control.terminalResult: the done event that was emitted
  result, done,  \* job.result, job.done
  log,           \* does the buffer hold an event before the done event?
  elder,         \* jobs that had finished when this one did
  fresh,         \* finished jobs within minRetentionMs
  subs,          \* job.subscribers
  stream, on, heard  \* streams: open or closed, their job, the outcome sent

gateVars   == <<waiting, ahead, aged, running, runningSlots, step, drained>>
keepVars   == <<jobs, elder, fresh>>
streamVars == <<subs, stream, on, heard>>
vars == <<gateVars, accepting, keepVars, state, aborted, served, terminal,
          result, done, log, streamVars>>

Results == {"success", "internal", "cancelled"}

Init ==
  /\ waiting = {} /\ ahead = [u \in Units |-> {}] /\ aged = {}
  /\ running = 0 /\ runningSlots = 0
  /\ step = [u \in Units |-> "none"]
  /\ accepting = TRUE /\ drained = "no"
  /\ jobs = {} /\ fresh = {}
  /\ elder = [j \in Jobs |-> {}]
  /\ state = [j \in Jobs |-> "none"]
  /\ aborted = [j \in Jobs |-> FALSE]
  /\ served = [j \in Jobs |-> "none"]
  /\ terminal = [j \in Jobs |-> "none"]
  /\ result = [j \in Jobs |-> "none"]
  /\ done = [j \in Jobs |-> FALSE]
  /\ log = [j \in Jobs |-> FALSE]
  /\ subs = [j \in Jobs |-> {}]
  /\ stream = [s \in Streams |-> "none"]
  /\ on = [s \in Streams |-> "none"]
  /\ heard = [s \in Streams |-> "none"]

(***************************************************************************)
(* The capacity gate.                                                      *)
(***************************************************************************)
SlotsFor(u) == IF Estimate[u] < 1 THEN 1
               ELSE IF Estimate[u] > MaxConcurrent THEN MaxConcurrent
               ELSE Estimate[u]

\* The slots of a set of units, counted one by one.
Places(U) == {p \in U \X (1..MaxConcurrent) : p[2] <= SlotsFor(p[1])}
SlotsOf(U) == Cardinality(Places(U))

\* Does the loop of drain() come to start x?  It takes the first waiter that
\* still fits, but once the head of the queue has aged and does not fit, it
\* starts nobody else.  G is what the loop starts in all.
Backfills_Always(x, G, queue, used) ==
  used + SlotsOf(queue[x] \cap G) + SlotsFor(x) <= MaxConcurrent
Backfills(x, G, queue, used) ==
  /\ used + SlotsOf(queue[x] \cap G) + SlotsFor(x) <= MaxConcurrent
  /\ ~ \E h \in queue[x] \ G : h \in aged /\ queue[h] \subseteq G

\* drain(), with the waiters W, their order and the counters as the caller
\* leaves them; every promise it resolves continues in a turn of its own.
Drain(W, queue, count, used, chain) ==
  \E G \in SUBSET W :
    /\ \A x \in W : x \in G <=> Backfills(x, G, queue, used)
    /\ waiting' = W \ G
    /\ ahead' = [u \in Units |-> IF u \in W \ G THEN queue[u] \ G ELSE {}]
    /\ aged' = aged \cap (W \ G)
    /\ running' = count + Cardinality(G)
    /\ runningSlots' = used + SlotsOf(G)
    /\ step' = [u \in Units |-> IF u \in G THEN "granted" ELSE chain[u]]

Idle_NoneWaits(count, W) == W = {}
Idle_Before(count, W) == count = 1 /\ W = {}
Idle(count, W) == count = 0 /\ W = {}

NotifyIdle ==
  drained' = IF drained = "waiting" /\ Idle(running', waiting') THEN "idle" ELSE drained

Acquire(u) ==
  IF waiting = {} /\ runningSlots + SlotsFor(u) <= MaxConcurrent
    THEN /\ running' = running + 1
         /\ runningSlots' = runningSlots + SlotsFor(u)
         /\ step' = [step EXCEPT ![u] = "granted"]
         /\ UNCHANGED <<waiting, ahead, aged>>
    ELSE Drain(waiting \cup {u}, [ahead EXCEPT ![u] = waiting], running,
               runningSlots, [step EXCEPT ![u] = "queued"])

ReleasedSlots(u) == SlotsFor(u)

Release(u, to) ==
  /\ Drain(waiting, ahead, running - 1, runningSlots - ReleasedSlots(u),
           [step EXCEPT ![u] = to])
  /\ NotifyIdle

\* Time passes for a waiter.
Age(u) ==
  /\ u \in waiting \ aged
  /\ aged' = aged \cup {u}
  /\ UNCHANGED <<waiting, ahead, running, runningSlots, step, drained, accepting,
                 keepVars, state, aborted, served, terminal, result, done, log,
                 streamVars>>

(***************************************************************************)
(* The retention of finished jobs.                                         *)
(***************************************************************************)
Prunable_Fresh(j, young) == done[j] /\ subs[j] = {}
Prunable(j, young) == done[j] /\ subs[j] = {} /\ j \notin young

Pruned_OffByOne(present, young, kept) ==
  LET candidates == {j \in present : Prunable(j, young)}
      gone == present \ kept
  IN  /\ gone \subseteq candidates
      /\ \A a \in gone, b \in candidates \ gone : a \in elder[b]
      /\ Cardinality(kept) <= MaxRetained + 1 \/ gone = candidates

\* pruneCompleted(): the oldest candidates go until the count fits; the byte
\* budget may take more of them.
Pruned(present, young, kept) ==
  LET candidates == {j \in present : Prunable(j, young)}
      gone == present \ kept
  IN  /\ gone \subseteq candidates
      /\ \A a \in gone, b \in candidates \ gone : a \in elder[b]
      /\ Cardinality(kept) <= MaxRetained \/ gone = candidates

Prune(young) == \E kept \in SUBSET jobs : Pruned(jobs, young, kept) /\ jobs' = kept

\* finishJob(); its timer is Settle.
FinishJob(j) ==
  /\ done' = [done EXCEPT ![j] = TRUE]
  /\ fresh' = fresh \cup {j}
  /\ elder' = [elder EXCEPT ![j] = {k \in Jobs : done[k]}]
  /\ Prune(fresh')

Settle(j) ==
  /\ j \in fresh
  /\ fresh' = fresh \ {j}
  /\ Prune(fresh')
  /\ UNCHANGED <<gateVars, accepting, elder, state, aborted, served, terminal,
                 result, done, log, streamVars>>

\* sweep(): jobs older than ttlMs go, subscribed or not.
Sweep ==
  /\ \E old \in SUBSET {j \in jobs : done[j] /\ j \notin fresh} :
       \E kept \in SUBSET (jobs \ old) :
         /\ \A a \in old, b \in {j \in jobs : done[j]} \ old : a \in elder[b]
         /\ Pruned(jobs \ old, fresh, kept)
         /\ jobs' = kept
  /\ jobs' # jobs
  /\ UNCHANGED <<gateVars, accepting, elder, fresh, state, aborted, served,
                 terminal, result, done, log, streamVars>>

(***************************************************************************)
(* Events and streams.                                                     *)
(***************************************************************************)
\* An aborted job may only end as cancelled.
Outcome_AsServed(j, r) == r
Outcome(j, r) == IF aborted[j] THEN "cancelled" ELSE r

Closes(closing, value) ==
  /\ stream' = [s \in Streams |-> IF s \in closing THEN "closed" ELSE stream[s]]
  /\ heard' = [s \in Streams |-> IF s \in closing THEN value ELSE heard[s]]
  /\ subs' = [j \in Jobs |-> subs[j] \ closing]
  /\ UNCHANGED on

\* emit({ event: 'done' }): only the first one counts; the streams that are
\* open get it, close and unsubscribe.
EmitOutcome(j, r) ==
  IF terminal[j] # "none"
    THEN UNCHANGED <<terminal, streamVars>>
    ELSE /\ terminal' = [terminal EXCEPT ![j] = Outcome(j, r)]
         /\ Closes({s \in subs[j] : stream[s] = "open"}, terminal'[j])

\* GET .../events: replay, then subscribe.  The socket may be gone already;
\* the first frame that is sent finds out.
Replay_Progress(j) == "none"
Replay(j) == terminal[j]

Subscribe(s, j) ==
  /\ stream[s] = "none"
  /\ j \in jobs
  /\ Cardinality(subs[j]) < MaxPerJob
  /\ on' = [on EXCEPT ![s] = j]
  /\ \E gone \in BOOLEAN :
       /\ heard' = [heard EXCEPT ![s] = IF gone THEN "none" ELSE Replay(j)]
       /\ stream' = [stream EXCEPT ![s] =
            IF Replay(j) # "none" \/ (gone /\ log[j]) THEN "closed" ELSE "open"]
  /\ subs' = [subs EXCEPT ![j] = IF done[j] THEN @ ELSE @ \cup {s}]
  /\ UNCHANGED <<gateVars, accepting, keepVars, state, aborted, served, terminal,
                 result, done, log>>

\* The connection closes, a heartbeat finds it destroyed, or its buffer is full.
Disconnect(s) ==
  /\ stream[s] = "open"
  /\ Closes({s}, "none")
  /\ UNCHANGED <<gateVars, accepting, keepVars, state, aborted, served, terminal,
                 result, done, log>>

(***************************************************************************)
(* submit, the promise chain of a job, and cancel.                         *)
(***************************************************************************)
Submit(j) ==
  /\ accepting
  /\ step[j] = "none"
  /\ \E kept \in SUBSET jobs :
       /\ Pruned(jobs, fresh, kept)
       /\ IF Cardinality(waiting) >= MaxQueued
            THEN /\ jobs' = kept
                 /\ UNCHANGED <<gateVars, state, log>>
            ELSE /\ jobs' = kept \cup {j}
                 /\ state' = [state EXCEPT ![j] = "waiting"]
                 /\ log' = [log EXCEPT ![j] =
                      waiting # {} \/ runningSlots + SlotsFor(j) > MaxConcurrent]
                 /\ Acquire(j)
                 /\ UNCHANGED drained
  /\ UNCHANGED <<accepting, elder, fresh, aborted, served, terminal, result, done,
                 streamVars>>

Start(j) ==
  /\ step[j] = "granted"
  /\ step' = [step EXCEPT ![j] = "compiling"]
  /\ state' = [state EXCEPT ![j] = IF aborted[j] THEN "cancelling" ELSE "active"]
  /\ UNCHANGED <<waiting, ahead, aged, running, runningSlots, drained, accepting,
                 keepVars, aborted, served, terminal, result, done, log, streamVars>>

\* The compile service reports progress ...
Progress(j) ==
  /\ step[j] = "compiling"
  /\ terminal[j] = "none"
  /\ ~log[j]
  /\ log' = [log EXCEPT ![j] = TRUE]
  /\ UNCHANGED <<gateVars, accepting, keepVars, state, aborted, served, terminal,
                 result, done, streamVars>>

\* ... and emits its result, which it returns in a later turn.
Serve(j, r) ==
  /\ step[j] = "compiling"
  /\ served[j] = "none"
  /\ r = "cancelled" => aborted[j]
  /\ served' = [served EXCEPT ![j] = r]
  /\ EmitOutcome(j, r)
  /\ UNCHANGED <<gateVars, accepting, keepVars, state, aborted, result, done, log>>

\* The rest of the chain: result, done event, state, release, finishJob.
Conclude(j, r, final) ==
  /\ result' = [result EXCEPT ![j] = r]
  /\ state' = [state EXCEPT ![j] = final]
  /\ EmitOutcome(j, r)
  /\ Release(j, "over")
  /\ FinishJob(j)
  /\ UNCHANGED <<accepting, aborted, served, log>>

Return(j) ==
  /\ step[j] = "compiling"
  /\ served[j] # "none" \/ aborted[j]
  /\ LET r == Outcome(j, served[j])
     IN  Conclude(j, r, IF r = "cancelled" THEN "cancelled" ELSE "completed")

\* The planner throws before anything was emitted.
Throw(j) ==
  /\ step[j] = "compiling"
  /\ served[j] = "none"
  /\ Conclude(j, Outcome(j, "internal"), IF aborted[j] THEN "cancelled" ELSE "failed")

Unqueued_Still(j) == waiting
Unqueued(j) == waiting \ {j}

\* cancel() of a job whose waiter is in the queue.
CancelWaiting(j) ==
  /\ j \in jobs
  /\ ~done[j] /\ terminal[j] = "none"
  /\ step[j] = "queued"
  /\ result' = [result EXCEPT ![j] = "cancelled"]
  /\ state' = [state EXCEPT ![j] = "cancelled"]
  /\ EmitOutcome(j, "cancelled")
  /\ FinishJob(j)
  /\ Drain(Unqueued(j), [u \in Units |-> ahead[u] \ {j}], running, runningSlots,
           [step EXCEPT ![j] = "over"])
  /\ NotifyIdle
  /\ UNCHANGED <<accepting, aborted, served, log>>

Cancellable(j) == ~done[j] /\ terminal[j] = "none"

\* cancel() of a job that runs, or whose waiter was resolved a turn ago.
CancelRunning(j) ==
  /\ j \in jobs
  /\ Cancellable(j)
  /\ step[j] \in {"granted", "compiling"}
  /\ state' = [state EXCEPT ![j] = "cancelling"]
  /\ aborted' = [aborted EXCEPT ![j] = TRUE]
  /\ UNCHANGED <<gateVars, accepting, keepVars, served, terminal, result, done,
                 log, streamVars>>

(***************************************************************************)
(* withCapacity and shutdown.                                              *)
(***************************************************************************)
TaskCalls(t) ==
  /\ accepting
  /\ step[t] = "none"
  /\ Cardinality(waiting) < MaxQueued
  /\ Acquire(t)
  /\ UNCHANGED <<drained, accepting, keepVars, state, aborted, served, terminal,
                 result, done, log, streamVars>>

TaskEnds(t) ==
  /\ step[t] = "granted"
  /\ Release(t, "none")
  /\ UNCHANGED <<accepting, keepVars, state, aborted, served, terminal, result,
                 done, log, streamVars>>

\* shutdown(): stopAccepting, then waitForIdle.
Shutdown ==
  /\ accepting
  /\ accepting' = FALSE
  /\ drained' = IF running = 0 /\ waiting = {} THEN "idle" ELSE "waiting"
  /\ UNCHANGED <<waiting, ahead, aged, running, runningSlots, step, keepVars, state,
                 aborted, served, terminal, result, done, log, streamVars>>

ShutdownTimeout ==
  /\ drained = "waiting"
  /\ drained' = "timeout"
  /\ UNCHANGED <<waiting, ahead, aged, running, runningSlots, step, accepting,
                 keepVars, state, aborted, served, terminal, result, done, log,
                 streamVars>>

Next ==
  \/ \E j \in Jobs : \/ Submit(j) \/ Start(j) \/ Progress(j)
                     \/ \E r \in Results : Serve(j, r)
                     \/ Return(j) \/ Throw(j)
                     \/ CancelWaiting(j) \/ CancelRunning(j) \/ Settle(j)
  \/ \E t \in Tasks : TaskCalls(t) \/ TaskEnds(t)
  \/ \E u \in Units : Age(u)
  \/ \E s \in Streams : Disconnect(s) \/ \E j \in Jobs : Subscribe(s, j)
  \/ Sweep \/ Shutdown \/ ShutdownTimeout

Spec == Init /\ [][Next]_vars

\* Promises continue, compiles and tasks end (their executor has a deadline),
\* and time passes.  Nobody has to submit, cancel, connect or shut down.
Fairness ==
  /\ \A j \in Jobs : /\ WF_vars(Start(j))
                     /\ WF_vars(Return(j) \/ Throw(j) \/ \E r \in Results : Serve(j, r))
  /\ \A t \in Tasks : WF_vars(TaskEnds(t))
  /\ \A u \in Units : WF_vars(Age(u))

FairSpec == Spec /\ Fairness

(***************************************************************************)
(* Properties.                                                             *)
(***************************************************************************)
Holders == {u \in Units : step[u] \in {"granted", "compiling"}}

GateTypes ==
  /\ waiting \subseteq Units
  /\ ahead \in [Units -> SUBSET Units]
  /\ aged \subseteq waiting
  /\ running \in Nat /\ runningSlots \in Nat
  /\ step \in [Units -> {"none", "queued", "granted", "compiling", "over"}]
  /\ accepting \in BOOLEAN
  /\ drained \in {"no", "waiting", "idle", "timeout"}

JobTypes ==
  /\ jobs \subseteq Jobs /\ fresh \subseteq Jobs
  /\ elder \in [Jobs -> SUBSET Jobs]
  /\ state \in [Jobs -> {"none", "waiting", "active", "cancelling", "completed",
                         "failed", "cancelled"}]
  /\ aborted \in [Jobs -> BOOLEAN]
  /\ served \in [Jobs -> {"none"} \cup Results]
  /\ terminal \in [Jobs -> {"none"} \cup Results]
  /\ result \in [Jobs -> {"none"} \cup Results]
  /\ done \in [Jobs -> BOOLEAN]
  /\ log \in [Jobs -> BOOLEAN]

StreamTypes ==
  /\ subs \in [Jobs -> SUBSET Streams]
  /\ stream \in [Streams -> {"none", "open", "closed"}]
  /\ on \in [Streams -> Jobs \cup {"none"}]
  /\ heard \in [Streams -> {"none"} \cup Results]

\* Every variable holds a value the code can produce.
TypeOK == GateTypes /\ JobTypes /\ StreamTypes

\* The gate's counters are those of the units that hold capacity, and never
\* exceed it: no double release, no slot given to a cancelled waiter, no
\* waiter without its place in the queue.
SlotsAccounted ==
  /\ running = Cardinality(Holders)
  /\ runningSlots = SlotsOf(Holders)
  /\ runningSlots <= MaxConcurrent
  /\ waiting = {u \in Units : step[u] = "queued"}

\* When shutdown is told that the server is idle, every job that was ever
\* submitted has published its outcome and no task is at work.
IdleMeansFinished ==
  drained = "idle" =>
    /\ \A j \in Jobs : state[j] # "none" => done[j]
    /\ \A t \in Tasks : step[t] = "none"

\* The done event a subscriber gets, the result a poll gets and the state it
\* is told are one outcome, whatever order emission, cancellation and the
\* service's return come in.
OutcomesAgree ==
  \A j \in Jobs :
    done[j] => /\ terminal[j] # "none"
               /\ terminal[j] = result[j]
               /\ state[j] = (CASE result[j] = "cancelled" -> "cancelled"
                                [] result[j] = "internal" /\ served[j] = "none" -> "failed"
                                [] OTHER -> "completed")

\* A cancellation that was granted wins over a compile that succeeds late.
CancelWins == \A j \in Jobs : aborted[j] => terminal[j] \in {"none", "cancelled"}

\* A stream that is still open has missed nothing: its job's outcome is yet to
\* be emitted, and it is subscribed to it.
OpenStreamWillHear ==
  \A s \in Streams :
    stream[s] = "open" => terminal[on[s]] = "none" /\ s \in subs[on[s]]

\* A closed stream is not kept as a subscriber ("close directly" when the
\* stream was closed during the replay).
SubscribersAreOpen == \A j \in Jobs : \A s \in subs[j] : stream[s] = "open"

\* A job is forgotten only when it has finished and the window in which a
\* browser may still connect is over.
FinishedStaysReachable ==
  [][\A j \in jobs \ jobs' : done[j] /\ j \notin fresh']_vars

\* While there is a job that may be forgotten, at most one job beyond the
\* limit is retained: the one submitted last.
RetainedBounded ==
  (\E j \in jobs : Prunable(j, fresh)) => Cardinality(jobs) <= MaxRetained + 1

Promise == INSTANCE JobOutcome WITH
  Watchers <- Streams,
  Outcomes <- Results,
  accepted <- {j \in Jobs : state[j] # "none"},
  granted  <- {j \in Jobs : aborted[j]},
  decided  <- terminal,
  polled   <- result,
  told     <- [s \in Streams |-> IF heard[s] = "none" THEN {} ELSE {<<on[s], heard[s]>>}]

\* The manager implements the promise of one outcome: its done event settles
\* a job, and polls, streams and granted cancellations follow it.
KeepsItsPromise == Promise!Spec

\* A job that waits ends, however many small tasks keep the gate busy.
EveryJobEnds == \A j \in Jobs : state[j] = "waiting" ~> done[j]

\* Shutdown learns that the server is idle without its timeout.
IdleIsNoticed == drained = "waiting" ~> drained # "waiting"

=============================================================================
