# TLA+ models of SketchForge

SketchForge compiles Arduino sketches: in the browser, on a standalone server,
or on a cluster of gateways and workers that meet in Redis.  This directory
holds TLA+ models of its coordination logic, the TLC configurations that check
them, and TLAPS proofs of the properties that matter most.  Every definition is
translated from the code; `PROJECT.json` maps each one to its lines.

## 1. Inventory

| Component | State | Operations | What makes it correct |
|---|---|---|---|
| Distributed queue, `distributed-queue.ts` | BullMQ records, request-byte ledger | `submit`, `cancelRequest`, ledger reconciliation | one job per fingerprint, shared by its clients; nobody loses a job another client cancels; byte budget |
| Submission lock and terminal coordinator, `queue-terminal.ts` | lock token with TTL | `run`, `prepareInFlight`, `reconcile` | mutual exclusion, recovery after a crash, the done frame is that of the stored generation |
| Consumer leases, `compile-cancellation.ts` | sorted set of leases, cancellation marker | `acquire`, `cancel`, `release`, `check`, `clear` | the marker is set only when the last consumer is gone, and then stays until the job is replaced |
| Worker, `worker.ts`, `deadline-executor.ts` | one job at a time, abort signal, deadline | processor, poll, completed/failed callbacks | one outcome per generation, abandoned jobs stop, every job ends |
| Worker lifecycle, `worker-lifecycle.ts`, `capabilities.ts` | running, draining, closed; heartbeat key | shutdown, beat, revoke | no job is dropped by an orderly shutdown, a closed worker is not advertised |
| Capacity tokens, `compile-lease.ts` | one key per slot | `run`, renew, release | no more compiles on a host than slots |
| Event stream, `distributed-events.ts`, `compile-event-hub.ts`, SSE route of `gateway.ts` | list, sequence, terminal frame; per stream a cursor | append, appendTerminal, resetTerminal, replay, live forwarding | each subscriber sees the events in order and the done event once |
| In-process job manager, `jobs.ts`, SSE route of `index.ts` | waiting array, counters, job records, subscribers | `submit`, `cancel`, `withCapacity`, `subscribe`, `drain`, pruning, shutdown | capacity, no starvation, one outcome for all observers, bounded retention |
| Rate limits, `rate-limit.ts`, `distributed-rate-limit.ts` | counters per window | `take` | no window exceeds its limit, a refusal costs nothing |
| Autoscaler, `autoscale*.ts` | state per pool in Redis | decide, webhook, write state | bounds, cooldowns, settles under a steady load |
| Action caches, `shared-action-cache.ts`, `file-cache.ts`, `singleflight.ts` | entries by content hash | get, put, evict | an entry is complete when visible; one build per key |
| Executors, `executor/native.ts`, `ck-browser-executor.js` | workspace, outputs, non-cacheable actions | run the actions of a plan, look up, store | a build holds no output that another graph, tool or argument made |
| Cloud projects, `cloud-project-store.ts` | project keys, size hashes, counters, indexes | save, get, delete, sweep | quotas, though the books expire by themselves |
| Artifacts, `artifact-store.ts` | files named by digest, metadata beside them | put, open, prune | what is served has the bytes its address names |
| Browser session, `active-compile-storage.js`, `compile-submission.js`, `latest-operation.js` | stored handle, queue of mutations, active run | begin, commit, recover, delete | a stale operation never overwrites a newer one; an accepted compile survives a reload |
| Page, `app.js` | shown result and firmware, handlers that wait | compile, cancel, poll, flash | no run is waited for for ever; the board gets the result that is shown |
| Flashing, `esp32flash.js`, `stk500.js` | chips remembered by MAC address | connect, erase, write, skip, reset | a chip whose flash is reported complete boots |
| Browser compilers, editor | - | - | sequential pipelines and drawing |
| Compiler core, sandboxes, Rust build core, release tools | - | - | data transformations, pure I/O |

How they interact: a gateway handler admits a request under the *submission
lock* into the *queue*, taking a *lease* for the client and a row in the
*ledger*.  BullMQ hands the job to a *worker*, which clears an old done frame
(again under the lock), polls the *marker*, and returns a result that BullMQ
commits.  The worker's completed or failed callback, or a subscriber's
heartbeat in a gateway, *reconciles*: under the lock it appends the done frame
to the *event stream*, and the worker's callback also strips the stored request
and drops its row.  Nothing but the lock serializes gateways; workers, BullMQ
and expiry do not take it.

Around this: a worker asks the host for a *slot* before it compiles, runs the
graph's actions with the help of the *caches*, puts the *artifact* into the
store and tells with its *heartbeat* that it lives; the *autoscaler* reads
queue and heartbeats; a gateway charges the *rate limit* before it admits, and
keeps the *projects*.  On the other side a page stores the *handle* of its
compile, watches, cancels and polls it, and flashes the result.

What is hard: several processes act on one job ID whose record is replaced
while others still refer to it; any of them may die between two round trips;
the lock is a lease; replies get lost; and the done frame must be published
exactly once although its publisher may be gone.  In the standalone server the
difficulty is the order of callbacks: cancellation, emission and return of one
job, and a gate that must neither leak nor starve.  In the page it is handlers
that resume after the user has gone on, in the stores beside the queue it is
time: leases, windows and books that expire by clocks of their own.

## 2. Modules

| Module | Models | Theorems in |
|---|---|---|
| `CompileQueue` | `distributed-queue.ts`, `queue-terminal.ts`, `compile-cancellation.ts`, the processor of `worker.ts`, terminal scripts of `distributed-events.ts`; these share their state in Redis and are composed in one module | `CompileQueueProofs` |
| `AdmissionLock` | the lock of `queue-terminal.ts` in real time | `ControlPlaneProofs` |
| `EventStream` | `distributed-events.ts`, `compile-event-hub.ts`, `publish` of `worker.ts`, the SSE route of `gateway.ts` | `EventStreamProofs`, `ClientProofs` |
| `JobManager` | `jobs.ts`, the SSE route and shutdown of `index.ts` | `JobManagerProofs` |
| `CompileCapacity` | `compile-lease.ts` | `ControlPlaneProofs` |
| `WorkerLifecycle` | `worker-lifecycle.ts`, the heartbeat of `capabilities.ts`, the shutdown of `worker.ts` | `ControlPlaneProofs` |
| `Autoscale` | `autoscale.ts`, `autoscale-service.ts` | `ControlPlaneProofs` |
| `RateLimit` | `distributed-rate-limit.ts`, `gateway-compile-admission.ts` | `ControlPlaneProofs` |
| `ProjectQuota` | `cloud-project-store.ts` and the project routes | `ControlPlaneProofs` |
| `ActionBuild` | the loop of `executor/native.ts`, `file-cache.ts`, `shared-action-cache.ts`, the keys of `build-ir/builder.ts` | `BuildProofs` |
| `ArtifactStore` | the directory store of `artifact-store.ts` | `BuildProofs` |
| `ActiveCompile` | `active-compile-storage.js`, `compile-submission.js`, the restore of `app.js` | `ActiveCompileProofs`, `ClientProofs` |
| `PageSession` | compile, cancel, poll, stream and `flash()` of `app.js` | `ActiveCompileProofs` |
| `FirmwareFlash` | `esp32flash.js` | `ActiveCompileProofs` |
| `JobOutcome` | nothing: what a job promises its observers | refined by `JobManager` |
| `JobLives` | nothing: what the queue promises of an ID whose jobs replace one another | refined by `CompileQueue` |
| `Permits` | nothing: at most so many inside | refined by `AdmissionLock`, `CompileCapacity` |
| `Totals` | sums over finite sets: of the rows of the ledger (`requestByteLedgerTotal`), of the books of the projects | `TotalLemmas` |

The MC modules give TLC its constants and put components side by side:
`MCCompileQueue` and `MCJobManager` are constants only; `MCWorker` is queue,
build and artifact store; `MCControlPlane` is lock, capacity, lifecycle,
autoscaler, rate limit and quotas; `MCClient` is the event stream and the
stored handle of a page; `MCPage` is job manager, page and chips.  The
components of such a module share no variable (in Redis no key, in the page no
storage), so an interleaving of two of them shows nothing that one alone does
not show.  A variable `part` picks the one that runs; the others rest in one
initial state, in which no fair action of theirs is enabled, so that the
fairness of the whole is that of the part which runs.  Where parts do meet, the
meeting is in one module: submission, cancellation, worker and reconciliation in
`CompileQueue`, worker, stream and pump in `EventStream`, the gate, the jobs and
their streams in `JobManager`.

### CompileQueue

One action is one Redis round trip.  A gateway handler is a client `c` with a
program counter `pc[c]`; a reconciliation is a process `r`; a worker has `wpc`.
A critical section is entered together with its first read (`Enter`) and left
with its last write (`Leave`), which no other lock holder can observe.

| Code | State | Actions |
|---|---|---|
| `RedisCompileQueueLock` | `lock` | `Enter`, `Leave`, `Die`, `LockExpires` |
| `submit` | `pc`, `on`, `seen` (the job as loaded) | `SubmitBegin` ... `SubmitUndo`, one per await |
| `cancelRequest` | the same | `CancelBegin` ... `CancelPurge` |
| consumer leases and marker | `leases`, `marker` | inside the above, and `LeaseExpires` |
| byte ledger | `ledger` | `SubmitMeasure` (the sum, after a reconciliation when the request does not fit), `SubmitReserve` (the row, a command of its own), `SubmitUnledger`, `SubmitUndo`, `CancelPurge`, `ReconcileStrip` |
| BullMQ record | `job[j]` with `state`, `gen`, `result`, `request`, `owner`, `stalls` | `Add`, `Take`, `Finish`, `Stall`, `SubmitRemove`, `CancelRemove` |
| processor | `wpc`, `won`, `wgen`, `abort`, `ret` | `Take`, `Prepare`, `Poll`, `Deadline`, `Shutdown`, `Decide`, `Finish`, `Crash` |
| `reconcile` | `pc[r]`, `seen[r]`, `strip[r]` | `ReconcileBegin`, `ReconcileState`, `ReconcileAppend`, `ReconcileStrip` |
| done frame | `terminal` | `Publish`, `ForgetEvents` |

`gen` counts how often a job ID was added; the code has no such number, it only
names the generations the properties speak of.  Results are abstracted to
reusable (`success`) and the transient ones; progress events are left to
`EventStream`.

### AdmissionLock

The same lock with a clock: a tick is at most one command timeout.  A section
is a number of round trips that is read off the code (`SubmitTrips` and so on),
on the longest path, which is one that fails: after the last command of a
submission its `catch` block makes two more before the release, and a failed
cancellation reads the state once more.  Each takes at most `CommandTimeout` ticks on a gateway's connection and any
time on a worker's, which has no command timeout.  A process that dies, or
whose release fails, leaves its token behind.

### EventStream

One job ID, its replay log, and the SSE handlers that read it.  The submission
lock and the record are there as far as they decide who writes the log: a
replacement is three steps under the lock (`Replace`, `ClearEvents`,
`AddOrRefuse`), a removal two (`Withdraw`, `ClearEvents`), a reconciliation two
or three.

| Code | State | Actions |
|---|---|---|
| the three Redis keys | `log`, `sequence`, `terminal` | `AppendLands` (APPEND_EVENT), `ReconcileAct` (APPEND_TERMINAL, RESET_TERMINAL), `Prepare` (RESET_TERMINAL), `ClearEvents` (DEL) |
| `publish`, `eventTail` | `chain[w]`, `said[w]` | `Emit`, `AppendLands`, `Progress`, each able to fall behind the end of its attempt |
| BullMQ progress events, `CompileEventHub` | `wire[s]` | `Announce` in `Progress` and `ReconcileAnnounce`; `Deliver` |
| SSE route: `lastSent`, `replaying`, `pending`, `checkingTerminal`, `closed` | `lastSent`, `phase`, `pending`, `checking` | `Connect`, `Disconnect`, `Deliver`, `SendBatch` |
| `pumpTerminal` | `rpc[s]`, `saw[s]`, `batch[s]` | `Reconcile`, `ReconcileAct`, `ReconcileAnnounce`, `ReadLog`, `SendBatch`, `PumpBusy`, `Heartbeat` |
| `job.retry()` of an operator | `record` | `Retry` |

`SendAll` is the `send()`s of a turn: an event at or below the cursor is
dropped, a done event closes the stream.  `epoch`, `told`, `inOrder`,
`fresh` and `openedIn` are not in the code; they say in which numbering a frame
was made, whether announcements came in the order of the log, whether a client's
cursor belongs to the present numbering, and in which life of the job its
stream was opened.  A client that was told the outcome does not reconnect, and
a client reconnects when its old handler's pump is over.  Left out: the expiry
of the three keys, which expire together a day after the last event, the byte
limits of an event, and the expiry of the lock under its holder, which is the
subject of `CompileQueue` and `AdmissionLock`.

### JobManager

JavaScript runs a turn to its end, so an action is a turn: a call from a route
or the continuation of a promise.  `waiting`, `ahead` and `aged` are the waiting
array (order and age), `running` and `runningSlots` the counters, `step` the
promise chain of each job or `withCapacity` task.  `Drain` states what the loop
of `drain()` starts: a waiter is started when it fits beside everything started
before it, unless the head of the queue has aged and does not fit.  `terminal`
is `control.terminalResult`, `served` what the compile service has come to.

### JobOutcome, JobLives and Permits

`JobOutcome` is the promise in abstract: an outcome is decided once, a poll and
every watcher are told that one, and after a granted cancellation it is
"cancelled".  `JobManager` implements it; the mapping (`KeepsItsPromise`) reads
the decision off `terminalResult` and the polled outcome off the record.
`JobLives` is the promise of the distributed queue, whose jobs are replaced:
each life of an ID is tried at most twice (`maxStalledCount` is 1), has one
outcome, which is told as it is or as "internal" (finding 1 is such a telling),
and is over before the next begins.  `CompileQueue` implements it
(`KeepsLives`): life and outcome are read off the record, what a reader is told
off the done frame, and a frame that is left without a record is told to nobody.
`Permits` admits at most `Limit` at a time; the submission lock is such a permit
for one gateway, the slots of a host for as many runs as there are slots.

### CompileCapacity

A run asks for the slots one by one with `SET NX PX`, in any order, until its
patience or its deadline is over, renews its token while it compiles and gives
it back by a script that compares the token.  `Stray` is a token whose run was
told that it failed.  Renewal may always fail; `budget` is the deadline, which
may be noticed `Lag` ticks late.

### WorkerLifecycle

Beats are counted while they are under way; any may be executed late, executed
twice or never.  The shutdown withdraws the capability once they have settled,
pauses the fetch loop, which may still be handed a job, waits for it, and closes
by force when the drain timeout is over.  A connection may hang for good; after a
clean drain `worker.close(false)` takes leave of Redis and waits for it then
(`AnswerNeeded`).

### Autoscale

An iteration is `Observe`, `Post`, `Record`, and each of the three may fail
alone.  `Decision` is the code's decision function on integers: the hysteresis
is a per cent, ages stop at the longest period.  The receiver changes the
replicas one by one; `last` and `calm`, which are not in the code, say which
order it has and whether anything else moved since.

### RateLimit

One script, two charges for each compile, three counters each.  The bucket is
computed by the gateway's clock, which may be ahead, the counter expires by that
of Redis, and a command whose answer is lost is sent again.  A command may be
under way for as long as its timeout, which with the defaults is longer than the
slack in a counter's life, so one may come when the counter of its bucket is
gone.  `InTime` says of a bucket that a command which Redis executes now is not
that late; `punctual`, which is not in the code, counts what such commands were
granted.

### ProjectQuota

The keys of the projects expire; the size hashes, the expiry set, the
presentation index and the counters are books with lives of their own.  `Save`,
`Delete` and `Cleanup` are the scripts, with the sweep, the reconciliation and
the repair that precede every decision; `LookUp` and `DropMissing` are the two
steps of the gateway.  The members of the expiry set are those of the size hash,
which one script writes together.  What is lost (`CounterLost`,
`IndexMemberLost`) is what the script's comments claim to survive.

### ActionBuild

A build runs the actions of a fixed graph.  An output is described by the key it
was really made for and by whether its arguments were changed (`bent`), so that
an output under a wrong key shows.  Each lookup, publication, failure, expiry
and damage is a step; a build that fails leaves its calls under way.  That a key
names all of an action's inputs is what the planner promises and is built into
`KeyOf`; that caches and changed arguments keep to it is what is checked.

### ArtifactStore

One digest, and the processes that share its file.  A change of a file gives it
an identity no file in use has.  Verification hashes only when the metadata does
not vouch for the identity that was opened; removals, the move into place and
sweeps interleave with all of it.  Damage happens at rest.

### ActiveCompile

The handle of an accepted compile in IndexedDB or session storage, the queue of
mutations behind `mutationTail` with their tokens, the asynchronous load at the
start and `init()`.  The clock may go back, but never behind an epoch that is
stored and that this page has not learnt of.  A record that could not be written
anywhere is possible, and is the case `stored` is about.  A run is the record
that it is told of when its put is answered, if that is of the same job, and
until then it is `known` under no epoch: to store it again gives it a new one.
That happens when a cancellation finds its handle expired: `HandleAnswered` is
the 404, while the run is active, `HandleExpired` the body of the answer.  A run
that ends in between is in `late`, and `ExpiredLate` stores it all the same;
`revived` is what was stored so, and not deleted since.  Left out: records of
older releases, and the time between acceptance and commit, in which a reload
leaves the compile to the expiry of its lease.

### PageSession

Every place where a handler of `app.js` awaits something is a step of its own
(`BrowserReturns`, `PostAnswered`, `Stored`, `CancelAnswered`, `CancelRead`,
`StoredAgain`, `TimerFires`, `StatusTold`, `Primed`, `PortChosen`, `HexFetched`,
`PortOpened`), with the check of `activeCompile` or of `lastResult` that the code
makes there, or without one where it makes none: of a cancellation the code
checks the run when the answer begins (`CancelAnswered`), and when its body has
been read (`CancelRead`) only before a refusal.
`shown` is `currentCompileContextKey()`, which the user may change at any time.

### FirmwareFlash

`flashed` is `flashedDevices`.  A flash writes its parts one by one, skips the
static ones when the chip is remembered, and may fail at every step; the MAC
address may be unreadable.  `outdated` is not in the code, see section 6.

## 3. Runs

| Run | Question | Bounds |
|---|---|---|
| `QueueOutcomes` | Does a client lose a job it is attached to? Is the done frame that of the stored generation? Does the queue implement `JobLives`? Does a build keep to outputs of its own, and a store to the bytes of its address? | one job ID, two clients, two workers, a reconciler, one mishap; two builds of a compile and a link, in one directory and in two, with other sources or tools; two writers and a reader of one digest |
| `QueueBytes` | Do rows and stored requests stay in step, is the budget kept? | two jobs, budget for one |
| `QueueLiveness` | Does every job end, is its outcome published, does an abandoned job stop without its deadline? | one job, a client, two workers, two mishaps |
| `AdmissionLockFits` | Does a sufficient TTL keep the lock with its holder? Do slots hold without renewal? Is a stopped worker quiet, and done in time? Does the autoscaler settle and not repeat itself? Do windows and quotas hold? | two gateways and a worker; three workers for a slot; two beats under way; three replicas, two changes of the load, a fault; two requests, whose clocks differ, two windows, and commands that take longer than the slack; two visitors, four projects, a loss |
| `JobsCapacity` | Is the gate's accounting exact, is nobody starved, is idle idle and noticed? | two jobs (one asks for more than there is), two tasks that call for ever, two slots |
| `JobsObservers` | Do all observers of a job learn one outcome, as promised, and what is forgotten when? Does the page write what it shows, and never wait for ever? Does a chip boot when its flash is complete? | three jobs, or two and a stream, one retained; two contexts and two runs; two chips, two firmwares, three flashes |
| `StreamReplay` | Does the log end with its one done frame, does the hand-over from replay to live events skip any, is a replay free of old outcomes, is the outcome heard without any notification? Does a reload find the compile that was shown? | one stream, one worker, one event an attempt, a log of two, a hub that may be one notification behind, two lives of the job or one life and a mishap; two compiles, a reload, three failures of the stores |
| `QueueStaleRead`, `QueueLostAdd`, `AdmissionLockDefault`, `JobsStreamLeak`, `StreamStaleCursor` | counterexamples, see section 5 | |

Every property the passing runs check is violated by a plausible change of the
code within the same bounds (the mutants of `PROJECT.json`), so the bounds
reach the interesting cases.  In particular: `MaxMishaps` bounds crashes,
stalls, shutdowns and failed calls together; a generation number is bounded by
the number of clients, each of which submits once.  `LockMayExpire` and
`AddMayBeLost` switch two environment failures, each of which alone breaks a
property; which of them a passing run excludes, its cfg says.
In `StreamReplay`, `MaxTroubles` bounds lives and mishaps together: two lives
are enough for an old frame to meet a new reader, a life and a mishap for an
outcome that nobody announces; `MaxEvents = 2` makes the log drop its oldest row
as soon as an attempt runs twice, and `MaxLag = 1` lets a notification be lost
to BullMQ's trimming of its event stream.  With two compiles and a reload a
delete of the first meets the store of the second and the load that followed,
and an answer to the cancellation of the first comes when the second is stored;
three failures of its stores let an old compile outlive a newer one in the
session storage of its tab while IndexedDB cannot be read; three flashes for a chip to be remembered, changed and met again; five
identities for two writers, a reader, an address and its metadata to differ.

Symmetry.  Clients, workers and jobs are told apart by equality only.  In `MCWorker` the writers of the store are the workers, so one
permutation renames both; reader, builds and hosts are not permuted.  In
`JobsObservers` jobs are permuted although the run has a liveness property,
because `EveryRunEnds` speaks of no job; the liveness runs `QueueLiveness` and
`JobsCapacity` and the run `StreamReplay` use no symmetry.

Deadlock is checked in no passing run: clients come and go for a bounded number of times,
and a worker, a clock and a page may stop for good.  That something goes on is
said by the liveness properties.

Fairness.  In `CompileQueue` a handler inside its section continues (its
commands time out), BullMQ dispatches and checks for stalled jobs, poll and
deadline are timers; a reconciliation for a finished job is tried again by every
heartbeat of a subscriber and competes for the lock, hence strong fairness.
Clients owe nothing.  Deadlines are an assumption of `EveryJobEnds` alone, so
that `AbandonedJobStops` is due to the poll.  In `AdmissionLock` and
`CompileCapacity` time passes and a gateway's round trip ends; a worker's need
not.  In `JobManager` promises continue, compiles and tasks end because the
executor has a deadline, and waiters age.  In `EventStream` the lock's holder
and the pump of an open stream go on; no notification need ever be delivered, no
worker's callback need ever run, no job need ever end.  In `WorkerLifecycle`
time passes, the drain timer fires and the promises of the shutdown go on; no
job, fetch or pause need end, and Redis need not answer.  The close after a
clean drain is fair only while Redis answers, since nothing limits its time, and
`ShutdownEnds` excepts that wait.  In `Autoscale` the
loop's timer fires, and the receiver carries out its orders; as everywhere, the
faults are bounded, so that "settles" means: when they have ended.  In
`PageSession` what the page waits for comes or fails, timers fire, a job has a
deadline, and the stream of a job that is over tells so or breaks.  The poll
asks again every few seconds, and a server that is asked again and again answers
at last: strong fairness of `StatusTold`.  The POST that submits a compile has
no timeout in the code; the fairness assumes that the browser ends it.

## 4. Proofs

TLC checks small instances; the theorems hold for all values of the constants,
given the named assumptions of each module (`QueueConstants` and its like: the
kinds of processes are disjoint, bounds are natural numbers, the TTLs relate as
the code's checks make them; jobs and projects, over which sums run, are
finite).  Every module has a theorem that its variables keep to their ranges,
and `ControlTypes` and `ClientTypes` say it of the modules that put components
side by side.  The others:

* `CompileQueueProofs`, all but the types from the assumption that the lock does
  not expire under its holder: `LockExcludes`, `RowsCoverRequests`,
  `LedgerWithinBudget`, `FramesAreTruthful`, `FramesAreFinal`,
  `ConsumersKeepTheirJobs`, `NobodyIsAbortedWrongly`, the refinement
  `QueueKeepsLives`, and `BytesAreBounded`, which also assumes that `Queue.add`
  does not succeed silently.  The rows keep to the budget although sum and row are
  two commands: who has measured still finds room, because until it writes its
  row others can only drop theirs (`BudgetInv`).  The inductive invariants
  are `TypeInv`, `RowInv`, `BudgetInv`, `FrameInv` and `ConsumerInv`.  `RowInv` says
  which steps of `submit` own a row that has no stored request yet.  `FrameInv`
  relates what a reconciler has read to the record: under the lock, a record it
  has seen ended cannot be replaced, only another lock holder removes it.
  `ConsumerInv` ties leases to the marker: from the reservation of its lease on
  a submitter has one, no client has a ticket for a generation that is still to be
  added, and a worker told to stop the generation it owns finds it marked, which
  an attached client excludes.
  Neither assumption can be dropped.  `QueueLostAdd` is the counterexample
  without the second.  Without the first, a reconciliation that has lost its
  lock publishes the value of a job that was replaced, since nothing fences its
  later writes; `AdmissionLockDefault` shows a section that loses it.
* `ControlPlaneProofs`, the lock: `LongLeaseExcludes` states what the first assumption
  costs: `(1 + SubmitTrips) * CommandTimeout < TTL`, where `SubmitTrips` is 13 and
  what a reconciliation of the ledger takes.  `LeaseInv` says that the
  holder's TTL exceeds what is left of its section at one timeout per trip.
  `LockAdmitsOne`: under the same condition the lock implements `Permits` with a
  limit of one, for gateways; a worker that hangs in its section is no client of
  that permit.
* The slots and the worker, in the same module: `SlotOutlivesJob` and the refinement `SlotsArePermits`, from
  the TTL being longer than the deadline and the lateness of its timer.
  `SlotInv`: while a run compiles its slot holds its token and expires after its
  deadline, so no renewal is needed.  `DrainedAlwaysQuiet`, `RevokedForGood` and
  `DrainNeverCutsShort`, from `DrainInv`: the revocation is sent when no beat is
  under way and none follows; the fetch loop stops only in the shutdown and then
  has no job; a job of before the shutdown has no more time than the drain.
* The rate limit: `AdmittedHasPaid` from `ChargeInv`.  `NoWindowOverspends`
  for any slack, command timeout and clock offsets: `WindowInv` says that no
  command is of a bucket that has not begun by the fastest clock, so a counter
  lives until a command of its bucket can only be late, and that what was
  granted in time is in the counter, or the bucket is over.
* The projects: `QuotasHold` from `QuotaInv`, which says what a script may rely
  on although every book expires by itself.  A stored project is in both size
  hashes with its size (`BooksTrue`); the books outlive the keys, and those of all
  visitors outlive those of one, because a script renews both (`BooksOutlive`);
  the counter is lost or at least the sum of the hash (`CounterCovers`), an
  overestimate when projects have expired.  So what a script reconciles is the
  truth about its visitor and no less than the truth about the others.
* The autoscaler: `OrdersKeepTheBounds`, and `RetriesAreIdempotent` from
  `OrderInv`: clock and saved state say whether the replicas change, never to what
  (`DecisionIsOfTheLoad`), so the order the receiver has is, while nothing else
  moves, the order for this load and these replicas.
* `JobManagerProofs`: `GateIsExact`, `OutcomesAlwaysAgree`, `CancelAlwaysWins`,
  `OpenStreamsHear`, `IdleIsTheTruth`, `RetentionIsBounded`,
  `FinishedStayReachable` and the refinement `PromiseKept`, with no
  assumption on estimates or on the order of the callbacks.  One invariant
  carries them, in parts.  `GateInv` says that the counters are the number and
  the slots of the units that hold capacity, that the waiting array is an order
  on exactly the units that wait, and that what holds capacity fits; that `Drain`
  keeps it rests on `DrainBound`, which looks at the last unit that a drain
  starts.  `ChainInv` ties the step of each promise chain to the job's status,
  `OutcomeInv` the emitted, stored and polled outcomes to each other,
  `StreamInv` an open stream to the subscription it holds, and `WatchInv` what a
  stream was told to the outcome that was decided.  Slots are counted as the
  elements of a set of places, so that sums over units become cardinalities.
  `RetentionIsBounded` needs `OutcomeInv` and `WatchInv`: a stream that closes
  subscribed to a job that has not finished, so no finished job becomes a
  candidate for pruning between two prunings.
* `EventStreamProofs`: `DoneEndsTheLog`, from `LogInv`: only four actions touch
  the log, and each is one of the scripts.  `NoOldOutcome`: a stream that was
  opened in the present life of the job finds no outcome in the log while the job
  is in flight.  `SectionInv` says what a reconciliation knows while it holds the
  lock: a record it saw removed stays away; one that it saw ended and that runs
  again has begun a new life, and all streams of that life still wait for the
  lock, so none of them can be misled by the frame that it is about to append.
  `CursorSkipsNothing` from `CursorInv`: what was announced above a cursor is kept
  by the handler or on its way to it, and what precedes an event on its way is
  kept or comes before it (`Covered`); what precedes an event that the handler
  keeps is kept as well (`Preceded`), so moving the cursor to it skips nothing.
* `BuildProofs`: `OutputsAlwaysOwn` from `BuildInv`: a cache has, under a key,
  what the key stands for or damage (`CachePure`), and an output with changed
  arguments, here or upstream, is tainted and never published.
  `ServedAlwaysGenuine` from `StoreInv`: files in use with one identity are one
  file (`Agree`), and metadata vouches only for right bytes (`Truthful`), though
  it may be written for a file that is gone.
* `ActiveCompileProofs`: `DeletedNeverReturns` from `PageInv`: a deleted handle
  is in no store, in no answer and in no queued put, and behind a delete that is
  the latest mutation nothing holds its handle.  Excepted is what an answer that
  came late has stored again (`revived`).  `ReloadFindsTheRun` from
  `StoreInv`: epochs order the accepted compiles that any store, answer or queued
  put still holds (`EpochOrder`), those stored again excepted, also while the
  load of the start is under way, so what is stored of the run is newest wherever
  a reload looks, unless one stored again is still there (`Foremost`).  Only where
  this page could not load from the durable store may that hold a compile
  accepted later.  `WritesTheLastResult` from
  `ResultInv`: what is shown, at hand and written belongs to the run started
  last.  `FlashedChipsBoot` from `FlashInv`: what is remembered of a chip is what
  the chip holds, or the chip is one of the `outdated`.

Sums and minimal counterexamples.  What the folds of the community modules yield
for every set or sequence needs an induction over data, and the induction
theorems of the library take an operator as a parameter, which the provers here
cannot instantiate.  Two forms avoid it.  A sum is the number of the units that
are summed (`Totals`), so that facts about cardinalities apply (`TotalLemmas`:
that of a part, of two parts together, of one changed row).  Where a sequence
must be searched from its end, the least position at which a claim fails is taken
by the well-ordering of the natural numbers (`WFMin`).

Only model-checked: the liveness properties, since fairness and ENABLED are out
of the prover's reach: `EveryJobEnds` and `OutcomeIsPublished` of the queue,
`AbandonedJobStops`, `EveryJobEnds` and `IdleIsNoticed` of the job manager,
`DoneIsHeard`, `Settles`, `ShutdownEnds`, `EveryRunEnds`.  Every safety property
of the passing runs is stated by a theorem.

## 5. Findings

1. `QueueStaleRead`: `reconcile()` reads `job.returnvalue` before `getState()`;
   a job that completes in between gets an internal error as its durable result.
2. `QueueLostAdd`: a lost reply to `queue.add()` deletes the ledger row of a
   stored request, and the byte bound is lost.
3. `StreamStaleCursor`: the numbering of a job's events starts again at one when
   it is replaced or retried, while an open stream, or a browser that reconnects
   with `Last-Event-ID`, keeps its cursor: the new done frame is at or below it
   and never sent.
4. `AdmissionLockDefault`: the default TTL is shorter than the longest sequence
   of round trips it is meant to exceed.
5. `JobsStreamLeak`: a stream closed during its replay stays subscribed.

## 6. Observations

What the models brought to light beside the findings; none contradicts a
document, or the statement it contradicts has no run of its own.

* `esp32flash.js:23` remembers "chips that were completely flashed in this page,
  MAC to fingerprint of the static parts".  A flash of other static parts while
  the address cannot be read leaves the old fingerprint in place; the next flash
  with the old parts and a readable address then skips them, though the chip
  holds the others.  `outdated` is the set of chips in that state, and
  `CompleteBoots` excepts a flash that meets one by a readable address; it fails
  without the exception.
* `app.js`: a run cancelled while `storeCompile` is awaited leaves the interval
  of its elapsed time; `flash()`, unlike `compile()`, does not cancel a pending
  restore of a project; the form that imports libraries stays enabled while the
  page flashes; firmware that is fetched ahead and fails late sets `lastHex` to
  null after `flash()` has fetched it itself.
* `active-compile-storage.js`: a put that was superseded is reported as stored
  in IndexedDB.
* `autoscale.ts`: above the maximum the decision spares the active jobs, and the
  clamp at the end undoes that; the result is reported as a change that is
  "steady".
* Rate limit: a counter lives a second longer than its window, but the default
  command timeout is one and a half.  A command that Redis executes in the
  second half after its gateway has stamped it may find the counter of its bucket
  gone and begin a new one, so the bucket grants more than its budget;
  `NoWindowOverspends` speaks of the commands that come in time.
* `worker-lifecycle.ts:140`: after a clean drain the worker is closed without a
  time limit, over a connection without a command timeout; if Redis hangs just
  then, the shutdown does not end until the process is killed.
* `app.js:1584`: when a cancellation is answered with 404, the page reads the
  body and then stores the compile again without its handle, and does not look
  again whether the run is still active.  If it has ended meanwhile, its deleted
  record comes back.  A reload then finds it instead of a newer compile, when
  that had been stored under an older epoch or in the session storage, or had its
  own put overtaken.  At line 1597 a granted cancellation likewise clears what
  the page shows by then, the result of a newer compile included.
* `gateway.ts`: a project that a lookup did not find is deleted in a second call,
  which may meet a project saved in between.
* `file-cache.ts`: two directories are made outside the `try` of `put`, so a full
  disk fails a build whose compile has succeeded; an entry whose manifest has
  another shape stays until the cache is pruned.
* `artifact-store.ts`: a put of an artifact past its lifetime returns the address
  while the sweep it starts removes the file; a put of an existing artifact does
  not renew it; the second of two writers removes the first one's file before it
  moves its own.

## 7. Not modelled

* The compiler core (planning, libraries, toolchains, firmware), the browser
  toolchains and their generated drivers, the Rust build core: sequential
  transformations of large data, deterministic functions of their inputs, whose
  fixtures compare them with reference compilers.  They are most of the
  repository's lines, and the reason why the lines that `PROJECT.json` maps are a
  small share of it: a few per cent.  What they share with other processes,
  caches and artifacts, is modelled.
* Release, prewarm and prebuild tools: command lines that run once over files.
* HTTP parsing, headers, paths and manifests: stateless.
* The sandbox and the spawning of processes: I/O of the operating system.  A
  worker that hits a deadline abandons the pipeline and kills its children;
  `CompileQueue` has the abandonment.
* Single flight, the caches in memory, the derived cache and the seeding of a
  worker: they hold what a content hash names; losing it costs a rebuild.
* The S3 artifact store, whose consistency is the bucket's, and the fallback for
  renames on Windows.
* STK500 and the serial monitor: one request at a time over a serial line.  A
  reply that comes after its timeout is a hazard that lies in the timing of a
  bootloader and is not in a model.
* The rate limit in memory of the standalone server, the parsing of
  configurations, and the byte limits and the expiry of event logs.

## 8. What could follow

1. The polling of a recovered job and the tokens of `latest-operation.js`, as
   actions of `PageSession`.
