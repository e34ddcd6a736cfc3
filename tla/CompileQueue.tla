---------------------------- MODULE CompileQueue ----------------------------
(***************************************************************************)
(* The distributed compile queue: gateways admit, share, cancel and        *)
(* replace jobs whose ID is the fingerprint of the request; workers run    *)
(* them; reconcilers project the outcome into the durable event stream.    *)
(* All of them meet in Redis: the submission lock, the BullMQ record, the  *)
(* consumer leases with their cancellation marker, the request-byte ledger *)
(* and the terminal frame.                                                 *)
(*                                                                         *)
(* One action is one Redis round trip of the code.  A critical section is  *)
(* entered together with its first read and left together with its last    *)
(* write: no other lock holder can tell the difference.  Workers, BullMQ   *)
(* and lease expiry do not take the lock, so they interleave everywhere.   *)
(***************************************************************************)
EXTENDS Naturals, FiniteSets, Totals

CONSTANTS
  Jobs,           \* compile request fingerprints (job IDs)
  Clients,        \* compile requests; each runs in its own gateway handler
  Workers,        \* worker processes, concurrency 1 each
  Reconcilers,    \* terminal reconciliations that may be under way at once
  NoOne,          \* no process, no job
  RequestBytes,   \* [Jobs -> Nat \ {0}], the serialized size of each request
  MaxQueued,      \* maxQueuedPerPool
  MaxBytes,       \* maxQueuedRequestBytes
  MaxConsumers,   \* maxConsumersPerJob
  MaxMishaps,     \* bound: crashes, stalls, shutdowns and failed calls
  LockMayExpire,  \* may the lock TTL pass while its holder is still at work?
  AddMayBeLost    \* may Queue.add() take effect and still report an error?

Procs == Clients \cup Reconcilers

ASSUME QueueConstants ==
  /\ IsFiniteSet(Jobs)
  /\ NoOne \notin Procs \cup Workers \cup Jobs
  /\ Clients \cap Reconcilers = {}
  /\ RequestBytes \in [Jobs -> Nat \ {0}]
  /\ MaxQueued \in Nat \ {0}
  /\ MaxBytes \in Nat \ {0}
  /\ MaxConsumers \in Nat \ {0}
  /\ MaxMishaps \in Nat
  /\ LockMayExpire \in BOOLEAN
  /\ AddMayBeLost \in BOOLEAN

VARIABLES
  lock,      \* owner of the submission lock, or NoOne
  job,       \* the BullMQ record of every job ID
  lastGen,   \* how often each job ID was added (names the generations)
  leases,    \* consumers with a live lease on each job ID
  marker,    \* the cancellation marker of each job ID
  ledger,    \* the request-byte row of each job ID, 0 when there is none
  terminal,  \* the durable done frame of each job ID
  notify,    \* job IDs whose completed or failed event awaits a reconciler
  pc, on, seen,          \* gateway handlers and reconcilers: step, job, read
  strip,                 \* reconcilers: started by a worker, to strip the request
  answer, ticket,        \* what a client was told, and the generation it joined
  wpc, won, wgen, abort, ret,  \* workers: step, job, generation, signal, result
  mishaps

queueVars  == <<job, lastGen>>
leaseVars  == <<leases, marker>>
clientVars == <<answer, ticket>>
workerVars == <<wpc, won, wgen, abort, ret>>
vars == <<lock, job, lastGen, leases, marker, ledger, terminal, notify,
          pc, on, seen, strip, answer, ticket, wpc, won, wgen, abort, ret, mishaps>>

InFlight == {"waiting", "active"}
Ended    == {"completed", "failed"}

\* "success" stands for every result the code calls reusable, a deterministic
\* compile error included; the others are the transient ones.
Results  == {"success", "internal", "timeout", "cancelled"}

NoRecord == [state |-> "none", gen |-> 0, result |-> "none",
             request |-> FALSE, owner |-> NoOne, stalls |-> 0]
NoFrame  == [gen |-> 0, result |-> "none"]

SubmitSteps == {"state", "serve", "join", "refused", "remove", "unledger",
                "reset", "admit", "measure", "reserve", "add", "undo"}
CancelSteps == {"cstate", "crelease", "ccancel", "crecheck", "cremove", "cpurge"}
ReconcileSteps == {"rstate", "rcompleted", "rfailed", "rstrip"}
Inside == SubmitSteps \cup CancelSteps \cup ReconcileSteps

Init ==
  /\ lock = NoOne
  /\ job = [j \in Jobs |-> NoRecord]
  /\ lastGen = [j \in Jobs |-> 0]
  /\ leases = [j \in Jobs |-> {}]
  /\ marker = [j \in Jobs |-> FALSE]
  /\ ledger = [j \in Jobs |-> 0]
  /\ terminal = [j \in Jobs |-> NoFrame]
  /\ notify = {}
  /\ pc = [p \in Procs |-> "idle"]
  /\ on = [p \in Procs |-> NoOne]
  /\ seen = [p \in Procs |-> NoRecord]
  /\ strip = [p \in Procs |-> FALSE]
  /\ answer = [c \in Clients |-> "none"]
  /\ ticket = [c \in Clients |-> 0]
  /\ wpc = [w \in Workers |-> "idle"]
  /\ won = [w \in Workers |-> NoOne]
  /\ wgen = [w \in Workers |-> 0]
  /\ abort = [w \in Workers |-> "none"]
  /\ ret = [w \in Workers |-> "none"]
  /\ mishaps = 0

(***************************************************************************)
(* The submission lock.                                                    *)
(***************************************************************************)
\* SET key token NX
LockFree == lock = NoOne

\* ... together with the job read that opens every section.
Enter(p, j, step) ==
  /\ LockFree
  /\ lock' = p
  /\ on' = [on EXCEPT ![p] = j]
  /\ seen' = [seen EXCEPT ![p] = job[j]]
  /\ pc' = [pc EXCEPT ![p] = step]

\* Compare-and-delete: releasing a lock that is no longer ours changes nothing.
Leave(p, step) ==
  /\ lock' = IF lock = p THEN NoOne ELSE lock
  /\ pc' = [pc EXCEPT ![p] = step]
  /\ seen' = [seen EXCEPT ![p] = NoRecord]
  /\ strip' = [strip EXCEPT ![p] = FALSE]
  /\ on' = IF step = "done" THEN on ELSE [on EXCEPT ![p] = NoOne]

Step(p, from, to) ==
  /\ pc[p] = from
  /\ pc' = [pc EXCEPT ![p] = to]
  /\ UNCHANGED <<lock, on, seen, strip>>

Mishap ==
  /\ mishaps < MaxMishaps
  /\ mishaps' = mishaps + 1

Answer(c, what, gen) ==
  /\ answer' = [answer EXCEPT ![c] = what]
  /\ ticket' = [ticket EXCEPT ![c] = gen]

Clear(j) ==
  /\ leases' = [leases EXCEPT ![j] = {}]
  /\ marker' = [marker EXCEPT ![j] = FALSE]

(***************************************************************************)
(* DistributedCompileQueue.submit                                          *)
(***************************************************************************)
SubmitBegin(c, j) ==
  /\ pc[c] = "idle"
  /\ Enter(c, j, "state")
  /\ UNCHANGED <<strip, queueVars, leaseVars, ledger, terminal, notify, clientVars,
                 workerVars, mishaps>>

\* The lock stayed taken for the whole admission wait.
SubmitBusy(c) ==
  /\ pc[c] = "idle"
  /\ lock # NoOne
  /\ pc' = [pc EXCEPT ![c] = "done"]
  /\ Answer(c, "busy", 0)
  /\ UNCHANGED <<lock, on, seen, strip, queueVars, leaseVars, ledger, terminal,
                 notify, workerVars, mishaps>>

\* isReusableCompileResult on the return value that was read with the job.
ReusableResult(c) == seen[c].result = "success"

\* reusableState: the state is read now, after the job.
SubmitState(c) ==
  /\ \E resultReusable \in BOOLEAN :
       LET state == job[on[c]].state
       IN  Step(c, "state",
             CASE seen[c].state = "none" -> "reset"
               [] seen[c].state # "none" /\ state \in InFlight -> "join"
               [] /\ seen[c].state # "none" /\ state = "completed"
                  /\ resultReusable /\ ReusableResult(c) -> "serve"
               [] OTHER -> "remove")
  /\ UNCHANGED <<queueVars, leaseVars, ledger, terminal, notify, clientVars,
                 workerVars, mishaps>>

SubmitServe(c) ==
  /\ pc[c] = "serve"
  /\ Clear(on[c])
  /\ Answer(c, "served", 0)
  /\ Leave(c, "done")
  /\ UNCHANGED <<queueVars, ledger, terminal, notify, workerVars, mishaps>>

\* The ACQUIRE script without reset: a marked or full job takes nobody in.
Joinable_Marked(j) == Cardinality(leases[j]) < MaxConsumers
Joinable(j) == ~marker[j] /\ Cardinality(leases[j]) < MaxConsumers

SubmitJoin(c) ==
  LET j == on[c]
  IN  /\ pc[c] = "join"
      /\ IF Joinable(j)
           THEN /\ leases' = [leases EXCEPT ![j] = @ \cup {c}]
                /\ Answer(c, "joined", job[j].gen)
                /\ Leave(c, "done")
           ELSE /\ Step(c, "join", "refused")
                /\ UNCHANGED <<leases, clientVars>>
      /\ UNCHANGED <<queueVars, marker, ledger, terminal, notify, workerVars,
                     mishaps>>

SubmitRefused(c) ==
  /\ pc[c] = "refused"
  /\ Answer(c, IF marker[on[c]] THEN "busy" ELSE "full", 0)
  /\ Leave(c, "done")
  /\ UNCHANGED <<queueVars, leaseVars, ledger, terminal, notify, workerVars,
                 mishaps>>

\* BullMQ refuses to remove a job a worker has locked; the error leaves submit.
SubmitRemove(c) ==
  LET j == on[c]
  IN  /\ pc[c] = "remove"
      /\ IF job[j].state = "active"
           THEN /\ Answer(c, "error", 0)
                /\ Leave(c, "done")
                /\ UNCHANGED job
           ELSE /\ job' = [job EXCEPT ![j] = NoRecord]
                /\ Step(c, "remove", "unledger")
                /\ UNCHANGED clientVars
      /\ UNCHANGED <<lastGen, leaseVars, ledger, terminal, notify, workerVars,
                     mishaps>>

SubmitUnledger(c) ==
  /\ Step(c, "unledger", "reset")
  /\ ledger' = [ledger EXCEPT ![on[c]] = 0]
  /\ UNCHANGED <<queueVars, leaseVars, terminal, notify, clientVars,
                 workerVars, mishaps>>

ForgetEvents_Never(j) == UNCHANGED terminal
ForgetEvents(j) == terminal' = [terminal EXCEPT ![j] = NoFrame]

\* Forget the previous generation's events, leases and marker.
SubmitReset(c) ==
  /\ Step(c, "reset", "admit")
  /\ ForgetEvents(on[c])
  /\ Clear(on[c])
  /\ UNCHANGED <<queueVars, ledger, notify, clientVars, workerVars, mishaps>>

Queued == {j \in Jobs : job[j].state = "waiting"}

\* The pool count, then the ACQUIRE script with reset.
SubmitAdmit(c) ==
  LET j == on[c]
  IN  /\ pc[c] = "admit"
      /\ IF Cardinality(Queued) >= MaxQueued
           THEN /\ Answer(c, "full", 0)
                /\ Leave(c, "done")
                /\ UNCHANGED leaseVars
           ELSE /\ leases' = [leases EXCEPT ![j] = @ \cup {c}]
                /\ marker' = [marker EXCEPT ![j] = FALSE]
                /\ Step(c, "admit", "measure")
                /\ UNCHANGED clientVars
      /\ UNCHANGED <<queueVars, ledger, terminal, notify, workerVars, mishaps>>

Fits_OffByOne(rows, j) == Total(rows, Jobs) < MaxBytes + RequestBytes[j]
Fits(rows, j) == RequestBytes[j] + Total(rows, Jobs) <= MaxBytes

\* A row the reconciliation of the ledger drops: no record, no stored
\* request, or a finished job, whose stored request is stripped first.
Stale_Unless_Active(j) == job[j].state # "active"
Stale(j) == ~job[j].request \/ job[j].state \notin InFlight

\* The sum of the rows, after a reconciliation when the request does not fit.
SubmitMeasure(c) ==
  LET j    == on[c]
      rows == [i \in Jobs |-> IF Stale(i) THEN 0 ELSE ledger[i]]
      kept == IF Fits(ledger, j) THEN ledger ELSE rows
  IN  /\ pc[c] = "measure"
      /\ job' = IF Fits(ledger, j) THEN job
                ELSE [i \in Jobs |-> IF ledger[i] > 0 /\ job[i].state \in Ended
                                     THEN [job[i] EXCEPT !.request = FALSE]
                                     ELSE job[i]]
      /\ ledger' = kept
      /\ Step(c, "measure", IF Fits(kept, j) THEN "reserve" ELSE "undo")
      /\ UNCHANGED <<lastGen, leaseVars, terminal, notify, clientVars,
                     workerVars, mishaps>>

\* The row is written by a command of its own.
SubmitReserve(c) ==
  /\ Step(c, "reserve", "add")
  /\ ledger' = [ledger EXCEPT ![on[c]] = RequestBytes[on[c]]]
  /\ UNCHANGED <<queueVars, leaseVars, terminal, notify, clientVars, workerVars, mishaps>>

\* Queue.add with a known ID creates the record unless one already exists.
Add(j) ==
  IF job[j].state = "none"
    THEN /\ lastGen' = [lastGen EXCEPT ![j] = @ + 1]
         /\ job' = [job EXCEPT ![j] =
                      [NoRecord EXCEPT !.state = "waiting",
                                       !.gen = lastGen[j] + 1,
                                       !.request = TRUE]]
    ELSE UNCHANGED queueVars

SubmitAdd(c) ==
  /\ pc[c] = "add"
  /\ Add(on[c])
  /\ Answer(c, "created", job'[on[c]].gen)
  /\ Leave(c, "done")
  /\ UNCHANGED <<leaseVars, ledger, terminal, notify, workerVars, mishaps>>

\* The call failed, or its effect is in Redis and only the reply was lost.
SubmitAddFails(c) ==
  /\ Mishap
  /\ Step(c, "add", "undo")
  /\ UNCHANGED queueVars \/ (AddMayBeLost /\ Add(on[c]))
  /\ UNCHANGED <<leaseVars, ledger, terminal, notify, clientVars, workerVars>>

SubmitUndo(c) ==
  /\ pc[c] = "undo"
  /\ ledger' = [ledger EXCEPT ![on[c]] = 0]
  /\ Clear(on[c])
  /\ Answer(c, "full", 0)
  /\ Leave(c, "done")
  /\ UNCHANGED <<queueVars, terminal, notify, workerVars, mishaps>>

(***************************************************************************)
(* DistributedCompileQueue.cancelRequest, by a client that holds a lease.  *)
(***************************************************************************)
CancelBegin(c) ==
  /\ pc[c] = "done"
  /\ answer[c] \in {"created", "joined"}
  /\ Enter(c, on[c], "cstate")
  /\ UNCHANGED <<strip, queueVars, leaseVars, ledger, terminal, notify, clientVars,
                 workerVars, mishaps>>

CancelState(c) ==
  /\ pc[c] = "cstate"
  /\ IF seen[c].state = "none"
       THEN /\ Answer(c, "unknown", 0)
            /\ Leave(c, "gone")
       ELSE /\ Step(c, "cstate", IF job[on[c]].state \in Ended
                                 THEN "crelease" ELSE "ccancel")
            /\ UNCHANGED clientVars
  /\ UNCHANGED <<queueVars, leaseVars, ledger, terminal, notify, workerVars,
                 mishaps>>

\* The RELEASE script: the job is over, the lease goes, no marker.
CancelRelease(c) ==
  LET j == on[c]
  IN  /\ pc[c] = "crelease"
      /\ leases' = [leases EXCEPT ![j] = @ \ {c}]
      /\ Answer(c, IF c \in leases[j] THEN "ended" ELSE "unknown", 0)
      /\ Leave(c, "gone")
      /\ UNCHANGED <<queueVars, marker, ledger, terminal, notify, workerVars,
                     mishaps>>

\* The CANCEL script: the last consumer to leave sets the marker.
CancelLease(c) ==
  LET j    == on[c]
      rest == leases[j] \ {c}
      last == c \in leases[j] /\ rest = {}
  IN  /\ pc[c] = "ccancel"
      /\ leases' = [leases EXCEPT ![j] = rest]
      /\ marker' = [marker EXCEPT ![j] = @ \/ last]
      /\ IF last
           THEN /\ Step(c, "ccancel", "crecheck")
                /\ Answer(c, answer[c], 0)
           ELSE /\ Answer(c, IF c \in leases[j] THEN "left" ELSE "unknown", 0)
                /\ Leave(c, "gone")
      /\ UNCHANGED <<queueVars, ledger, terminal, notify, workerVars, mishaps>>

CancelRecheck(c) ==
  LET state == job[on[c]].state
  IN  /\ pc[c] = "crecheck"
      /\ IF state = "waiting"
           THEN /\ Step(c, "crecheck", "cremove")
                /\ UNCHANGED clientVars
           ELSE /\ Answer(c, IF state \in Ended THEN "ended" ELSE "cancelling", 0)
                /\ Leave(c, "gone")
      /\ UNCHANGED <<queueVars, leaseVars, ledger, terminal, notify,
                     workerVars, mishaps>>

\* A worker may have taken the job since: then the removal fails, the marker
\* is what stops it, and the state is read once more for the answer.
CancelRemove(c) ==
  LET j == on[c]
  IN  /\ pc[c] = "cremove"
      /\ IF job[j].state = "active"
           THEN /\ \E what \in {"cancelling", "ended"} : Answer(c, what, 0)
                /\ Leave(c, "gone")
                /\ UNCHANGED job
           ELSE /\ job' = [job EXCEPT ![j] = NoRecord]
                /\ Step(c, "cremove", "cpurge")
                /\ UNCHANGED clientVars
      /\ UNCHANGED <<lastGen, leaseVars, ledger, terminal, notify, workerVars,
                     mishaps>>

CancelPurge(c) ==
  LET j == on[c]
  IN  /\ pc[c] = "cpurge"
      /\ ledger' = [ledger EXCEPT ![j] = 0]
      /\ ForgetEvents(j)
      /\ Clear(j)
      /\ Answer(c, "removed", 0)
      /\ Leave(c, "gone")
      /\ UNCHANGED <<queueVars, notify, workerVars, mishaps>>

\* A consumer that vanished: its lease runs out.
LeaseExpires(c, j) ==
  /\ pc[c] \in {"done", "dead"}
  /\ c \in leases[j]
  /\ leases' = [leases EXCEPT ![j] = @ \ {c}]
  /\ Answer(c, answer[c], 0)
  /\ UNCHANGED <<lock, queueVars, marker, ledger, terminal, notify, pc, on,
                 seen, strip, workerVars, mishaps>>

(***************************************************************************)
(* The worker's job processor, and what BullMQ does around it.             *)
(***************************************************************************)
Take(w, j) ==
  /\ wpc[w] = "idle"
  /\ job[j].state = "waiting"
  /\ job' = [job EXCEPT ![j].state = "active", ![j].owner = w]
  /\ wpc' = [wpc EXCEPT ![w] = "prepare"]
  /\ won' = [won EXCEPT ![w] = j]
  /\ wgen' = [wgen EXCEPT ![w] = job[j].gen]
  /\ UNCHANGED <<abort, ret, lock, lastGen, leaseVars, ledger, terminal, notify, pc, on,
                 seen, strip, clientVars, mishaps>>

Return(w, r) ==
  /\ wpc' = [wpc EXCEPT ![w] = "returning"]
  /\ ret' = [ret EXCEPT ![w] = r]
  /\ UNCHANGED <<lock, job, lastGen, leaseVars, ledger, notify, pc, on, seen, strip,
                 clientVars, won, wgen, abort, mishaps>>

\* prepareInFlight: one whole critical section; it throws when the job is not
\* in flight any more, or when the lock stays busy.
Prepare(w) ==
  /\ wpc[w] = "prepare"
  /\ lock = NoOne
  /\ job[won[w]].state \in InFlight
  /\ terminal' = [terminal EXCEPT ![won[w]] = NoFrame]
  /\ wpc' = [wpc EXCEPT ![w] = "running"]
  /\ UNCHANGED <<lock, queueVars, leaseVars, ledger, notify, pc, on, seen, strip,
                 clientVars, won, wgen, abort, ret, mishaps>>

PrepareFails(w) ==
  /\ wpc[w] = "prepare"
  /\ lock # NoOne \/ job[won[w]].state \notin InFlight
  /\ Return(w, "fail")
  /\ UNCHANGED terminal

\* The CHECK script: marked, or nobody is left.
Abandoned_Marked(j) == marker[j]
Abandoned(j) == marker[j] \/ leases[j] = {}

\* checkCancellation: the poll that aborts the job's lifetime.
Poll(w) ==
  LET j == won[w]
  IN  /\ wpc[w] = "running"
      /\ abort[w] = "none"
      /\ Abandoned(j)
      /\ marker' = [marker EXCEPT ![j] = TRUE]
      /\ abort' = [abort EXCEPT ![w] = "cancel"]
      /\ UNCHANGED <<lock, queueVars, leases, ledger, terminal, notify, pc, on,
                     seen, strip, clientVars, wpc, won, wgen, ret, mishaps>>

Aborted(w, why) ==
  /\ wpc[w] = "running"
  /\ abort[w] = "none"
  /\ abort' = [abort EXCEPT ![w] = why]
  /\ UNCHANGED <<lock, queueVars, leaseVars, ledger, terminal, notify, pc, on,
                 seen, strip, clientVars, wpc, won, wgen, ret>>

Deadline(w) == Aborted(w, "deadline") /\ UNCHANGED mishaps

\* A drain that ran out of time cancels every job of the worker.
Shutdown(w) == Mishap /\ Aborted(w, "shutdown")

\* The processor returns a result, or throws.
Decide(w) ==
  /\ wpc[w] = "running"
  /\ \/ /\ abort[w] = "none"
        /\ \E r \in {"success", "internal", "fail"} : Return(w, r)
     \/ /\ abort[w] = "deadline"
        /\ Return(w, "timeout")
     \/ /\ abort[w] \in {"cancel", "shutdown"}
        /\ Return(w, "cancelled")
  /\ UNCHANGED terminal

Rest(w) ==
  /\ wpc' = [wpc EXCEPT ![w] = "idle"]
  /\ won' = [won EXCEPT ![w] = NoOne]
  /\ wgen' = [wgen EXCEPT ![w] = 0]
  /\ abort' = [abort EXCEPT ![w] = "none"]
  /\ ret' = [ret EXCEPT ![w] = "none"]

ReturnValue(w) == IF ret[w] = "fail" THEN "none" ELSE ret[w]

OwnsJob(w) ==
  LET j == won[w]
  IN  job[j].state = "active" /\ job[j].owner = w /\ job[j].gen = wgen[w]

\* BullMQ commits the outcome only for the worker whose token locks the job.
Finish(w) ==
  LET j == won[w]
  IN  /\ wpc[w] = "returning"
      /\ Rest(w)
      /\ IF OwnsJob(w)
           THEN /\ job' = [job EXCEPT
                     ![j].state  = IF ret[w] = "fail" THEN "failed" ELSE "completed",
                     ![j].result = ReturnValue(w),
                     ![j].owner  = NoOne]
                /\ notify' = notify \cup {j}
           ELSE UNCHANGED <<job, notify>>
      /\ UNCHANGED <<lock, lastGen, leaseVars, ledger, terminal, pc, on, seen, strip,
                     clientVars, mishaps>>

Crash(w) ==
  /\ Mishap
  /\ wpc[w] # "idle"
  /\ Rest(w)
  /\ UNCHANGED <<lock, queueVars, leaseVars, ledger, terminal, notify, pc, on,
                 seen, strip, clientVars>>

WorksOn(w, j) == wpc[w] # "idle" /\ won[w] = j /\ wgen[w] = job[j].gen

Recovers_Once(j) == job[j].state = "active" /\ WorksOn(job[j].owner, j)
Recovers(j) == job[j].state = "active"

\* The stalled check (maxStalledCount 1).  A worker that is only paused loses
\* its job too, and goes on with it unaware.
Stall(j) ==
  /\ Recovers(j)
  /\ IF WorksOn(job[j].owner, j) THEN Mishap ELSE UNCHANGED mishaps
  /\ IF job[j].stalls = 0
       THEN /\ job' = [job EXCEPT ![j].state = "waiting", ![j].owner = NoOne,
                                  ![j].stalls = 1]
            /\ UNCHANGED notify
       ELSE /\ job' = [job EXCEPT ![j].state = "failed", ![j].owner = NoOne]
            /\ notify' = notify \cup {j}
  /\ UNCHANGED <<lock, lastGen, leaseVars, ledger, terminal, pc, on, seen, strip,
                 clientVars, workerVars>>

(***************************************************************************)
(* CompileTerminalCoordinator.reconcile: by the worker for an event of its *)
(* queue, stripping the request, and by a gateway for a subscriber.        *)
(***************************************************************************)
ReconcileBegin(r, j) ==
  /\ pc[r] = "idle"
  /\ Enter(r, j, "rstate")
  /\ \E byWorker \in BOOLEAN :
       /\ byWorker => j \in notify
       /\ strip' = [strip EXCEPT ![r] = byWorker]
       /\ notify' = IF byWorker THEN notify \ {j} ELSE notify
  /\ UNCHANGED <<queueVars, leaseVars, ledger, terminal, clientVars,
                 workerVars, mishaps>>

\* The worker's attempt gave up on a busy lock, or its process died before it.
NotifyLost(j) ==
  /\ j \in notify
  /\ IF lock # NoOne THEN UNCHANGED mishaps ELSE Mishap
  /\ notify' = notify \ {j}
  /\ UNCHANGED <<lock, queueVars, leaseVars, ledger, terminal, pc, on, seen, strip,
                 clientVars, workerVars>>

IsOutcome_Completed(state) == state = "completed"
IsOutcome(state) == state \in Ended

ReconcileState(r) ==
  LET state == job[on[r]].state
  IN  /\ pc[r] = "rstate"
      /\ IF seen[r].state # "none" /\ IsOutcome(state)
           THEN /\ Step(r, "rstate", IF state = "completed" THEN "rcompleted"
                                     ELSE "rfailed")
                /\ UNCHANGED terminal
           ELSE /\ Leave(r, "idle")
                /\ terminal' = IF seen[r].state # "none" /\ state \in InFlight
                               THEN [terminal EXCEPT ![on[r]] = NoFrame]
                               ELSE terminal
      /\ UNCHANGED <<queueVars, leaseVars, ledger, notify, clientVars,
                     workerVars, mishaps>>

\* The APPEND_TERMINAL script: the first frame stays.
Publish_Again(j, frame) == terminal' = [terminal EXCEPT ![j] = frame]
Publish(j, frame) ==
  terminal' = IF terminal[j] = NoFrame THEN [terminal EXCEPT ![j] = frame]
              ELSE terminal

\* The value is the one
\* read with the job, before its state was.
ReconcileAppend(r) ==
  LET j == on[r]
      value == IF pc[r] = "rcompleted" /\ seen[r].result # "none"
               THEN seen[r].result ELSE "internal"
  IN  /\ pc[r] \in {"rcompleted", "rfailed"}
      /\ Publish(j, [gen |-> seen[r].gen, result |-> value])
      /\ IF strip[r] THEN Step(r, pc[r], "rstrip") ELSE Leave(r, "idle")
      /\ UNCHANGED <<queueVars, leaseVars, ledger, notify, clientVars,
                     workerVars, mishaps>>

\* releaseCompileRequestStorage: strip the request, then drop its row.
ReconcileStrip(r) ==
  LET j == on[r]
  IN  /\ pc[r] = "rstrip"
      /\ Leave(r, "idle")
      /\ IF seen[r].request /\ job[j].state = "none"
           THEN UNCHANGED <<job, ledger>>
           ELSE /\ job' = [job EXCEPT ![j].request = FALSE]
                /\ ledger' = [ledger EXCEPT ![j] = 0]
      /\ UNCHANGED <<lastGen, leaseVars, terminal, notify, clientVars,
                     workerVars, mishaps>>

(***************************************************************************)
(* Gateway processes die inside the critical section; the lock's TTL.      *)
(***************************************************************************)
\* A reconciliation whose process dies is one of another process next, but not
\* before the lock it holds has expired.
Die(p) ==
  /\ Mishap
  /\ pc[p] \in Inside
  /\ pc' = [pc EXCEPT ![p] = IF p \in Reconcilers /\ lock # p THEN "idle" ELSE "dead"]
  /\ UNCHANGED <<lock, on, seen, strip, queueVars, leaseVars, ledger, terminal,
                 notify, clientVars, workerVars>>

LockExpires ==
  /\ lock # NoOne
  /\ IF pc[lock] = "dead" THEN UNCHANGED mishaps ELSE LockMayExpire /\ Mishap
  /\ lock' = NoOne
  /\ pc' = IF pc[lock] = "dead" /\ lock \in Reconcilers
           THEN [pc EXCEPT ![lock] = "idle"] ELSE pc
  /\ UNCHANGED <<on, seen, strip, queueVars, leaseVars, ledger, terminal, notify,
                 clientVars, workerVars>>

Next ==
  \/ \E c \in Clients : \/ \E j \in Jobs : SubmitBegin(c, j) \/ LeaseExpires(c, j)
                        \/ SubmitBusy(c) \/ SubmitState(c) \/ SubmitServe(c)
                        \/ SubmitJoin(c) \/ SubmitRefused(c) \/ SubmitRemove(c)
                        \/ SubmitUnledger(c) \/ SubmitReset(c) \/ SubmitAdmit(c)
                        \/ SubmitMeasure(c) \/ SubmitReserve(c) \/ SubmitAdd(c)
                        \/ SubmitAddFails(c) \/ SubmitUndo(c)
                        \/ CancelBegin(c) \/ CancelState(c) \/ CancelRelease(c)
                        \/ CancelLease(c) \/ CancelRecheck(c) \/ CancelRemove(c)
                        \/ CancelPurge(c)
  \/ \E w \in Workers : \/ \E j \in Jobs : Take(w, j)
                        \/ Prepare(w) \/ PrepareFails(w) \/ Poll(w)
                        \/ Deadline(w) \/ Shutdown(w) \/ Decide(w)
                        \/ Finish(w) \/ Crash(w)
  \/ \E r \in Reconcilers : \/ \E j \in Jobs : ReconcileBegin(r, j)
                            \/ ReconcileState(r) \/ ReconcileAppend(r)
                            \/ ReconcileStrip(r)
  \/ \E j \in Jobs : Stall(j) \/ NotifyLost(j)
  \/ \E p \in Procs : Die(p)
  \/ LockExpires

Spec == Init /\ [][Next]_vars

(***************************************************************************)
(* Fairness.  The gateway's and the worker's own steps, BullMQ's dispatch   *)
(* and stalled check, and the lock's TTL happen sooner or later.  A         *)
(* subscriber's heartbeat repeats the reconciliation, which competes for    *)
(* the lock, as does Prepare.  Clients, leases and an undisturbed compile   *)
(* owe nothing.                                                             *)
(***************************************************************************)
InsideStep(p) ==
  \/ /\ p \in Clients
     /\ \/ SubmitState(p) \/ SubmitServe(p) \/ SubmitJoin(p) \/ SubmitRefused(p)
        \/ SubmitRemove(p) \/ SubmitUnledger(p) \/ SubmitReset(p)
        \/ SubmitAdmit(p) \/ SubmitMeasure(p) \/ SubmitReserve(p) \/ SubmitAdd(p)
        \/ SubmitUndo(p)
        \/ CancelState(p) \/ CancelRelease(p) \/ CancelLease(p)
        \/ CancelRecheck(p) \/ CancelRemove(p) \/ CancelPurge(p)
  \/ /\ p \in Reconcilers
     /\ ReconcileState(p) \/ ReconcileAppend(p) \/ ReconcileStrip(p)

Fairness ==
  /\ \A p \in Procs : WF_vars(InsideStep(p))
  /\ WF_vars(LockExpires)
  /\ \A j \in Jobs : /\ WF_vars(\E w \in Workers : Take(w, j))
                     /\ WF_vars(Stall(j) /\ ~WorksOn(job[j].owner, j))
                     /\ SF_vars(\E r \in Reconcilers : ReconcileBegin(r, j))
  /\ \A w \in Workers : /\ WF_vars(Prepare(w) \/ PrepareFails(w))
                        /\ WF_vars(Poll(w))
                        /\ WF_vars(abort[w] # "none" /\ Decide(w))
                        /\ WF_vars(Finish(w))

FairSpec == Spec /\ Fairness

\* A running job meets its deadline.
DeadlineFairness == \A w \in Workers : WF_vars(Deadline(w))

(***************************************************************************)
(* Properties.                                                             *)
(***************************************************************************)
Record == [state : {"none"} \cup InFlight \cup Ended, gen : Nat,
           result : {"none"} \cup Results, request : BOOLEAN,
           owner : Workers \cup {NoOne}, stalls : {0, 1}]
Frame  == [gen : Nat, result : {"none"} \cup Results]

GatewayTypes ==
  /\ lock \in Procs \cup {NoOne}
  /\ pc \in [Procs -> Inside \cup {"idle", "done", "gone", "dead"}]
  /\ on \in [Procs -> Jobs \cup {NoOne}]
  /\ seen \in [Procs -> Record]
  /\ strip \in [Procs -> BOOLEAN]

QueueTypes ==
  /\ job \in [Jobs -> Record]
  /\ lastGen \in [Jobs -> Nat]

StoreTypes ==
  /\ leases \in [Jobs -> SUBSET Clients]
  /\ marker \in [Jobs -> BOOLEAN]
  /\ ledger \in [Jobs -> Nat]
  /\ terminal \in [Jobs -> Frame]
  /\ notify \subseteq Jobs

ClientTypes ==
  /\ answer \in [Clients -> {"none", "created", "joined", "served", "busy",
                             "full", "error", "left", "removed", "cancelling",
                             "ended", "unknown"}]
  /\ ticket \in [Clients -> Nat]

WorkerTypes ==
  /\ wpc \in [Workers -> {"idle", "prepare", "running", "returning"}]
  /\ won \in [Workers -> Jobs \cup {NoOne}]
  /\ wgen \in [Workers -> Nat]
  /\ abort \in [Workers -> {"none", "cancel", "deadline", "shutdown"}]
  /\ ret \in [Workers -> {"none", "fail"} \cup Results]

\* Every variable holds a value the code can produce.
TypeOK ==
  /\ GatewayTypes
  /\ QueueTypes
  /\ StoreTypes
  /\ ClientTypes
  /\ WorkerTypes
  /\ mishaps \in 0..MaxMishaps

\* Only the owner of the submission lock is inside a critical section, a
\* gateway that died there included in the wait (RedisCompileQueueLock.run).
MutualExclusion ==
  \A p \in Procs : pc[p] \in Inside => lock = p

\* A client that created or joined the generation that is in flight, and has
\* neither cancelled nor lost its lease, is still counted as a consumer and
\* the job is not marked for cancellation: joins, refusals, removals and
\* cancellations by other clients, in any order, never take the job from it.
ConsumerKeepsJob ==
  \A c \in Clients :
    LET j == on[c]
    IN  (/\ ticket[c] # 0
         /\ job[j].state \in InFlight
         /\ job[j].gen = ticket[c]) => c \in leases[j] /\ ~marker[j]

\* The worker whose outcome counts is never told that its consumers left
\* while one of them, of the generation it works on, is still attached.
NoWrongfulAbort ==
  \A w \in Workers, c \in Clients :
    abort[w] = "cancel" /\ OwnsJob(w) /\ won[w] = on[c] => wgen[w] # ticket[c]

\* A done frame in the stream belongs to the generation whose record is
\* stored, never to a replaced or a retried one, and never claims more than
\* the record does.
FrameIsTruthful ==
  \A j \in Jobs :
    terminal[j] # NoFrame /\ job[j].state # "none" =>
      /\ job[j].state \in Ended
      /\ terminal[j].gen = job[j].gen
      /\ terminal[j].result \in {job[j].result, "internal"}

\* What CompileTerminalCoordinator says of itself: it projects BullMQ's
\* authoritative terminal state into the durable result.
FrameIsAuthoritative ==
  \A j \in Jobs :
    terminal[j] # NoFrame /\ job[j].state = "completed" =>
      terminal[j].result = job[j].result

\* While a finished job's record stays, the frame subscribers replay for it
\* is neither changed nor withdrawn.
FrameIsFinal ==
  [][\A j \in Jobs :
       terminal[j] # NoFrame /\ job'[j].gen = terminal[j].gen
         => terminal'[j] = terminal[j]]_vars

\* Where a job ID stands, as its readers see it.  A frame without a record is
\* a rest that nobody is told: the next life forgets it before it begins.
LifeState   == [j \in Jobs |-> IF job[j].state \in Ended THEN "over" ELSE job[j].state]
LifeLost    == [j \in Jobs |-> job[j].state # "none" /\ job[j].stalls = 1]
LifeOutcome == [j \in Jobs |-> job[j].result]
LifeSaid    == [j \in Jobs |-> IF job[j].state = "none" THEN "none" ELSE terminal[j].result]

Lives == INSTANCE JobLives WITH
  Outcomes <- {"none"} \cup Results,
  life     <- lastGen,
  state    <- LifeState,
  lost     <- LifeLost,
  outcome  <- LifeOutcome,
  said     <- LifeSaid

\* Submissions, cancellations, workers that stall or come late, and
\* reconciliations that race all of them keep the promise of one published
\* outcome a life: the queue implements JobLives.
KeepsLives == Lives!Spec

\* Every stored request has its row in the byte ledger.
StoredRequestHasRow ==
  \A j \in Jobs : job[j].request => ledger[j] = RequestBytes[j]

\* The requests stored in Redis never exceed the byte budget, whatever was
\* interrupted between the reservation and its release.
StoredBytesBounded ==
  Total(RequestBytes, {j \in Jobs : job[j].request}) <= MaxBytes

\* A job nobody waits for does not stay in a worker, however its consumers
\* went: by cancelling or by letting their leases run out.  The cancellation
\* poll sees to it, whether or not there is a deadline.
AbandonedJobStops ==
  \A j \in Jobs :
    job[j].state = "active" /\ leases[j] = {} ~>
      job[j].state # "active" \/ leases[j] # {}

\* Every job that was added ends, crashes and stalls included, if its timer
\* aborts it at its deadline.
EveryJobEnds ==
  DeadlineFairness =>
    \A j \in Jobs : job[j].state \in InFlight ~> job[j].state \notin InFlight

\* A finished job's done frame is published, even if the worker died between
\* committing the outcome and reconciling it; unless the job is removed.
OutcomeIsPublished ==
  \A j \in Jobs :
    job[j].state \in Ended ~> terminal[j] # NoFrame \/ job[j].state \notin Ended

=============================================================================
