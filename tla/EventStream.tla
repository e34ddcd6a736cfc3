---------------------------- MODULE EventStream ----------------------------
(***************************************************************************)
(* The event stream of one compile job: the replay log that workers and    *)
(* reconcilers write through Lua scripts, the notifications that BullMQ    *)
(* carries to every gateway, and the SSE streams that merge the two.       *)
(*                                                                         *)
(* One action is one round trip, or one turn of a gateway between two of   *)
(* them.  The record of the job and the submission lock are there as far   *)
(* as they decide who writes the log (CompileQueue models them in full).   *)
(***************************************************************************)
EXTENDS Naturals, Sequences, SequencesExt

CONSTANTS
  Streams,       \* SSE clients, each on a gateway with its own event hub
  Workers,       \* worker processes
  Callback,      \* the reconciliation by a worker's completed or failed event
  Submitter,     \* the gateway handler that removes or replaces the job
  Nobody,
  MaxEvents,     \* maxEvents, the length of the replay log
  EventsPerRun,  \* bound: progress events of one attempt
  MaxLag,        \* bound: notifications a hub is behind before it misses some
  MaxTroubles    \* bound: lives of the job ID and mishaps (crashes, stalls,
                 \* failed notifications) together

Reconcilers == Streams \cup {Callback}

ASSUME StreamConstants ==
  /\ Callback \notin Streams
  /\ Submitter \notin Reconcilers
  /\ Nobody \notin Reconcilers \cup Workers \cup {Submitter}
  /\ MaxEvents \in Nat \ {0}
  /\ EventsPerRun \in Nat
  /\ MaxLag \in Nat \ {0}
  /\ MaxTroubles \in Nat

VARIABLES
  record,    \* the BullMQ record: state, life, owner, stalls
  lock,      \* the submission lock
  submit,    \* the step of a removal or replacement
  log, sequence, terminal,  \* the three keys of the event store
  epoch,     \* how often the keys were deleted
  told, inOrder,  \* events of this epoch announced so far; in order, to all hubs?
  due,       \* the worker's completed or failed event awaits its callback
  wpc, left, chain, said,   \* workers: step, events to come, publish chain
  rpc, saw,                 \* reconciliations: step, record as read
  wire,      \* notifications on their way to each stream's gateway
  phase, checking, batch, pending,  \* SSE handlers, "off" or "told" when closed
  lastSent,  \* the cursor of each client; a client keeps it over a reconnect
  fresh,     \* does the cursor count events of this epoch alone?
  openedIn,  \* the life of the job in which a stream was opened
  mishaps

storeVars  == <<log, sequence, terminal, epoch>>
toldVars   == <<told, inOrder>>
queueVars  == <<record, due, submit>>
workerVars == <<wpc, left, chain, said>>
reconVars  == <<lock, rpc, saw>>
handlerVars == <<phase, checking, batch, pending, lastSent, openedIn>>
sseVars    == <<handlerVars, fresh>>
vars == <<storeVars, toldVars, wire, queueVars, workerVars, reconVars, sseVars,
          mishaps>>

InFlight == {"waiting", "active"}
Ended    == {"completed", "failed"}
NoFrame  == [id |-> 0, epoch |-> 0, done |-> FALSE]

Init ==
  /\ record = [state |-> "none", life |-> 0, owner |-> Nobody, stalls |-> 0]
  /\ lock = Nobody
  /\ submit = "idle"
  /\ log = <<>> /\ sequence = 0 /\ terminal = NoFrame /\ epoch = 0
  /\ told = 0 /\ inOrder = TRUE
  /\ due = FALSE
  /\ wpc = [w \in Workers |-> "idle"]
  /\ left = [w \in Workers |-> 0]
  /\ chain = [w \in Workers |-> "quiet"]
  /\ said = [w \in Workers |-> NoFrame]
  /\ rpc = [p \in Reconcilers |-> "idle"]
  /\ saw = [p \in Reconcilers |-> "none"]
  /\ wire = [s \in Streams |-> <<>>]
  /\ phase = [s \in Streams |-> "off"]
  /\ checking = [s \in Streams |-> FALSE]
  /\ batch = [s \in Streams |-> <<>>]
  /\ pending = [s \in Streams |-> <<>>]
  /\ lastSent = [s \in Streams |-> 0]
  /\ fresh = [s \in Streams |-> TRUE]
  /\ openedIn = [s \in Streams |-> 0]
  /\ mishaps = 0

Bounded == record.life + mishaps < MaxTroubles

Mishap ==
  /\ Bounded
  /\ mishaps' = mishaps + 1

(***************************************************************************)
(* The scripts of RedisCompileEventStore.  The three keys expire together; *)
(* a frame is in terminal exactly while it is in the log.                  *)
(***************************************************************************)
Trim_Never(rows) == rows
Trim(rows) == IF Len(rows) > MaxEvents THEN Tail(rows) ELSE rows

Envelope(done) == [id |-> sequence + 1, epoch |-> epoch, done |-> done]

Push(e) ==
  /\ sequence' = e.id
  /\ log' = Trim(Append(log, e))

\* APPEND_EVENT refuses once the stream is terminal.
Refused_Never == FALSE
Refused == terminal # NoFrame

\* DEL of all three keys.  What was announced is counted from one again.
Forget ==
  /\ log' = <<>>
  /\ sequence' = 0
  /\ terminal' = NoFrame
  /\ epoch' = IF sequence = 0 THEN epoch ELSE epoch + 1
  /\ told' = 0
  /\ inOrder' = TRUE
  /\ fresh' = [s \in Streams |-> fresh[s] /\ lastSent[s] = 0]

\* RESET_TERMINAL deletes only a stream that has ended.
ResetTerminal ==
  IF terminal = NoFrame THEN UNCHANGED <<storeVars, toldVars, fresh>> ELSE Forget

\* APPEND_TERMINAL: the first frame stays.
AppendTerminal ==
  IF terminal # NoFrame THEN UNCHANGED storeVars
  ELSE /\ Push(Envelope(TRUE))
       /\ terminal' = Envelope(TRUE)
       /\ UNCHANGED epoch

\* job.updateProgress: BullMQ adds the envelope to the queue's event stream,
\* which every gateway reads in order.  The stream is trimmed: a hub that is
\* far behind misses the oldest ones.
Announce(e) ==
  /\ wire' = [s \in Streams |-> IF Len(wire[s]) < MaxLag THEN Append(wire[s], e)
                                ELSE Append(Tail(wire[s]), e)]
  /\ told' = IF e.epoch = epoch /\ e.id > told THEN e.id ELSE told
  /\ inOrder' = (/\ inOrder
                 /\ \A s \in Streams : Len(wire[s]) < MaxLag
                 /\ e.epoch = epoch => e.id <= told + 1)

(***************************************************************************)
(* The record: submit and cancelRequest under the lock, a retry by hand,   *)
(* BullMQ's dispatch and stalled check.                                    *)
(***************************************************************************)
\* submit removes the record of a finished job, if there is one.
Replace ==
  /\ lock = Nobody
  /\ record.state \in Ended \cup {"none"}
  /\ Bounded
  /\ lock' = Submitter
  /\ submit' = "clear"
  /\ record' = [record EXCEPT !.state = "none", !.owner = Nobody, !.stalls = 0]
  /\ UNCHANGED <<storeVars, toldVars, wire, due, workerVars, rpc, saw, sseVars, mishaps>>

\* cancelRequest removes a job that waits and has no consumer any more.
Withdraw ==
  /\ lock = Nobody
  /\ record.state = "waiting"
  /\ lock' = Submitter
  /\ submit' = "purge"
  /\ record' = [record EXCEPT !.state = "none", !.stalls = 0]
  /\ UNCHANGED <<storeVars, toldVars, wire, due, workerVars, rpc, saw, sseVars, mishaps>>

ClearEvents ==
  /\ submit \in {"clear", "purge"}
  /\ Forget
  /\ IF submit = "clear"
       THEN submit' = "add" /\ UNCHANGED lock
       ELSE submit' = "idle" /\ lock' = Nobody
  /\ UNCHANGED <<wire, record, due, workerVars, rpc, saw, handlerVars, mishaps>>

\* The new job is queued, unless the queue or its byte budget is full.
AddOrRefuse ==
  /\ submit = "add"
  /\ submit' = "idle"
  /\ lock' = Nobody
  /\ \/ UNCHANGED record
     \/ record' = [record EXCEPT !.state = "waiting", !.life = @ + 1]
  /\ UNCHANGED <<storeVars, toldVars, wire, due, workerVars, rpc, saw, sseVars, mishaps>>

\* An operator retries a failed job: it keeps its ID, nobody takes the lock.
Retry ==
  /\ record.state = "failed"
  /\ Bounded
  /\ record' = [record EXCEPT !.state = "waiting", !.life = @ + 1, !.stalls = 0]
  /\ UNCHANGED <<storeVars, toldVars, wire, due, submit, workerVars, reconVars, sseVars,
                 mishaps>>

Take(w) ==
  /\ wpc[w] = "idle"
  /\ chain[w] = "quiet"
  /\ record.state = "waiting"
  /\ record' = [record EXCEPT !.state = "active", !.owner = w]
  /\ wpc' = [wpc EXCEPT ![w] = "prepare"]
  /\ UNCHANGED <<storeVars, toldVars, wire, due, submit, left, chain, said, reconVars,
                 sseVars, mishaps>>

\* A worker that is only paused loses its job too, and goes on unaware.
Stall ==
  /\ record.state = "active"
  /\ IF wpc[record.owner] = "idle" THEN UNCHANGED mishaps ELSE Mishap
  /\ IF record.stalls = 0
       THEN /\ record' = [record EXCEPT !.state = "waiting", !.owner = Nobody,
                                        !.stalls = 1]
            /\ UNCHANGED due
       ELSE /\ record' = [record EXCEPT !.state = "failed", !.owner = Nobody]
            /\ due' = TRUE
  /\ UNCHANGED <<storeVars, toldVars, wire, submit, workerVars, reconVars, sseVars>>

(***************************************************************************)
(* The worker's processor and its publish chain (eventTail).               *)
(***************************************************************************)
\* prepareInFlight is one whole critical section.
Prepare(w) ==
  /\ wpc[w] = "prepare"
  /\ lock = Nobody
  /\ record.state \in InFlight
  /\ ResetTerminal
  /\ wpc' = [wpc EXCEPT ![w] = "running"]
  /\ left' = [left EXCEPT ![w] = EventsPerRun]
  /\ UNCHANGED <<wire, queueVars, chain, said, reconVars, handlerVars, mishaps>>

PrepareFails(w) ==
  /\ wpc[w] = "prepare"
  /\ lock # Nobody \/ record.state \notin InFlight
  /\ wpc' = [wpc EXCEPT ![w] = "failing"]
  /\ UNCHANGED <<storeVars, toldVars, wire, queueVars, left, chain, said, reconVars,
                 sseVars, mishaps>>

\* The compile publishes; the append is on its way once the chain gets to it.
Emit(w) ==
  /\ wpc[w] = "running"
  /\ chain[w] = "quiet"
  /\ left[w] > 0
  /\ left' = [left EXCEPT ![w] = @ - 1]
  /\ chain' = [chain EXCEPT ![w] = "sending"]
  /\ UNCHANGED <<storeVars, toldVars, wire, queueVars, wpc, said, reconVars, sseVars,
                 mishaps>>

\* The append reaches Redis, maybe after the attempt was aborted.  A refused
\* one fails the attempt.
AppendLands(w) ==
  /\ chain[w] = "sending"
  /\ IF Refused
       THEN /\ chain' = [chain EXCEPT ![w] = "quiet"]
            /\ wpc' = [wpc EXCEPT ![w] = IF @ = "running" THEN "failing" ELSE @]
            /\ UNCHANGED <<log, sequence, said>>
       ELSE /\ Push(Envelope(FALSE))
            /\ said' = [said EXCEPT ![w] = Envelope(FALSE)]
            /\ chain' = [chain EXCEPT ![w] = "appended"]
            /\ UNCHANGED wpc
  /\ UNCHANGED <<terminal, epoch, toldVars, wire, queueVars, left, reconVars, sseVars,
                 mishaps>>

\* The announcement is left out when the attempt has ended before it was sent,
\* and fails the attempt when the record is gone or Redis does not answer.
Progress(w) ==
  /\ chain[w] = "appended"
  /\ chain' = [chain EXCEPT ![w] = "quiet"]
  /\ said' = [said EXCEPT ![w] = NoFrame]
  /\ \/ /\ record.state # "none"
        /\ Announce(said[w])
        /\ UNCHANGED <<wpc, mishaps>>
     \/ /\ wpc[w] # "running"
        /\ UNCHANGED <<wire, toldVars, wpc, mishaps>>
     \/ /\ wpc[w] = "running"
        /\ wpc' = [wpc EXCEPT ![w] = "failing"]
        /\ IF record.state = "none" THEN UNCHANGED mishaps ELSE Mishap
        /\ UNCHANGED <<wire, toldVars>>
  /\ UNCHANGED <<storeVars, queueVars, left, reconVars, sseVars>>

Owns(w) == record.state = "active" /\ record.owner = w

\* The processor returns or throws, and BullMQ commits the outcome of the
\* worker that still owns the job.  A result waits for the chain, except the
\* interrupted one of an aborted attempt.
Finish(w) ==
  /\ wpc[w] \in {"running", "failing"}
  /\ wpc[w] = "failing" => chain[w] = "quiet"
  /\ \E outcome \in Ended :
       /\ wpc[w] = "failing" => outcome = "failed"
       /\ outcome = "failed" => chain[w] = "quiet"
       /\ IF Owns(w)
            THEN /\ record' = [record EXCEPT !.state = outcome, !.owner = Nobody]
                 /\ due' = TRUE
            ELSE UNCHANGED <<record, due>>
  /\ wpc' = [wpc EXCEPT ![w] = "idle"]
  /\ left' = [left EXCEPT ![w] = 0]
  /\ UNCHANGED <<storeVars, toldVars, wire, submit, chain, said, reconVars, sseVars,
                 mishaps>>

Crash(w) ==
  /\ wpc[w] # "idle"
  /\ Mishap
  /\ wpc' = [wpc EXCEPT ![w] = "idle"]
  /\ left' = [left EXCEPT ![w] = 0]
  /\ chain' = [chain EXCEPT ![w] = "quiet"]
  /\ said' = [said EXCEPT ![w] = NoFrame]
  /\ UNCHANGED <<storeVars, toldVars, wire, queueVars, reconVars, sseVars>>

(***************************************************************************)
(* CompileTerminalCoordinator.reconcile, by the worker's callback and by   *)
(* the pump of a stream.                                                   *)
(***************************************************************************)
\* The lock, the job and its state.
Reconcile(p) ==
  /\ IF p = Callback THEN due /\ rpc[p] = "idle" /\ due' = FALSE
                     ELSE rpc[p] = "lock" /\ UNCHANGED due
  /\ lock = Nobody
  /\ lock' = p
  /\ saw' = [saw EXCEPT ![p] = record.state]
  /\ rpc' = [rpc EXCEPT ![p] = "act"]
  /\ UNCHANGED <<storeVars, toldVars, wire, record, submit, workerVars, sseVars, mishaps>>

\* The callback found the lock taken, or its process is gone.
CallbackLost ==
  /\ due
  /\ IF lock # Nobody THEN UNCHANGED mishaps ELSE Mishap
  /\ due' = FALSE
  /\ UNCHANGED <<storeVars, toldVars, wire, record, submit, workerVars, reconVars, sseVars>>

Return(p) ==
  /\ lock' = Nobody
  /\ saw' = [saw EXCEPT ![p] = "none"]
  /\ rpc' = [rpc EXCEPT ![p] = IF p = Callback THEN "idle" ELSE "list"]

\* The job is in flight: a done frame is that of an earlier life.
Repair_Never == UNCHANGED <<storeVars, toldVars, fresh>>
Repair == ResetTerminal

ReconcileAct(p) ==
  /\ rpc[p] = "act"
  /\ \/ /\ saw[p] = "none"
        /\ Return(p)
        /\ UNCHANGED <<storeVars, toldVars, fresh>>
     \/ /\ saw[p] \in InFlight
        /\ Return(p)
        /\ Repair
     \/ /\ saw[p] \in Ended
        /\ rpc' = [rpc EXCEPT ![p] = "announce"]
        /\ AppendTerminal
        /\ UNCHANGED <<lock, saw, toldVars, fresh>>
  /\ UNCHANGED <<wire, queueVars, workerVars, handlerVars, mishaps>>

\* An announcement that fails is only logged.
ReconcileAnnounce(p) ==
  /\ rpc[p] = "announce"
  /\ \/ /\ record.state # "none"
        /\ Announce(terminal)
        /\ UNCHANGED mishaps
     \/ /\ UNCHANGED <<wire, toldVars>>
        /\ IF record.state = "none" THEN UNCHANGED mishaps ELSE Mishap
  /\ Return(p)
  /\ UNCHANGED <<storeVars, queueVars, workerVars, sseVars>>

(***************************************************************************)
(* GET /v1/compile/:jobId/events                                           *)
(***************************************************************************)
open(s) == phase[s] \notin {"off", "told"}

Replaying_Never(s) == FALSE
Replaying(s) == phase[s] = "first"

\* send(): an event is sent that is above the cursor and above all before it,
\* as long as none of those has ended the stream.
Sent(s, events) ==
  LET above == {k \in DOMAIN events : /\ events[k].id > lastSent[s]
                                      /\ \A i \in 1..(k - 1) : events[i].id < events[k].id}
  IN  {k \in above : open(s) /\ \A i \in above : i < k => ~events[i].done}

SendAll(s, events, next) ==
  LET sent == Sent(s, events)
      ends == \E k \in sent : events[k].done
  IN  /\ phase' = [phase EXCEPT ![s] = CASE ends -> "told"
                                          [] open(s) /\ ~ends -> next
                                          [] OTHER -> @]
      /\ openedIn' = [openedIn EXCEPT ![s] = IF open(s) /\ ~ends THEN @ ELSE 0]
      /\ IF sent = {} THEN UNCHANGED <<lastSent, fresh>>
         ELSE \E last \in sent :
                /\ \A k \in sent : k <= last
                /\ lastSent' = [lastSent EXCEPT ![s] = events[last].id]
                /\ fresh' = [fresh EXCEPT ![s] = @ /\ \A k \in sent : events[k].epoch = epoch]

\* A browser that reconnects sends the last ID it got, a new one none; one that
\* was told the outcome stays away.
Connect(s) ==
  /\ ~open(s)
  /\ rpc[s] = "idle"
  /\ record.state # "none"
  /\ phase' = [phase EXCEPT ![s] = "first"]
  /\ checking' = [checking EXCEPT ![s] = TRUE]
  /\ rpc' = [rpc EXCEPT ![s] = "lock"]
  /\ openedIn' = [openedIn EXCEPT ![s] = record.life]
  /\ \/ phase[s] = "off" /\ UNCHANGED <<lastSent, fresh>>
     \/ /\ lastSent' = [lastSent EXCEPT ![s] = 0]
        /\ fresh' = [fresh EXCEPT ![s] = TRUE]
  /\ UNCHANGED <<storeVars, toldVars, wire, queueVars, workerVars, lock, saw, batch,
                 pending, mishaps>>

Close(s) ==
  /\ phase' = [phase EXCEPT ![s] = IF open(s) THEN "off" ELSE @]
  /\ openedIn' = [openedIn EXCEPT ![s] = 0]
  /\ pending' = [pending EXCEPT ![s] = <<>>]

\* The client or its gateway is gone, or it reads too slowly.
Disconnect(s) ==
  /\ open(s)
  /\ Close(s)
  /\ UNCHANGED <<storeVars, toldVars, wire, queueVars, workerVars, reconVars,
                 checking, batch, lastSent, fresh, mishaps>>

\* The hub hands a notification to the stream, which keeps it during the
\* first replay; a closed one has unsubscribed.
Deliver(s) ==
  /\ wire[s] # <<>>
  /\ wire' = [wire EXCEPT ![s] = Tail(@)]
  /\ LET e == Head(wire[s])
     IN  IF open(s) /\ Replaying(s)
           THEN /\ \E n \in 0..Len(pending[s]) :
                     /\ \A k \in DOMAIN pending[s] : k <= n <=> pending[s][k].id <= e.id
                     /\ pending' = [pending EXCEPT ![s] = InsertAt(@, n + 1, e)]
                /\ UNCHANGED <<phase, lastSent, fresh, openedIn>>
           ELSE SendAll(s, <<e>>, phase[s]) /\ UNCHANGED pending
  /\ UNCHANGED <<storeVars, toldVars, queueVars, workerVars, reconVars, checking,
                 batch, mishaps>>

\* The lock stayed taken: the pump throws, and the stream is closed.
PumpBusy(s) ==
  /\ rpc[s] = "lock"
  /\ lock # Nobody
  /\ rpc' = [rpc EXCEPT ![s] = "idle"]
  /\ checking' = [checking EXCEPT ![s] = FALSE]
  /\ Close(s)
  /\ UNCHANGED <<storeVars, toldVars, wire, queueVars, workerVars, lock, saw, batch,
                 lastSent, fresh, mishaps>>

\* events.list: the log after the cursor.
ReadLog(s) ==
  /\ rpc[s] = "list"
  /\ \E n \in 0..Len(log) :
       /\ \A k \in DOMAIN log : k <= n <=> log[k].id <= lastSent[s]
       /\ batch' = [batch EXCEPT ![s] = SubSeq(log, n + 1, Len(log))]
  /\ rpc' = [rpc EXCEPT ![s] = "send"]
  /\ UNCHANGED <<storeVars, toldVars, wire, queueVars, workerVars, lock, saw, phase,
                 checking, pending, lastSent, fresh, openedIn, mishaps>>

\* checkingTerminal = false
EndCheck_Forgets(s) == UNCHANGED checking
EndCheck(s) == checking' = [checking EXCEPT ![s] = FALSE]

\* The replayed events are sent; after the first pump the kept ones too, and
\* a second pump starts in the same turn.
SendBatch(s) ==
  /\ rpc[s] = "send"
  /\ SendAll(s, batch[s] \o pending[s], IF phase[s] = "first" THEN "second" ELSE "beating")
  /\ batch' = [batch EXCEPT ![s] = <<>>]
  /\ pending' = [pending EXCEPT ![s] = <<>>]
  /\ IF phase'[s] = "second"
       THEN rpc' = [rpc EXCEPT ![s] = "lock"] /\ UNCHANGED checking
       ELSE rpc' = [rpc EXCEPT ![s] = "idle"] /\ EndCheck(s)
  /\ UNCHANGED <<storeVars, toldVars, wire, queueVars, workerVars, lock, saw, mishaps>>

Heartbeat(s) ==
  /\ phase[s] = "beating"
  /\ ~checking[s]
  /\ checking' = [checking EXCEPT ![s] = TRUE]
  /\ rpc' = [rpc EXCEPT ![s] = "lock"]
  /\ UNCHANGED <<storeVars, toldVars, wire, queueVars, workerVars, lock, saw, phase,
                 batch, pending, lastSent, fresh, openedIn, mishaps>>

Next ==
  \/ Replace \/ Withdraw \/ ClearEvents \/ AddOrRefuse \/ Retry \/ Stall
  \/ CallbackLost
  \/ \E w \in Workers : \/ Take(w) \/ Prepare(w) \/ PrepareFails(w) \/ Emit(w)
                        \/ AppendLands(w) \/ Progress(w) \/ Finish(w) \/ Crash(w)
  \/ \E p \in Reconcilers : Reconcile(p) \/ ReconcileAct(p) \/ ReconcileAnnounce(p)
  \/ \E s \in Streams : \/ Connect(s) \/ Disconnect(s) \/ Deliver(s) \/ PumpBusy(s)
                        \/ ReadLog(s) \/ SendBatch(s) \/ Heartbeat(s)

Spec == Init /\ [][Next]_vars

(***************************************************************************)
(* Fairness.  Redis answers, so a section and a pump go on; the heartbeat  *)
(* is a timer.  No notification need ever be delivered, and no callback    *)
(* need ever run.                                                          *)
(***************************************************************************)
LockHolderStep ==
  \/ ClearEvents \/ AddOrRefuse
  \/ \E p \in Reconcilers : ReconcileAct(p) \/ ReconcileAnnounce(p)

PumpStep(s) ==
  Reconcile(s) \/ PumpBusy(s) \/ ReadLog(s) \/ SendBatch(s) \/ Heartbeat(s)

Fairness ==
  /\ WF_vars(LockHolderStep)
  /\ \A s \in Streams : WF_vars(PumpStep(s))

FairSpec == Spec /\ Fairness

(***************************************************************************)
(* Properties.                                                             *)
(***************************************************************************)
Frames == [id : Nat, epoch : Nat, done : BOOLEAN]

QueueTypes ==
  /\ record \in [state : InFlight \cup Ended \cup {"none"}, life : Nat,
                 owner : Workers \cup {Nobody}, stalls : {0, 1}]
  /\ lock \in Reconcilers \cup {Submitter, Nobody}
  /\ submit \in {"idle", "clear", "purge", "add"}
  /\ due \in BOOLEAN
  /\ rpc \in [Reconcilers -> {"idle", "lock", "act", "announce", "list", "send"}]
  /\ saw \in [Reconcilers -> InFlight \cup Ended \cup {"none"}]

StoreTypes ==
  /\ log \in Seq(Frames) /\ Len(log) <= MaxEvents
  /\ sequence \in Nat
  /\ terminal \in Frames
  /\ epoch \in Nat
  /\ told \in Nat
  /\ inOrder \in BOOLEAN

WorkerTypes ==
  /\ wpc \in [Workers -> {"idle", "prepare", "running", "failing"}]
  /\ left \in [Workers -> 0..EventsPerRun]
  /\ chain \in [Workers -> {"quiet", "sending", "appended"}]
  /\ said \in [Workers -> Frames]

StreamTypes ==
  /\ wire \in [Streams -> Seq(Frames)]
  /\ phase \in [Streams -> {"off", "told", "first", "second", "beating"}]
  /\ checking \in [Streams -> BOOLEAN]
  /\ batch \in [Streams -> Seq(Frames)]
  /\ pending \in [Streams -> Seq(Frames)]
  /\ lastSent \in [Streams -> Nat]
  /\ fresh \in [Streams -> BOOLEAN]
  /\ openedIn \in [Streams -> Nat]

\* Every variable holds a value the code can produce; the log keeps its bound.
TypeOK ==
  /\ QueueTypes
  /\ StoreTypes
  /\ WorkerTypes
  /\ StreamTypes
  /\ mishaps \in 0..MaxTroubles

\* A job's stream ends with its done frame and has only one: an append of a
\* worker that was aborted, paused or replaced cannot follow it, a second
\* reconciliation does not repeat it, trimming does not drop it.
DoneIsLast ==
  /\ \A k \in DOMAIN log : log[k].done => k = Len(log) /\ log[k] = terminal
  /\ terminal # NoFrame => log # <<>> /\ Last(log) = terminal

\* What the gateway gives to send() in a step, and what of it is sent.
Handed(s) == IF rpc[s] = "send" /\ rpc'[s] # "send" THEN batch[s] \o pending[s]
             ELSE SubSeq(wire[s], 1, 1)
Given(s) == {Handed(s)[k] : k \in Sent(s, Handed(s))}

\* As long as events are announced in the order of the log, the hand-over from
\* replay to live events skips none: a cursor moves over no event of the log
\* but those that are sent, whatever connections the client has had before.
NothingSkipped ==
  [][\A s \in Streams :
       inOrder /\ fresh'[s] =>
         \A k \in DOMAIN log :
           log[k].id > lastSent[s] /\ log[k].id <= lastSent'[s] => log[k] \in Given(s)]_vars

\* A stream that was opened after the job was retried or replaced does not
\* replay a log with an outcome while the job is in flight: its reconciliation
\* removes the old one first.
ReplayAwaitsOutcome ==
  [][\A s \in Streams :
       rpc[s] = "list" /\ rpc'[s] = "send" /\ terminal # NoFrame
         => record.state \notin InFlight \/ record.life # openedIn[s]]_vars

\* The done frame of a stream is above the cursor of every stream that still
\* waits for it; otherwise no replay ever sends it.
CursorBelowDone ==
  \A s \in Streams : open(s) /\ terminal # NoFrame => lastSent[s] < terminal.id

\* A client that waits for a finished job is told so, or is disconnected and
\* may ask again: whether or not the worker's callback ran, and if no
\* notification ever arrives.
DoneIsHeard ==
  \A s \in Streams :
    open(s) /\ record.state \in Ended /\ fresh[s]
      ~> ~open(s) \/ record.state \notin Ended \/ ~fresh[s]

=============================================================================
