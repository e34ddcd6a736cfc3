-------------------------- MODULE EventStreamProofs --------------------------
(***************************************************************************)
(* Facts about the stream of a job, for any number of workers, SSE clients *)
(* and events: its variables keep to their ranges, it ends with its one    *)
(* done frame, a client that comes after a retry does not replay the       *)
(* outcome of the failed life, and the hand-over from replay to live       *)
(* events passes over no event.                                            *)
(***************************************************************************)
EXTENDS EventStream, SequenceTheorems, WellFoundedInduction, TLAPS

(***************************************************************************)
(* The replay log.                                                         *)
(***************************************************************************)
LogTypes ==
  /\ log \in Seq(Frames)
  /\ sequence \in Nat
  /\ terminal \in Frames
  /\ epoch \in Nat

LogInv == LogTypes /\ DoneIsLast

LEMMA EnvelopeIsFrame ==
  ASSUME LogTypes, NEW done \in BOOLEAN
  PROVE  /\ Envelope(done) \in Frames
         /\ Envelope(done) # NoFrame
         /\ Envelope(done).done = done
         /\ Envelope(done).id = sequence + 1
  BY DEF LogTypes, Envelope, Frames, NoFrame

\* What a trimmed log keeps of its rows: the last one, and the place of each
\* other one relative to it.
LEMMA TrimKeepsEnd ==
  ASSUME NEW rows \in Seq(Frames), rows # <<>>
  PROVE  /\ Trim(rows) \in Seq(Frames)
         /\ Trim(rows) # <<>>
         /\ Last(Trim(rows)) = Last(rows)
         /\ \A k \in DOMAIN Trim(rows) :
              \E i \in DOMAIN rows :
                /\ Trim(rows)[k] = rows[i]
                /\ i = Len(rows) <=> k = Len(Trim(rows))
<1>1. Len(rows) \in Nat /\ Len(rows) >= 1 /\ DOMAIN rows = 1..Len(rows)
  OBVIOUS
<1>2. CASE Len(rows) > MaxEvents
  <2>1. Trim(rows) = Tail(rows)
    BY <1>2 DEF Trim
  <2>2. Len(rows) >= 2
    BY <1>1, <1>2, StreamConstants DEF StreamConstants
  <2>3. /\ Tail(rows) \in Seq(Frames)
        /\ Len(Tail(rows)) = Len(rows) - 1
        /\ \A k \in 1..(Len(rows) - 1) : Tail(rows)[k] = rows[k + 1]
    BY <1>1, <2>2
  <2>4. Tail(rows) # <<>> /\ Last(Tail(rows)) = Last(rows)
    BY <1>1, <2>2, <2>3 DEF Last
  <2>5. ASSUME NEW k \in DOMAIN Tail(rows)
        PROVE  /\ k + 1 \in DOMAIN rows
               /\ Tail(rows)[k] = rows[k + 1]
               /\ k + 1 = Len(rows) <=> k = Len(Tail(rows))
    <3>1. DOMAIN Tail(rows) = 1..(Len(rows) - 1)
      BY <2>3
    <3>2. k \in 1..(Len(rows) - 1)
      BY <3>1, <2>5
    <3> QED BY <1>1, <2>3, <3>2
  <2> QED BY <2>1, <2>3, <2>4, <2>5
<1>3. CASE ~(Len(rows) > MaxEvents)
  BY <1>1, <1>3 DEF Trim
<1> QED BY <1>2, <1>3

LEMMA ForgetKeepsLog ==
  ASSUME LogTypes, Forget
  PROVE  LogInv' /\ terminal' = NoFrame
  BY DEF LogTypes, LogInv, DoneIsLast, Forget, NoFrame, Frames

LEMMA ResetKeepsLog ==
  ASSUME LogInv, ResetTerminal
  PROVE  LogInv' /\ terminal' = NoFrame
<1>1. CASE terminal = NoFrame
  BY <1>1 DEF ResetTerminal, storeVars, LogInv, LogTypes, DoneIsLast
<1>2. CASE terminal # NoFrame
  BY <1>2, ForgetKeepsLog DEF ResetTerminal, LogInv
<1> QED BY <1>1, <1>2

\* A frame is pushed on a log that has not ended, and ends it if it is done.
LEMMA PushKeepsLog ==
  ASSUME LogInv, terminal = NoFrame, NEW done \in BOOLEAN, Push(Envelope(done)),
         terminal' = IF done THEN Envelope(TRUE) ELSE NoFrame, epoch' = epoch
  PROVE  LogInv'
<1> DEFINE e == Envelope(done)
           rows == Append(log, e)
<1>1. LogTypes /\ log \in Seq(Frames)
  BY DEF LogInv, LogTypes
<1>2. e \in Frames /\ e # NoFrame /\ e.done = done /\ e.id = sequence + 1
  BY <1>1, EnvelopeIsFrame
<1>3. log' = Trim(rows) /\ sequence' = e.id
  BY DEF Push
<1>4. \A k \in DOMAIN log : ~log[k].done
  <2>1. SUFFICES ASSUME NEW k \in DOMAIN log, log[k].done
                 PROVE  FALSE
    OBVIOUS
  <2>2. log[k] = NoFrame
    BY <2>1 DEF LogInv, DoneIsLast
  <2> QED BY <2>1, <2>2 DEF NoFrame
<1> HIDE DEF e
<1>5. /\ rows \in Seq(Frames) /\ rows # <<>> /\ Len(rows) = Len(log) + 1
      /\ rows[Len(rows)] = e
      /\ \A i \in DOMAIN rows : i # Len(rows) => i \in DOMAIN log /\ rows[i] = log[i]
  BY <1>1, <1>2
<1> HIDE DEF rows
<1>6. Last(rows) = e
  BY <1>5 DEF Last
<1>7. LogTypes'
  <2>1. Trim(rows) \in Seq(Frames)
    BY <1>5, TrimKeepsEnd
  <2>2. sequence' \in Nat /\ epoch' \in Nat
    BY <1>1, <1>2, <1>3 DEF LogTypes
  <2>3. terminal' \in Frames
    BY <1>1, EnvelopeIsFrame DEF NoFrame, Frames
  <2> QED BY <1>3, <2>1, <2>2, <2>3 DEF LogTypes
<1>8. log' # <<>> /\ Last(log') = e
  BY <1>3, <1>5, <1>6, TrimKeepsEnd
<1>9. ASSUME NEW k \in DOMAIN log', log'[k].done
      PROVE  k = Len(log') /\ log'[k] = terminal'
  <2>1. PICK i \in DOMAIN rows : /\ log'[k] = rows[i]
                                 /\ i = Len(rows) <=> k = Len(log')
    BY <1>3, <1>5, <1>9, TrimKeepsEnd
  <2>2. i = Len(rows)
    BY <2>1, <1>4, <1>5, <1>9
  <2>3. log'[k] = e /\ k = Len(log')
    BY <2>1, <2>2, <1>5
  <2>4. done
    BY <2>3, <1>2, <1>9
  <2>5. terminal' = e
    BY <2>4 DEF e
  <2> QED BY <2>3, <2>5
<1>10. terminal' # NoFrame => Last(log') = terminal'
  <2>1. SUFFICES ASSUME terminal' # NoFrame PROVE terminal' = e
    BY <1>8
  <2> QED BY <2>1 DEF e
<1>11. DoneIsLast'
  BY <1>8, <1>9, <1>10 DEF DoneIsLast, NoFrame
<1> QED BY <1>7, <1>11 DEF LogInv

LEMMA LogUntouched ==
  ASSUME LogInv, UNCHANGED storeVars
  PROVE  LogInv'
  BY DEF LogInv, LogTypes, DoneIsLast, storeVars

LEMMA AppendTerminalKeepsLog ==
  ASSUME LogInv, AppendTerminal
  PROVE  LogInv'
<1>1. CASE terminal # NoFrame
  BY <1>1, LogUntouched DEF AppendTerminal
<1>2. CASE terminal = NoFrame
  BY <1>2, PushKeepsLog DEF AppendTerminal
<1> QED BY <1>1, <1>2

\* The scripts of the event store are the only steps that touch the log.
LEMMA LogStep ==
  ASSUME LogInv, [Next]_vars
  PROVE  LogInv'
<1>1. CASE ClearEvents
  BY <1>1, ForgetKeepsLog DEF ClearEvents, LogInv
<1>2. ASSUME NEW w \in Workers, Prepare(w)
      PROVE  LogInv'
  BY <1>2, ResetKeepsLog DEF Prepare
<1>3. ASSUME NEW w \in Workers, AppendLands(w)
      PROVE  LogInv'
  <2>1. CASE Refused
    BY <1>3, <2>1, LogUntouched DEF AppendLands, storeVars
  <2>2. CASE ~Refused
    <3>1. Push(Envelope(FALSE)) /\ terminal' = terminal /\ epoch' = epoch
      BY <1>3, <2>2 DEF AppendLands
    <3>2. terminal = NoFrame
      BY <2>2 DEF Refused
    <3> QED BY <3>1, <3>2, PushKeepsLog
  <2> QED BY <2>1, <2>2
<1>4. ASSUME NEW p \in Reconcilers, ReconcileAct(p)
      PROVE  LogInv'
  BY <1>4, LogUntouched, ResetKeepsLog, AppendTerminalKeepsLog
     DEF ReconcileAct, Repair
<1>5. CASE \/ Replace \/ Withdraw \/ AddOrRefuse \/ Retry \/ Stall \/ CallbackLost
  BY <1>5, LogUntouched DEF Replace, Withdraw, AddOrRefuse, Retry, Stall, CallbackLost
<1>6. ASSUME NEW w \in Workers,
             Take(w) \/ PrepareFails(w) \/ Emit(w) \/ Progress(w) \/ Finish(w) \/ Crash(w)
      PROVE  LogInv'
  BY <1>6, LogUntouched DEF Take, PrepareFails, Emit, Progress, Finish, Crash
<1>7. ASSUME NEW p \in Reconcilers, Reconcile(p) \/ ReconcileAnnounce(p)
      PROVE  LogInv'
  BY <1>7, LogUntouched DEF Reconcile, ReconcileAnnounce
<1>8. ASSUME NEW s \in Streams,
             \/ Connect(s) \/ Disconnect(s) \/ Deliver(s) \/ PumpBusy(s)
             \/ ReadLog(s) \/ SendBatch(s) \/ Heartbeat(s)
      PROVE  LogInv'
  BY <1>8, LogUntouched
     DEF Connect, Disconnect, Deliver, PumpBusy, ReadLog, SendBatch, Heartbeat
<1>9. CASE UNCHANGED vars
  BY <1>9, LogUntouched DEF vars
<1> QED BY <1>1, <1>2, <1>3, <1>4, <1>5, <1>6, <1>7, <1>8, <1>9 DEF Next

LEMMA LogStart ==
  ASSUME Init
  PROVE  LogInv
  BY DEF Init, LogInv, LogTypes, DoneIsLast, NoFrame, Frames

\* The log of a job ends with its one done frame: no append of an aborted,
\* paused or replaced worker follows it, no reconciliation repeats it, no
\* trimming drops it.
THEOREM DoneEndsTheLog == Spec => []DoneIsLast
<1>1. Init => LogInv
  BY LogStart
<1>2. LogInv /\ [Next]_vars => LogInv'
  BY LogStep
<1>3. LogInv => DoneIsLast
  BY DEF LogInv
<1> QED BY <1>1, <1>2, <1>3, PTL DEF Spec

(***************************************************************************)
(* What a reconciliation knows under the lock.  Lives of the job ID are    *)
(* counted; within one life a record never leaves its outcome.             *)
(***************************************************************************)
Records == [state : InFlight \cup Ended \cup {"none"}, life : Nat,
            owner : Workers \cup {Nobody}, stalls : {0, 1}]

HandlerTypes ==
  /\ record \in Records
  /\ lock \in Reconcilers \cup {Submitter, Nobody}
  /\ submit \in {"idle", "clear", "purge", "add"}
  /\ rpc \in [Reconcilers -> {"idle", "lock", "act", "announce", "list", "send"}]
  /\ saw \in [Reconcilers -> InFlight \cup Ended \cup {"none"}]
  /\ openedIn \in [Streams -> Nat]

Inside(p) == rpc[p] \in {"act", "announce"}

LockInv ==
  /\ \A p \in Reconcilers : Inside(p) => lock = p
  /\ submit # "idle" => lock = Submitter

LifeInv ==
  /\ record.state \in InFlight => record.life > 0
  /\ \A s \in Streams : openedIn[s] <= record.life

\* A removed record stays away while the lock is held.  One that was seen
\* ended and runs again has begun a new life, whose streams all wait for the
\* lock.
SightInv ==
  \A p \in Reconcilers : Inside(p) =>
    /\ rpc[p] = "announce" => saw[p] \in Ended
    /\ saw[p] = "none" => record.state = "none"
    /\ saw[p] \in Ended /\ record.state \in InFlight =>
         \A s \in Streams : openedIn[s] = record.life => rpc[s] = "lock"

ReplayInv ==
  \A s \in Streams :
    rpc[s] = "list" /\ record.state \in InFlight /\ openedIn[s] = record.life
      => terminal = NoFrame

SectionInv == HandlerTypes /\ LockInv /\ LifeInv /\ SightInv /\ ReplayInv

LEMMA SectionStart ==
  ASSUME Init
  PROVE  SectionInv
<1>1. HandlerTypes
  BY DEF Init, HandlerTypes, Records, InFlight, Ended
<1>2. LockInv /\ SightInv /\ ReplayInv
  BY DEF Init, LockInv, SightInv, ReplayInv, Inside
<1>3. LifeInv
  BY DEF Init, LifeInv, InFlight
<1> QED BY <1>1, <1>2, <1>3 DEF SectionInv

section == <<record, lock, submit, rpc, saw, openedIn>>

LEMMA NewLife ==
  ASSUME NEW r \in Records
  PROVE  [r EXCEPT !.state = "waiting", !.life = @ + 1] \in Records
<1> DEFINE begun == [r EXCEPT !.state = "waiting"]
<1>1. begun \in Records /\ begun.life = r.life
  BY DEF Records, InFlight
<1>2. begun.life + 1 \in Nat
  BY <1>1 DEF Records
<1>3. [r EXCEPT !.state = "waiting", !.life = @ + 1] = [begun EXCEPT !.life = begun.life + 1]
  BY <1>1 DEF Records
<1> HIDE DEF begun
<1>4. [begun EXCEPT !.life = begun.life + 1] \in Records
  BY <1>1, <1>2 DEF Records
<1> QED BY <1>3, <1>4

\* Steps that at most take a done frame away.
LEMMA SectionUntouched ==
  ASSUME SectionInv, UNCHANGED section, terminal' \in {terminal, NoFrame}
  PROVE  SectionInv'
  BY DEF section, SectionInv, HandlerTypes, Records, LockInv, LifeInv, SightInv, ReplayInv, Inside

\* Steps of an SSE handler outside the section.
LEMMA HandlerStep ==
  ASSUME SectionInv, NEW s \in Streams,
         UNCHANGED <<record, lock, submit, saw, terminal>>,
         NEW x \in {"idle", "lock", "send", rpc[s]}, NEW o \in {0, openedIn[s], record.life},
         rpc' = [rpc EXCEPT ![s] = x],
         openedIn' = [openedIn EXCEPT ![s] = o],
         x # rpc[s] => ~Inside(s),
         rpc[s] = "lock" /\ x # "lock" => o = 0,
         o = record.life => o = 0 \/ o = openedIn[s] \/ x = "lock"
  PROVE  SectionInv'
<1>1. HandlerTypes'
  BY DEF SectionInv, HandlerTypes, Records, Reconcilers
<1>2. \A p \in Reconcilers : Inside(p)' => Inside(p) /\ rpc'[p] = rpc[p]
  BY DEF SectionInv, HandlerTypes, Records, Inside
<1>3. LockInv'
  BY <1>2 DEF SectionInv, LockInv
<1>4. LifeInv'
  BY DEF SectionInv, HandlerTypes, Records, LifeInv
<1>5. SightInv'
  BY <1>2 DEF SectionInv, HandlerTypes, Records, LifeInv, SightInv, Reconcilers
<1>6. ReplayInv'
  BY DEF SectionInv, HandlerTypes, Records, LifeInv, ReplayInv, Reconcilers
<1> QED BY <1>1, <1>3, <1>4, <1>5, <1>6 DEF SectionInv

\* Steps that change the record without the lock.
LEMMA RecordStep ==
  ASSUME SectionInv, HandlerTypes', UNCHANGED <<lock, submit, rpc, saw, openedIn, terminal>>,
         \/ record'.life = record.life
            /\ (record'.state \in InFlight => record.state \in InFlight)
         \/ record'.life = record.life + 1,
         record.state = "none" => record'.state = "none"
  PROVE  SectionInv'
<1>1. LockInv'
  BY DEF SectionInv, LockInv, Inside
<1>2. LifeInv'
  BY DEF SectionInv, HandlerTypes, Records, LifeInv
<1>3. SightInv'
  BY DEF SectionInv, HandlerTypes, Records, LifeInv, SightInv, Inside
<1>4. ReplayInv'
  BY DEF SectionInv, HandlerTypes, Records, LifeInv, ReplayInv
<1> QED BY <1>1, <1>2, <1>3, <1>4 DEF SectionInv

\* The submitter takes the lock and removes the record.
LEMMA RemoveStep ==
  ASSUME SectionInv, Replace \/ Withdraw
  PROVE  SectionInv'
<1>1. /\ lock = Nobody /\ lock' = Submitter
      /\ record'.state = "none" /\ record'.life = record.life
      /\ UNCHANGED <<rpc, saw, openedIn, terminal>>
  BY DEF Replace, Withdraw, storeVars, sseVars, handlerVars, SectionInv, HandlerTypes, Records
<1>2. HandlerTypes'
  BY DEF Replace, Withdraw, sseVars, handlerVars, SectionInv, HandlerTypes, Records
<1>3. \A p \in Reconcilers : ~Inside(p) /\ ~Inside(p)'
  BY <1>1, StreamConstants DEF StreamConstants, SectionInv, LockInv, Inside
<1>4. LockInv' /\ SightInv'
  BY <1>1, <1>3 DEF LockInv, SightInv
<1>5. LifeInv'
  BY <1>1 DEF SectionInv, HandlerTypes, Records, LifeInv, InFlight
<1>6. ReplayInv'
  BY <1>1 DEF ReplayInv, InFlight
<1> QED BY <1>2, <1>4, <1>5, <1>6 DEF SectionInv

LEMMA ClearStep ==
  ASSUME SectionInv, ClearEvents
  PROVE  SectionInv'
<1>1. /\ submit # "idle" /\ lock = Submitter
      /\ submit' # "idle" => lock' = Submitter
      /\ terminal' = NoFrame
      /\ UNCHANGED <<record, rpc, saw, openedIn>>
  BY DEF ClearEvents, Forget, queueVars, reconVars, handlerVars, SectionInv, LockInv
<1>2. HandlerTypes'
  BY <1>1 DEF ClearEvents, SectionInv, HandlerTypes, Records
<1>3. \A p \in Reconcilers : ~Inside(p) /\ ~Inside(p)'
  BY <1>1, StreamConstants DEF StreamConstants, SectionInv, LockInv, Inside
<1>4. LockInv' /\ SightInv' /\ ReplayInv' /\ LifeInv'
  BY <1>1, <1>3 DEF LockInv, SightInv, ReplayInv, LifeInv, SectionInv
<1> QED BY <1>2, <1>4 DEF SectionInv

LEMMA AddStep ==
  ASSUME SectionInv, AddOrRefuse
  PROVE  SectionInv'
<1>1. /\ lock = Submitter /\ submit' = "idle"
      /\ UNCHANGED <<rpc, saw, openedIn, terminal>>
      /\ \/ UNCHANGED record
         \/ record'.life = record.life + 1
  BY DEF AddOrRefuse, storeVars, sseVars, handlerVars, SectionInv, HandlerTypes, Records, LockInv
<1>2. HandlerTypes'
  <2>1. record' \in Records
    BY NewLife DEF AddOrRefuse, SectionInv, HandlerTypes
  <2>2. lock' \in Reconcilers \cup {Submitter, Nobody}
    BY DEF AddOrRefuse
  <2> QED BY <1>1, <2>1, <2>2 DEF SectionInv, HandlerTypes
<1>3. \A p \in Reconcilers : ~Inside(p) /\ ~Inside(p)'
  BY <1>1, StreamConstants DEF StreamConstants, SectionInv, LockInv, Inside
<1>4. LockInv' /\ SightInv'
  BY <1>1, <1>3 DEF LockInv, SightInv
<1>5. LifeInv' /\ ReplayInv'
  BY <1>1 DEF SectionInv, HandlerTypes, Records, LifeInv, ReplayInv
<1> QED BY <1>2, <1>4, <1>5 DEF SectionInv

\* A reconciliation takes the lock and sees the record.
LEMMA LookStep ==
  ASSUME SectionInv, NEW p \in Reconcilers, Reconcile(p)
  PROVE  SectionInv'
<1>1. /\ lock = Nobody /\ lock' = p
      /\ rpc[p] \in {"idle", "lock"}
      /\ rpc' = [rpc EXCEPT ![p] = "act"]
      /\ saw' = [saw EXCEPT ![p] = record.state]
      /\ UNCHANGED <<record, submit, openedIn, terminal>>
  BY DEF Reconcile, storeVars, sseVars, handlerVars
<1>2. HandlerTypes'
  BY <1>1 DEF SectionInv, HandlerTypes, Records
<1>3. submit = "idle" /\ \A q \in Reconcilers : ~Inside(q)
  BY <1>1, StreamConstants DEF StreamConstants, SectionInv, LockInv
<1>4. \A q \in Reconcilers : Inside(q)' => q = p
  BY <1>1, <1>3 DEF SectionInv, HandlerTypes, Records, Inside
<1>5. LockInv'
  BY <1>1, <1>3, <1>4 DEF LockInv
<1>6. LifeInv'
  BY <1>1 DEF SectionInv, LifeInv
<1>7. SightInv'
  BY <1>1, <1>4 DEF SectionInv, HandlerTypes, Records, SightInv, InFlight, Ended
<1>8. ReplayInv'
  BY <1>1 DEF SectionInv, HandlerTypes, Records, ReplayInv, Reconcilers
<1> QED BY <1>2, <1>5, <1>6, <1>7, <1>8 DEF SectionInv

\* It leaves with a job in flight whose done frame is gone, or with a job that
\* ended before every stream's present life.
LEMMA LeaveStep ==
  ASSUME SectionInv, NEW p \in Reconcilers, Inside(p), Return(p),
         UNCHANGED <<record, submit, openedIn>>,
         \/ saw[p] = "none" /\ terminal' = terminal
         \/ saw[p] \in InFlight /\ terminal' = NoFrame
         \/ saw[p] \in Ended /\ terminal' = terminal
  PROVE  SectionInv'
<1>1. /\ lock = p /\ lock' = Nobody
      /\ saw' = [saw EXCEPT ![p] = "none"]
      /\ rpc' = [rpc EXCEPT ![p] = IF p = Callback THEN "idle" ELSE "list"]
  BY DEF Return, SectionInv, LockInv
<1>2. HandlerTypes'
  BY <1>1 DEF SectionInv, HandlerTypes, Records
<1>3. submit = "idle" /\ \A q \in Reconcilers : ~Inside(q)'
  BY <1>1, StreamConstants DEF StreamConstants, SectionInv, HandlerTypes, Records, LockInv, Inside
<1>4. LockInv' /\ SightInv'
  BY <1>3 DEF LockInv, SightInv
<1>5. LifeInv'
  BY DEF SectionInv, LifeInv
<1>6. ReplayInv'
  BY <1>1 DEF SectionInv, HandlerTypes, Records, SightInv, ReplayInv, Inside, Reconcilers, InFlight, Ended
<1> QED BY <1>2, <1>4, <1>5, <1>6 DEF SectionInv

\* It publishes the outcome of a record that it saw ended.
LEMMA PublishStep ==
  ASSUME SectionInv, NEW p \in Reconcilers, rpc[p] = "act", saw[p] \in Ended,
         rpc' = [rpc EXCEPT ![p] = "announce"],
         UNCHANGED <<record, lock, submit, saw, openedIn>>
  PROVE  SectionInv'
<1>1. HandlerTypes'
  BY DEF SectionInv, HandlerTypes, Records
<1>2. Inside(p) /\ \A q \in Reconcilers : Inside(q)' <=> Inside(q)
  BY DEF SectionInv, HandlerTypes, Records, Inside
<1>3. LockInv'
  BY <1>2 DEF SectionInv, LockInv
<1>4. LifeInv'
  BY DEF SectionInv, LifeInv
<1>5. SightInv'
  BY <1>2 DEF SectionInv, HandlerTypes, Records, SightInv, Reconcilers
<1>6. ReplayInv'
  BY <1>2 DEF SectionInv, HandlerTypes, Records, SightInv, ReplayInv, Reconcilers
<1> QED BY <1>1, <1>3, <1>4, <1>5, <1>6 DEF SectionInv

\* checkingTerminal keeps the pump of a stream from being started twice.
PumpInv ==
  /\ checking \in [Streams -> BOOLEAN]
  /\ \A s \in Streams : rpc[s] # "idle" => checking[s]

LEMMA PumpStart ==
  ASSUME Init
  PROVE  PumpInv
  BY DEF Init, PumpInv, Reconcilers

LEMMA PumpIsOne ==
  ASSUME SectionInv, PumpInv, [Next]_vars
  PROVE  PumpInv'
<1> USE DEF Reconcilers
<1>1. rpc \in [Reconcilers -> {"idle", "lock", "act", "announce", "list", "send"}]
  BY DEF SectionInv, HandlerTypes
<1>2. CASE \/ Replace \/ Withdraw \/ ClearEvents \/ AddOrRefuse \/ Retry \/ Stall
           \/ CallbackLost
  BY <1>2 DEF Replace, Withdraw, ClearEvents, AddOrRefuse, Retry, Stall, CallbackLost,
              PumpInv, reconVars, sseVars, handlerVars
<1>3. ASSUME NEW w \in Workers, Take(w) \/ Prepare(w) \/ PrepareFails(w) \/ Emit(w)
      PROVE  PumpInv'
  BY <1>3 DEF Take, Prepare, PrepareFails, Emit, PumpInv, reconVars, sseVars, handlerVars
<1>4. ASSUME NEW w \in Workers, AppendLands(w) \/ Progress(w) \/ Finish(w) \/ Crash(w)
      PROVE  PumpInv'
  BY <1>4 DEF AppendLands, Progress, Finish, Crash, PumpInv, reconVars, sseVars, handlerVars
<1>5. ASSUME NEW p \in Reconcilers,
             Reconcile(p) \/ ReconcileAct(p) \/ ReconcileAnnounce(p)
      PROVE  PumpInv'
  <2>1. UNCHANGED checking
    BY <1>5 DEF Reconcile, ReconcileAct, ReconcileAnnounce, sseVars, handlerVars
  <2>2. rpc[p] # "idle" \/ p = Callback
    BY <1>5 DEF Reconcile, ReconcileAct, ReconcileAnnounce
  <2>3. PICK x : rpc' = [rpc EXCEPT ![p] = x]
    BY <1>5 DEF Reconcile, ReconcileAct, ReconcileAnnounce, Return
  <2> QED BY <1>1, <2>1, <2>2, <2>3, StreamConstants DEF StreamConstants, PumpInv
<1>6. ASSUME NEW s \in Streams, Connect(s) \/ PumpBusy(s) \/ ReadLog(s) \/ Heartbeat(s)
      PROVE  PumpInv'
  BY <1>1, <1>6 DEF Connect, PumpBusy, ReadLog, Heartbeat, PumpInv
<1>7. ASSUME NEW s \in Streams, SendBatch(s)
      PROVE  PumpInv'
  BY <1>1, <1>7 DEF SendBatch, EndCheck, PumpInv
<1>8. ASSUME NEW s \in Streams, Disconnect(s) \/ Deliver(s)
      PROVE  PumpInv'
  BY <1>8 DEF Disconnect, Deliver, PumpInv, reconVars
<1>9. CASE UNCHANGED vars
  BY <1>9 DEF vars, PumpInv, reconVars, sseVars, handlerVars
<1> QED BY <1>2, <1>3, <1>4, <1>5, <1>6, <1>7, <1>8, <1>9 DEF Next

\* One case for each action; the lemmas above say what it does to the section.
LEMMA SectionStep ==
  ASSUME LogInv, SectionInv, PumpInv, [Next]_vars
  PROVE  SectionInv'
<1>1. CASE Replace \/ Withdraw
  BY <1>1, RemoveStep
<1>2. CASE ClearEvents
  BY <1>2, ClearStep
<1>3. CASE AddOrRefuse
  BY <1>3, AddStep
<1>4. CASE Retry
  <2>1. record'.life = record.life + 1 /\ record.state = "failed"
    BY <1>4 DEF Retry, SectionInv, HandlerTypes, Records
  <2>2. HandlerTypes'
    <3>1. record' \in Records
      <4>1. record \in Records
        BY DEF SectionInv, HandlerTypes
      <4>2. [record EXCEPT !.state = "waiting", !.life = @ + 1] \in Records
        BY <4>1, NewLife
      <4> QED BY <1>4, <4>2 DEF Retry, Records
    <3> QED BY <1>4, <3>1 DEF Retry, reconVars, sseVars, handlerVars, SectionInv, HandlerTypes
  <2> QED BY <1>4, <2>1, <2>2, RecordStep DEF Retry, storeVars, reconVars, sseVars, handlerVars
<1>5. CASE Stall
  <2>1. record'.life = record.life /\ record.state = "active"
    BY <1>5 DEF Stall, SectionInv, HandlerTypes, Records
  <2>2. HandlerTypes'
    <3>1. record' \in Records
      BY <1>5 DEF Stall, SectionInv, HandlerTypes, Records, InFlight, Ended
    <3> QED BY <1>5, <3>1 DEF Stall, reconVars, sseVars, handlerVars, SectionInv, HandlerTypes
  <2> QED BY <1>5, <2>1, <2>2, RecordStep
          DEF Stall, storeVars, reconVars, sseVars, handlerVars, InFlight
<1>6. CASE CallbackLost
  BY <1>6, SectionUntouched
     DEF CallbackLost, section, storeVars, reconVars, sseVars, handlerVars
<1>7. ASSUME NEW w \in Workers, Take(w)
      PROVE  SectionInv'
  <2>1. record'.life = record.life /\ record.state = "waiting"
    BY <1>7 DEF Take, SectionInv, HandlerTypes, Records
  <2>2. HandlerTypes'
    <3>1. record' \in Records
      BY <1>7 DEF Take, SectionInv, HandlerTypes, Records, InFlight, Ended
    <3> QED BY <1>7, <3>1 DEF Take, reconVars, sseVars, handlerVars, SectionInv, HandlerTypes
  <2> QED BY <1>7, <2>1, <2>2, RecordStep
          DEF Take, storeVars, reconVars, sseVars, handlerVars, InFlight
<1>8. ASSUME NEW w \in Workers, Prepare(w)
      PROVE  SectionInv'
  BY <1>8, ResetKeepsLog, SectionUntouched
     DEF Prepare, section, queueVars, reconVars, handlerVars
<1>9. ASSUME NEW w \in Workers, PrepareFails(w) \/ Emit(w) \/ AppendLands(w) \/ Progress(w)
             \/ Crash(w)
      PROVE  SectionInv'
  BY <1>9, SectionUntouched
     DEF PrepareFails, Emit, AppendLands, Progress, Crash, section, storeVars, queueVars,
         reconVars, sseVars, handlerVars
<1>10. ASSUME NEW w \in Workers, Finish(w)
       PROVE  SectionInv'
  <2>1. CASE UNCHANGED record
    BY <1>10, <2>1, SectionUntouched
       DEF Finish, section, storeVars, reconVars, sseVars, handlerVars
  <2>2. CASE ~UNCHANGED record
    <3>1. PICK outcome \in Ended :
            /\ record.state = "active"
            /\ record' = [record EXCEPT !.state = outcome, !.owner = Nobody]
      BY <1>10, <2>2 DEF Finish, Owns
    <3>2. record'.life = record.life
      BY <3>1 DEF SectionInv, HandlerTypes, Records
    <3>3. UNCHANGED <<lock, submit, rpc, saw, openedIn, terminal>>
      BY <1>10 DEF Finish, storeVars, reconVars, sseVars, handlerVars
    <3>4. HandlerTypes'
      BY <3>1, <3>3 DEF SectionInv, HandlerTypes, Records
    <3> QED BY <3>1, <3>2, <3>3, <3>4, RecordStep DEF InFlight
  <2> QED BY <2>1, <2>2
<1>11. ASSUME NEW p \in Reconcilers, Reconcile(p)
       PROVE  SectionInv'
  BY <1>11, LookStep
<1>12. ASSUME NEW p \in Reconcilers, ReconcileAct(p)
       PROVE  SectionInv'
  <2>1. rpc[p] = "act" /\ Inside(p) /\ UNCHANGED <<record, submit, openedIn>>
    BY <1>12 DEF ReconcileAct, Inside, queueVars, handlerVars
  <2>2. CASE saw[p] = "none" /\ Return(p) /\ UNCHANGED <<storeVars, toldVars, fresh>>
    BY <2>1, <2>2, LeaveStep DEF storeVars
  <2>3. CASE saw[p] \in InFlight /\ Return(p) /\ Repair
    BY <2>1, <2>3, LeaveStep, ResetKeepsLog DEF Repair
  <2>4. CASE /\ saw[p] \in Ended
             /\ rpc' = [rpc EXCEPT ![p] = "announce"]
             /\ UNCHANGED <<lock, saw, toldVars, fresh>>
    BY <2>1, <2>4, PublishStep
  <2> QED BY <1>12, <2>2, <2>3, <2>4 DEF ReconcileAct
<1>13. ASSUME NEW p \in Reconcilers, ReconcileAnnounce(p)
       PROVE  SectionInv'
  <2>1. rpc[p] = "announce" /\ Inside(p) /\ Return(p)
    BY <1>13 DEF ReconcileAnnounce, Inside
  <2>2. saw[p] \in Ended
    BY <2>1 DEF SectionInv, SightInv
  <2> QED BY <1>13, <2>1, <2>2, LeaveStep
          DEF ReconcileAnnounce, storeVars, queueVars, sseVars, handlerVars
<1>14. ASSUME NEW s \in Streams, Connect(s)
       PROVE  SectionInv'
  BY <1>14, HandlerStep DEF Connect, Inside, storeVars, queueVars
<1>15. ASSUME NEW s \in Streams, Disconnect(s) \/ Deliver(s)
       PROVE  SectionInv'
  <2>1. rpc' = [rpc EXCEPT ![s] = rpc[s]]
    BY <1>15 DEF Disconnect, Deliver, reconVars, SectionInv, HandlerTypes, Records
  <2>2. PICK o \in {0, openedIn[s]} : openedIn' = [openedIn EXCEPT ![s] = o]
    BY <1>15 DEF Disconnect, Deliver, Close, SendAll, SectionInv, HandlerTypes, Records
  <2>3. UNCHANGED <<record, lock, submit, saw, terminal>>
    BY <1>15 DEF Disconnect, Deliver, storeVars, queueVars, reconVars
  <2> QED BY <2>1, <2>2, <2>3, HandlerStep DEF SectionInv, HandlerTypes, Records
<1>16. ASSUME NEW s \in Streams, PumpBusy(s)
       PROVE  SectionInv'
  BY <1>16, HandlerStep DEF PumpBusy, Close, Inside, storeVars, queueVars
<1>17. ASSUME NEW s \in Streams, ReadLog(s)
       PROVE  SectionInv'
  <2>1. openedIn' = [openedIn EXCEPT ![s] = openedIn[s]]
    BY <1>17 DEF ReadLog, SectionInv, HandlerTypes, Records
  <2> QED BY <1>17, <2>1, HandlerStep DEF ReadLog, Inside, storeVars, queueVars
<1>18. ASSUME NEW s \in Streams, SendBatch(s)
       PROVE  SectionInv'
  <2>1. rpc[s] = "send"
    BY <1>18 DEF SendBatch
  <2>2. PICK x \in {"lock", "idle"} : rpc' = [rpc EXCEPT ![s] = x]
    BY <1>18 DEF SendBatch
  <2>3. PICK o \in {0, openedIn[s]} : openedIn' = [openedIn EXCEPT ![s] = o]
    BY <1>18 DEF SendBatch, SendAll
  <2>4. UNCHANGED <<record, lock, submit, saw, terminal>>
    BY <1>18 DEF SendBatch, storeVars, queueVars
  <2> QED BY <2>1, <2>2, <2>3, <2>4, HandlerStep DEF Inside
<1>19. ASSUME NEW s \in Streams, Heartbeat(s)
       PROVE  SectionInv'
  <2>1. openedIn' = [openedIn EXCEPT ![s] = openedIn[s]]
    BY <1>19 DEF Heartbeat, SectionInv, HandlerTypes, Records
  <2>2. rpc[s] = "idle" /\ rpc' = [rpc EXCEPT ![s] = "lock"]
    BY <1>19 DEF Heartbeat, PumpInv
  <2>3. UNCHANGED <<record, lock, submit, saw, terminal>>
    BY <1>19 DEF Heartbeat, storeVars, queueVars
  <2> QED BY <2>1, <2>2, <2>3, HandlerStep DEF Inside
<1>20. CASE UNCHANGED vars
  BY <1>20, SectionUntouched
     DEF vars, section, storeVars, queueVars, reconVars, sseVars, handlerVars
<1> QED
  BY <1>1, <1>2, <1>3, <1>4, <1>5, <1>6, <1>7, <1>8, <1>9, <1>10, <1>11, <1>12, <1>13,
     <1>14, <1>15, <1>16, <1>17, <1>18, <1>19, <1>20 DEF Next

\* A stream that was opened in the present life of a job reads no outcome from
\* the log while the job is in flight, whoever else reconciles meanwhile.
THEOREM NoOldOutcome == Spec => ReplayAwaitsOutcome
<1> DEFINE Inv == LogInv /\ SectionInv /\ PumpInv
           ReadStep == \A s \in Streams :
                         rpc[s] = "list" /\ rpc'[s] = "send" /\ terminal # NoFrame
                           => record.state \notin InFlight \/ record.life # openedIn[s]
<1>1. Init => Inv
  BY LogStart, SectionStart, PumpStart
<1>2. Inv /\ [Next]_vars => Inv'
  BY LogStep, SectionStep, PumpIsOne
<1>3. Inv => ReadStep
  BY DEF SectionInv, ReplayInv
<1> HIDE DEF Inv, ReadStep
<1>4. Spec => [][ReadStep]_vars
  BY <1>1, <1>2, <1>3, PTL DEF Spec
<1> QED BY <1>4 DEF ReadStep, ReplayAwaitsOutcome

(***************************************************************************)
(* The range of every variable.                                            *)
(***************************************************************************)
\* A trimmed log lacks its first row or nothing.
LEMMA TrimDrops ==
  ASSUME NEW rows \in Seq(Frames), Len(rows) <= MaxEvents + 1
  PROVE  /\ Trim(rows) \in Seq(Frames)
         /\ Len(Trim(rows)) <= MaxEvents
         /\ \E d \in {0, 1} :
              /\ Len(Trim(rows)) = Len(rows) - d
              /\ \A k \in DOMAIN Trim(rows) : Trim(rows)[k] = rows[k + d]
<1>1. MaxEvents \in Nat \ {0}
  BY StreamConstants DEF StreamConstants
<1>2. CASE Len(rows) > MaxEvents
  <2>1. Trim(rows) = Tail(rows)
    BY <1>2 DEF Trim
  <2>2. /\ Tail(rows) \in Seq(Frames)
        /\ Len(Tail(rows)) = Len(rows) - 1
        /\ \A k \in 1..(Len(rows) - 1) : Tail(rows)[k] = rows[k + 1]
    BY <1>1, <1>2
  <2>3. DOMAIN Tail(rows) = 1..(Len(rows) - 1)
    BY <2>2
  <2> QED BY <1>1, <1>2, <2>1, <2>2, <2>3
<1>3. CASE ~(Len(rows) > MaxEvents)
  BY <1>1, <1>3 DEF Trim
<1> QED BY <1>2, <1>3

\* "No event" has the shape of one.
LEMMA NoFrameIsFrame == NoFrame \in Frames
  BY DEF NoFrame, Frames

\* The store keeps its types; the log never outgrows MaxEvents.
LEMMA StoreTypesStep ==
  ASSUME LogInv, LogInv', StoreTypes, [Next]_vars, WorkerTypes
  PROVE  StoreTypes'
<1> DEFINE Log == Len(log') <= MaxEvents
           Told == told' \in Nat /\ inOrder' \in BOOLEAN
<1>1. SUFFICES Log /\ Told
  BY DEF LogInv, LogTypes, StoreTypes
<1>2. ASSUME NEW done \in BOOLEAN, Push(Envelope(done))
      PROVE  Log
  <2>1. Append(log, Envelope(done)) \in Seq(Frames) /\ Len(Append(log, Envelope(done))) <= MaxEvents + 1
    BY EnvelopeIsFrame, StreamConstants DEF StreamConstants, LogInv, StoreTypes
  <2> QED BY <1>2, <2>1, TrimDrops DEF Push
<1>3. ASSUME Forget
      PROVE  Log /\ Told
  BY <1>3, StreamConstants DEF StreamConstants, Forget
<1>4. ASSUME ResetTerminal
      PROVE  Log /\ Told
  BY <1>3, <1>4 DEF ResetTerminal, storeVars, toldVars, StoreTypes
<1>5. ASSUME AppendTerminal
      PROVE  Log
  BY <1>2, <1>5 DEF AppendTerminal, storeVars, StoreTypes
<1>6. ASSUME NEW e \in Frames, Announce(e)
      PROVE  Told
  BY <1>6 DEF Announce, StoreTypes, Frames
<1>7. CASE ClearEvents
  BY <1>3, <1>7 DEF ClearEvents
<1>8. CASE Replace \/ Withdraw \/ AddOrRefuse \/ Retry \/ Stall \/ CallbackLost
  BY <1>8 DEF Replace, Withdraw, AddOrRefuse, Retry, Stall, CallbackLost, storeVars, toldVars, StoreTypes
<1>9. ASSUME NEW w \in Workers, Prepare(w)
      PROVE  Log /\ Told
  BY <1>4, <1>9 DEF Prepare
<1>10. ASSUME NEW w \in Workers, AppendLands(w)
       PROVE  Log /\ Told
  BY <1>2, <1>10 DEF AppendLands, StoreTypes, toldVars
<1>11. ASSUME NEW w \in Workers, Progress(w)
       PROVE  Log /\ Told
  BY <1>6, <1>11 DEF Progress, StoreTypes, WorkerTypes, storeVars, toldVars
<1>12. ASSUME NEW w \in Workers, Take(w) \/ PrepareFails(w) \/ Emit(w) \/ Finish(w) \/ Crash(w)
       PROVE  Log /\ Told
  BY <1>12 DEF Take, PrepareFails, Emit, Finish, Crash, storeVars, toldVars, StoreTypes
<1>13. ASSUME NEW p \in Reconcilers, ReconcileAct(p)
       PROVE  Log /\ Told
  BY <1>4, <1>5, <1>13 DEF ReconcileAct, Repair, storeVars, toldVars, StoreTypes
<1>14. ASSUME NEW p \in Reconcilers, ReconcileAnnounce(p)
       PROVE  Log /\ Told
  BY <1>6, <1>14 DEF ReconcileAnnounce, storeVars, toldVars, StoreTypes
<1>15. ASSUME NEW p \in Reconcilers, Reconcile(p)
       PROVE  Log /\ Told
  BY <1>15 DEF Reconcile, storeVars, toldVars, StoreTypes
<1>16. ASSUME NEW s \in Streams,
              \/ Connect(s) \/ Disconnect(s) \/ Deliver(s) \/ PumpBusy(s)
              \/ ReadLog(s) \/ SendBatch(s) \/ Heartbeat(s)
       PROVE  Log /\ Told
  BY <1>16 DEF Connect, Disconnect, Deliver, PumpBusy, ReadLog, SendBatch, Heartbeat,
               storeVars, toldVars, StoreTypes
<1>17. CASE UNCHANGED vars
  BY <1>17 DEF vars, storeVars, toldVars, StoreTypes
<1> QED
  BY <1>7, <1>8, <1>9, <1>10, <1>11, <1>12, <1>13, <1>14, <1>15, <1>16, <1>17 DEF Next

\* The workers keep their types.
LEMMA WorkerTypesStep ==
  ASSUME LogTypes, WorkerTypes, [Next]_vars
  PROVE  WorkerTypes'
<1> USE DEF WorkerTypes
<1>1. EventsPerRun \in Nat
  BY StreamConstants DEF StreamConstants
<1>2. CASE \/ Replace \/ Withdraw \/ ClearEvents \/ AddOrRefuse \/ Retry \/ Stall
           \/ CallbackLost
  BY <1>2 DEF Replace, Withdraw, ClearEvents, AddOrRefuse, Retry, Stall, CallbackLost, workerVars
<1>3. ASSUME NEW w \in Workers, Take(w) \/ Prepare(w) \/ PrepareFails(w)
      PROVE  WorkerTypes'
  BY <1>1, <1>3 DEF Take, Prepare, PrepareFails
<1>4. ASSUME NEW w \in Workers, Emit(w)
      PROVE  WorkerTypes'
  BY <1>1, <1>4 DEF Emit
<1>5. ASSUME NEW w \in Workers, AppendLands(w)
      PROVE  WorkerTypes'
  <2>1. Envelope(FALSE) \in Frames
    BY EnvelopeIsFrame
  <2>2. CASE Refused
    BY <1>5, <2>2 DEF AppendLands
  <2>3. CASE ~Refused
    BY <1>5, <2>1, <2>3 DEF AppendLands
  <2> QED BY <2>2, <2>3
<1>6. ASSUME NEW w \in Workers, Progress(w)
      PROVE  WorkerTypes'
  BY <1>6, NoFrameIsFrame DEF Progress
<1>7. ASSUME NEW w \in Workers, Finish(w)
      PROVE  WorkerTypes'
  <2>1. /\ wpc' = [wpc EXCEPT ![w] = "idle"] /\ left' = [left EXCEPT ![w] = 0]
        /\ UNCHANGED <<chain, said>>
    BY <1>7 DEF Finish
  <2> QED BY <1>1, <2>1
<1>11. ASSUME NEW w \in Workers, Crash(w)
      PROVE  WorkerTypes'
  BY <1>1, <1>11, NoFrameIsFrame DEF Crash
<1>8. ASSUME NEW p \in Reconcilers,
             Reconcile(p) \/ ReconcileAct(p) \/ ReconcileAnnounce(p)
      PROVE  WorkerTypes'
  BY <1>8 DEF Reconcile, ReconcileAct, ReconcileAnnounce, workerVars
<1>9. ASSUME NEW s \in Streams,
             \/ Connect(s) \/ Disconnect(s) \/ Deliver(s) \/ PumpBusy(s)
             \/ ReadLog(s) \/ SendBatch(s) \/ Heartbeat(s)
      PROVE  WorkerTypes'
  BY <1>9 DEF Connect, Disconnect, Deliver, PumpBusy, ReadLog, SendBatch, Heartbeat, workerVars
<1>10. CASE UNCHANGED vars
  BY <1>10 DEF vars, workerVars
<1> QED BY <1>2, <1>3, <1>4, <1>5, <1>6, <1>7, <1>8, <1>9, <1>10, <1>11 DEF Next

(***************************************************************************)
(* Indices and sequences of events.                                        *)
(***************************************************************************)
LessNat == {ss \in Nat \X Nat : ss[1] < ss[2]}

\* Numbers are well-ordered: a set of them has a least one.
LEMMA NatWF == IsWellFoundedOn(LessNat, Nat)
BY NatLessThanWellFounded DEF OpToRel, LessNat

LEMMA Least ==
  ASSUME NEW T \in SUBSET Nat, T # {}
  PROVE  \E x \in T : \A y \in T : x <= y
<1>1. PICK x \in T : \A y \in T : ~(<<y, x>> \in LessNat)
  BY NatWF, WFMin
<1>2. \A y \in T : <<y, x>> \notin LessNat => x <= y
  BY DEF LessNat
<1> QED BY <1>1, <1>2

\* The elements of a sequence of events, and their IDs and epochs.
LEMMA FrameSeq ==
  ASSUME NEW events \in Seq(Frames)
  PROVE  /\ DOMAIN events = 1..Len(events) /\ Len(events) \in Nat
         /\ \A i \in DOMAIN events : /\ events[i] \in Frames
                                    /\ events[i].id \in Nat
                                    /\ events[i].epoch \in Nat
<1>1. DOMAIN events = 1..Len(events) /\ Len(events) \in Nat
  OBVIOUS
<1>2. \A i \in 1..Len(events) : events[i] \in Frames
  OBVIOUS
<1>3. \A e \in Frames : e.id \in Nat /\ e.epoch \in Nat
  BY DEF Frames
<1> QED BY <1>1, <1>2, <1>3

(***************************************************************************)
(* send().                                                                 *)
(***************************************************************************)
\* The events above the cursor and above all before them.
Above(s, events) ==
  {k \in DOMAIN events : /\ events[k].id > lastSent[s]
                         /\ \A i \in 1..(k - 1) : events[i].id < events[k].id}

\* What is sent is above the cursor, and all of that up to a first done event.
LEMMA SentIsAbove ==
  ASSUME StreamTypes, NEW s \in Streams, NEW events \in Seq(Frames)
  PROVE  /\ Sent(s, events) \subseteq Above(s, events)
         /\ Sent(s, events) \subseteq DOMAIN events
         /\ Sent(s, events) # {} => open(s)
         /\ \A k \in Sent(s, events), i \in Above(s, events) : i < k => ~events[i].done
         /\ \A k \in Sent(s, events), i \in Above(s, events) : i < k => i \in Sent(s, events)
<1>1. Sent(s, events) = {k \in Above(s, events) :
                           open(s) /\ \A i \in Above(s, events) : i < k => ~events[i].done}
  BY DEF Sent, Above
<1>2. Above(s, events) \subseteq DOMAIN events /\ DOMAIN events \subseteq Nat
  BY DEF Above
<1> QED BY <1>1, <1>2

\* Each event above the cursor has one that is at least as high, at its index
\* or before it, and above all those before it.
LEMMA Climb ==
  ASSUME StreamTypes, NEW s \in Streams, NEW events \in Seq(Frames),
         NEW n \in Nat, n > lastSent[s], NEW k \in DOMAIN events, events[k].id >= n
  PROVE  \E r \in Above(s, events) :
           /\ r <= k /\ events[r].id >= n
           /\ \A i \in DOMAIN events : events[i].id >= n => r <= i
<1> DEFINE T == {i \in DOMAIN events : events[i].id >= n}
<1>1. T \in SUBSET Nat /\ T # {}
  OBVIOUS
<1>2. PICK r \in T : \A i \in T : r <= i
  BY <1>1, Least
<1>3. DOMAIN events = 1..Len(events) /\ \A i \in DOMAIN events : events[i].id \in Nat
  BY FrameSeq
<1>4. \A i \in 1..(r - 1) : events[i].id < events[r].id
  BY <1>2, <1>3
<1>5. lastSent[s] \in Nat
  BY DEF StreamTypes
<1>6. r \in DOMAIN events /\ events[r].id >= n /\ r <= k
  BY <1>2
<1>7. r \in Above(s, events)
  BY <1>3, <1>4, <1>5, <1>6 DEF Above
<1>8. \A i \in DOMAIN events : events[i].id >= n => r <= i
  BY <1>2
<1> QED BY <1>6, <1>7, <1>8

\* A stream that stays open sends everything above its cursor.
LEMMA OpenSendsAll ==
  ASSUME StreamTypes, NEW s \in Streams, NEW events \in Seq(Frames), open(s),
         \A k \in Sent(s, events) : ~events[k].done
  PROVE  Sent(s, events) = Above(s, events)
<1> DEFINE T == {i \in Above(s, events) : events[i].done}
<1>0. Above(s, events) \subseteq Nat
  BY DEF Above
<1>1. T = {}
  <2>1. SUFFICES ASSUME T # {} PROVE FALSE
    OBVIOUS
  <2>2. PICK i \in T : \A j \in T : i <= j
    BY <1>0, <2>1, Least
  <2>3. \A j \in Above(s, events) : j < i => ~events[j].done
    BY <1>0, <2>2
  <2>4. i \in Sent(s, events)
    BY <2>2, <2>3 DEF Sent, Above
  <2> QED BY <2>2, <2>4
<1>2. \A k \in Above(s, events) : k \in Sent(s, events)
  BY <1>1 DEF Sent, Above
<1> QED BY <1>2, SentIsAbove

\* What send() does to a stream: its cursor is that of the last event sent, or
\* stays; while the stream is open, no event is left above it.
LEMMA SendMoves ==
  ASSUME StreamTypes, NEW s \in Streams, NEW events \in Seq(Frames),
         NEW next \in {"first", "second", "beating", phase[s]}, SendAll(s, events, next)
  PROVE  /\ \/ lastSent' = lastSent
            \/ \E last \in Sent(s, events) :
                 /\ \A k \in Sent(s, events) : k <= last
                 /\ lastSent'[s] = events[last].id
         /\ fresh'[s] => \A k \in Sent(s, events) : events[k].epoch = epoch
         /\ lastSent' \in [Streams -> Nat]
         /\ lastSent[s] <= lastSent'[s]
         /\ \A t \in Streams \ {s} : lastSent'[t] = lastSent[t] /\ (fresh'[t] <=> fresh[t]) /\ phase'[t] = phase[t]
         /\ fresh'[s] => fresh[s]
         /\ open(s)' => open(s) /\ phase'[s] = next
         /\ open(s)' => \A k \in DOMAIN events : events[k].id <= lastSent'[s]
<1>1. lastSent \in [Streams -> Nat] /\ phase \in [Streams -> {"off", "told", "first", "second", "beating"}]
  BY DEF StreamTypes
<1>2. DOMAIN events = 1..Len(events) /\ \A i \in DOMAIN events : events[i].id \in Nat
  BY FrameSeq
<1>3. phase' = [phase EXCEPT ![s] = CASE \E k \in Sent(s, events) : events[k].done -> "told"
                                      [] open(s) /\ ~(\E k \in Sent(s, events) : events[k].done) -> next
                                      [] OTHER -> @]
  BY DEF SendAll
<1>4. open(s)' => open(s) /\ phase'[s] = next /\ \A k \in Sent(s, events) : ~events[k].done
  <2>1. CASE \E k \in Sent(s, events) : events[k].done
    <3>1. phase'[s] = "told"
      BY <1>1, <1>3, <2>1
    <3> QED BY <3>1 DEF open
  <2>2. CASE open(s) /\ ~(\E k \in Sent(s, events) : events[k].done)
    BY <1>1, <1>3, <2>2
  <2>3. CASE ~open(s) /\ ~(\E k \in Sent(s, events) : events[k].done)
    BY <1>1, <1>3, <2>3 DEF open
  <2> QED BY <2>1, <2>2, <2>3
<1>5. CASE Sent(s, events) = {}
  <2>1. UNCHANGED <<lastSent, fresh>>
    BY <1>5 DEF SendAll
  <2>2. ASSUME open(s)', NEW k \in DOMAIN events, events[k].id > lastSent'[s]
        PROVE  FALSE
    <3>1. Above(s, events) = {}
      BY <1>4, <1>5, <2>2, OpenSendsAll
    <3> QED BY <1>2, <2>1, <2>2, <3>1, Climb
  <2>3. fresh'[s] => fresh[s]
    BY <2>1
  <2>4. \A t \in Streams \ {s} : lastSent'[t] = lastSent[t] /\ (fresh'[t] <=> fresh[t]) /\ phase'[t] = phase[t]
    BY <1>1, <1>3, <2>1
  <2>5. \A k \in DOMAIN events : events[k].id <= lastSent'[s] \/ events[k].id > lastSent'[s]
    BY <1>1, <1>2, <2>1
  <2>6. open(s)' => \A k \in DOMAIN events : events[k].id <= lastSent'[s]
    BY <2>2, <2>5
  <2>7. lastSent' \in [Streams -> Nat] /\ lastSent[s] <= lastSent'[s] 
    BY <1>1, <2>1
  <2>8. \A k \in Sent(s, events) : FALSE
    BY <1>5
  <2> QED BY <1>4, <2>1, <2>3, <2>4, <2>6, <2>7, <2>8
<1>6. CASE Sent(s, events) # {}
  <2>1. PICK last \in Sent(s, events) :
                /\ \A k \in Sent(s, events) : k <= last
                /\ lastSent' = [lastSent EXCEPT ![s] = events[last].id]
                /\ fresh' = [fresh EXCEPT ![s] = @ /\ \A k \in Sent(s, events) : events[k].epoch = epoch]
    BY <1>6 DEF SendAll
  <2>2. last \in Above(s, events)
    BY SentIsAbove
  <2>3. last \in DOMAIN events /\ lastSent'[s] = events[last].id /\ lastSent[s] < lastSent'[s]
    BY <1>1, <1>2, <2>1, <2>2 DEF Above
  <2>4. \A t \in Streams \ {s} : lastSent'[t] = lastSent[t] /\ (fresh'[t] <=> fresh[t]) /\ phase'[t] = phase[t]
    <3>1. fresh \in [Streams -> BOOLEAN]
      BY DEF StreamTypes
    <3> QED BY <1>1, <1>3, <2>1, <3>1
  <2>5. fresh'[s] => fresh[s]
    <3>1. fresh \in [Streams -> BOOLEAN]
      BY DEF StreamTypes
    <3> QED BY <2>1, <3>1
  <2>6. ASSUME open(s)', NEW k \in DOMAIN events, events[k].id > lastSent'[s]
        PROVE  FALSE
    <3>1. Sent(s, events) = Above(s, events)
      BY <1>4, <2>6, OpenSendsAll
    <3>2. events[k].id > lastSent[s]
      BY <1>1, <1>2, <2>3, <2>6
    <3>3. PICK r \in Above(s, events) : r <= k /\ events[r].id >= events[k].id
      <4>1. events[k].id \in Nat /\ events[k].id >= events[k].id
        BY <1>2
      <4> QED BY <3>2, <4>1, Climb
    <3>4. r <= last /\ r \in DOMAIN events
      BY <2>1, <3>1, <3>3 DEF Above
    <3>5. events[r].id <= events[last].id
      BY <1>2, <2>2, <3>4 DEF Above
    <3> QED BY <1>2, <2>3, <2>6, <3>3, <3>4, <3>5
  <2>7. fresh'[s] => \A k \in Sent(s, events) : events[k].epoch = epoch
    <3>1. fresh \in [Streams -> BOOLEAN]
      BY DEF StreamTypes
    <3> QED BY <2>1, <3>1
  <2>8. lastSent' \in [Streams -> Nat]
    BY <1>1, <1>2, <2>1, <2>3
  <2>9. \A k \in DOMAIN events : events[k].id <= lastSent'[s] \/ events[k].id > lastSent'[s]
    BY <1>2, <2>8
  <2>10. lastSent[s] <= lastSent'[s]
    BY <1>1, <2>3, <2>8
  <2>11. open(s)' => \A k \in DOMAIN events : events[k].id <= lastSent'[s]
    BY <2>6, <2>9
  <2>12. \E top \in Sent(s, events) :
           /\ \A k \in Sent(s, events) : k <= top
           /\ lastSent'[s] = events[top].id
    BY <2>1, <2>3
  <2> QED BY <1>4, <2>4, <2>5, <2>7, <2>8, <2>10, <2>11, <2>12
<1> QED BY <1>5, <1>6

\* send() keeps the types of the stream.
LEMMA SendTypes ==
  ASSUME StreamTypes, NEW s \in Streams, NEW events \in Seq(Frames),
         NEW next \in {"first", "second", "beating", phase[s]}, SendAll(s, events, next)
  PROVE  /\ phase' \in [Streams -> {"off", "told", "first", "second", "beating"}]
         /\ lastSent' \in [Streams -> Nat]
         /\ fresh' \in [Streams -> BOOLEAN]
<1>1. /\ phase \in [Streams -> {"off", "told", "first", "second", "beating"}]
      /\ fresh \in [Streams -> BOOLEAN]
  BY DEF StreamTypes
<1>2. PICK x \in {"told", next, phase[s]} : phase' = [phase EXCEPT ![s] = x]
  <2>1. CASE \E k \in Sent(s, events) : events[k].done
    BY <2>1 DEF SendAll
  <2>2. CASE open(s) /\ ~(\E k \in Sent(s, events) : events[k].done)
    BY <2>2 DEF SendAll
  <2>3. CASE ~open(s) /\ ~(\E k \in Sent(s, events) : events[k].done)
    BY <2>3 DEF SendAll
  <2> QED BY <2>1, <2>2, <2>3
<1>3. phase' \in [Streams -> {"off", "told", "first", "second", "beating"}]
  BY <1>1, <1>2
<1>4. fresh' \in [Streams -> BOOLEAN]
  <2>1. CASE Sent(s, events) = {}
    BY <1>1, <2>1 DEF SendAll
  <2>2. CASE Sent(s, events) # {}
    BY <1>1, <2>2 DEF SendAll
  <2> QED BY <2>1, <2>2
<1>5. lastSent' \in [Streams -> Nat]
  BY SendMoves
<1> QED BY <1>3, <1>4, <1>5

\* Losing the stream of a job keeps the types of the cursors.
LEMMA ForgetTypes ==
  ASSUME StreamTypes, Forget
  PROVE  fresh' \in [Streams -> BOOLEAN]
  BY DEF StreamTypes, Forget

\* A kept event is inserted behind those that are not above it.
LEMMA Inserted ==
  ASSUME NEW events \in Seq(Frames), NEW n \in 0..Len(events), NEW e \in Frames
  PROVE  /\ InsertAt(events, n + 1, e) \in Seq(Frames)
         /\ Len(InsertAt(events, n + 1, e)) = Len(events) + 1
         /\ \A i \in 1..(Len(events) + 1) :
              InsertAt(events, n + 1, e)[i] =
                IF i <= n THEN events[i] ELSE IF i = n + 1 THEN e ELSE events[i - 1]
<1>1. InsertAt(events, n + 1, e) = (SubSeq(events, 1, n) \o <<e>>) \o SubSeq(events, n + 1, Len(events))
  <2>1. (n + 1) - 1 = n
    OBVIOUS
  <2> QED BY <2>1, Zenon DEF InsertAt
<1>2. /\ SubSeq(events, 1, n) \in Seq(Frames)
      /\ Len(SubSeq(events, 1, n)) = n
      /\ \A i \in 1..n : SubSeq(events, 1, n)[i] = events[i]
  OBVIOUS
<1>3. /\ SubSeq(events, n + 1, Len(events)) \in Seq(Frames)
      /\ Len(SubSeq(events, n + 1, Len(events))) = Len(events) - n
      /\ \A i \in 1..(Len(events) - n) : SubSeq(events, n + 1, Len(events))[i] = events[i + n]
  OBVIOUS
<1> DEFINE a == SubSeq(events, 1, n)
           b == SubSeq(events, n + 1, Len(events))
           c == a \o <<e>>
<1>4. /\ c \in Seq(Frames) /\ Len(c) = n + 1
      /\ \A i \in 1..(n + 1) : c[i] = IF i <= n THEN events[i] ELSE e
  BY <1>2
<1> HIDE DEF a, b
<1>5. b \in Seq(Frames) /\ Len(b) = Len(events) - n /\ \A i \in 1..(Len(events) - n) : b[i] = events[i + n]
  BY <1>3 DEF b
<1>6. InsertAt(events, n + 1, e) = c \o b
  BY <1>1 DEF a, b
<1> HIDE DEF c
<1>7. /\ c \o b \in Seq(Frames) /\ Len(c \o b) = Len(c) + Len(b)
      /\ \A i \in 1..(Len(c) + Len(b)) : (c \o b)[i] = IF i <= Len(c) THEN c[i] ELSE b[i - Len(c)]
  BY <1>4, <1>5, ConcatProperties
<1>8. Len(c) + Len(b) = Len(events) + 1 /\ Len(events) \in Nat
  <2>1. Len(events) \in Nat /\ n \in Nat
    OBVIOUS
  <2>2. Len(c) = n + 1 /\ Len(b) = Len(events) - n
    BY <1>4, <1>5
  <2> QED BY <2>1, <2>2
<1>9. ASSUME NEW i \in 1..(Len(events) + 1)
      PROVE  (c \o b)[i] = IF i <= n THEN events[i] ELSE IF i = n + 1 THEN e ELSE events[i - 1]
  <2>1. i \in 1..(Len(c) + Len(b)) /\ Len(c) = n + 1
    BY <1>4, <1>8
  <2>2. CASE i <= n + 1
    <3>1. (c \o b)[i] = c[i] /\ i \in 1..(n + 1)
      BY <1>7, <2>1, <2>2
    <3> QED BY <1>4, <2>2, <3>1
  <2>3. CASE ~(i <= n + 1)
    <3>1. (c \o b)[i] = b[i - (n + 1)]
      BY <1>7, <2>1, <2>3
    <3>2. i - (n + 1) \in 1..(Len(events) - n) /\ (i - (n + 1)) + n = i - 1
      BY <1>8, <2>3
    <3>3. b[i - (n + 1)] = events[(i - (n + 1)) + n]
      BY <1>5, <3>2
    <3> QED BY <2>3, <3>1, <3>2, <3>3
  <2> QED BY <2>2, <2>3
<1> DEFINE r == InsertAt(events, n + 1, e)
<1>10. r = c \o b
  BY <1>6
<1> HIDE DEF r
<1>11. /\ r \in Seq(Frames) /\ Len(r) = Len(events) + 1
       /\ \A i \in 1..(Len(events) + 1) :
            r[i] = IF i <= n THEN events[i] ELSE IF i = n + 1 THEN e ELSE events[i - 1]
  BY <1>7, <1>8, <1>9, <1>10
<1> QED BY <1>11 DEF r

\* Streams keep their types, whoever acts.
LEMMA StreamTypesStep ==
  ASSUME LogTypes, WorkerTypes, StreamTypes, HandlerTypes', PumpInv', [Next]_vars
  PROVE  StreamTypes'
<1> DEFINE Wire == wire' \in [Streams -> Seq(Frames)]
           Phase == phase' \in [Streams -> {"off", "told", "first", "second", "beating"}]
           Batch == batch' \in [Streams -> Seq(Frames)] /\ pending' \in [Streams -> Seq(Frames)]
           Cursor == lastSent' \in [Streams -> Nat]
           Fresh == fresh' \in [Streams -> BOOLEAN]
<1> USE DEF StreamTypes
<1>1. SUFFICES Wire /\ Phase /\ Batch /\ Cursor /\ Fresh
  BY DEF HandlerTypes, PumpInv
<1>2. (UNCHANGED wire => Wire) /\ (UNCHANGED <<batch, pending>> => Batch) /\ (UNCHANGED fresh => Fresh)
      /\ (UNCHANGED handlerVars => Phase /\ Batch /\ Cursor)
  BY DEF handlerVars
<1>3. ResetTerminal => Fresh
  BY <1>2, ForgetTypes DEF ResetTerminal
<1>4. ASSUME NEW e \in Frames, Announce(e)
      PROVE  Wire
  <2>1. \A s \in Streams : wire[s] \in Seq(Frames)
    OBVIOUS
  <2>2. MaxLag \in Nat \ {0}
    BY StreamConstants DEF StreamConstants
  <2>3. \A s \in Streams : /\ Append(wire[s], e) \in Seq(Frames)
                           /\ ~(Len(wire[s]) < MaxLag) => Append(Tail(wire[s]), e) \in Seq(Frames)
    BY <2>1, <2>2
  <2> QED BY <1>4, <2>3 DEF Announce
<1>5. CASE ClearEvents
  BY <1>2, <1>5, ForgetTypes DEF ClearEvents
<1>6. CASE Replace \/ Withdraw \/ AddOrRefuse \/ Retry \/ Stall \/ CallbackLost
  BY <1>2, <1>6 DEF Replace, Withdraw, AddOrRefuse, Retry, Stall, CallbackLost, sseVars
<1>7. ASSUME NEW w \in Workers, Prepare(w)
      PROVE  Wire /\ Phase /\ Batch /\ Cursor /\ Fresh
  BY <1>2, <1>3, <1>7 DEF Prepare
<1>8. ASSUME NEW w \in Workers, Progress(w)
      PROVE  Wire /\ Phase /\ Batch /\ Cursor /\ Fresh
  BY <1>2, <1>4, <1>8 DEF Progress, WorkerTypes, sseVars
<1>9. ASSUME NEW w \in Workers, Take(w) \/ PrepareFails(w) \/ Emit(w) \/ AppendLands(w) \/ Finish(w) \/ Crash(w)
      PROVE  Wire /\ Phase /\ Batch /\ Cursor /\ Fresh
  BY <1>2, <1>9 DEF Take, PrepareFails, Emit, AppendLands, Finish, Crash, sseVars
<1>10. ASSUME NEW p \in Reconcilers, ReconcileAct(p)
       PROVE  Wire /\ Phase /\ Batch /\ Cursor /\ Fresh
  BY <1>2, <1>3, <1>10 DEF ReconcileAct, Repair
<1>11. ASSUME NEW p \in Reconcilers, ReconcileAnnounce(p)
       PROVE  Wire /\ Phase /\ Batch /\ Cursor /\ Fresh
  BY <1>2, <1>4, <1>11 DEF ReconcileAnnounce, LogTypes, sseVars
<1>12. ASSUME NEW p \in Reconcilers, Reconcile(p)
       PROVE  Wire /\ Phase /\ Batch /\ Cursor /\ Fresh
  BY <1>2, <1>12 DEF Reconcile, sseVars
<1>13. ASSUME NEW s \in Streams, Connect(s)
       PROVE  Wire /\ Phase /\ Batch /\ Cursor /\ Fresh
  <2>1. Wire /\ Batch
    BY <1>2, <1>13 DEF Connect
  <2>2. Phase
    BY <1>13 DEF Connect
  <2>3. Cursor
    BY <1>13 DEF Connect
  <2>4. Fresh
    BY <1>13 DEF Connect
  <2> QED BY <2>1, <2>2, <2>3, <2>4
<1>14. ASSUME NEW s \in Streams, Disconnect(s) \/ PumpBusy(s)
       PROVE  Wire /\ Phase /\ Batch /\ Cursor /\ Fresh
  <2>1. Close(s) /\ UNCHANGED <<wire, batch, lastSent, fresh>>
    BY <1>14 DEF Disconnect, PumpBusy
  <2>2. Phase
    BY <2>1 DEF Close
  <2>3. Batch
    <3>1. <<>> \in Seq(Frames)
      OBVIOUS
    <3> QED BY <2>1, <3>1 DEF Close
  <2> QED BY <2>1, <2>2, <2>3
<1>15. ASSUME NEW s \in Streams, Deliver(s)
       PROVE  Wire /\ Phase /\ Batch /\ Cursor /\ Fresh
  <2>1. wire[s] \in Seq(Frames) /\ wire[s] # <<>>
    BY <1>15 DEF Deliver
  <2>2. Head(wire[s]) \in Frames /\ Tail(wire[s]) \in Seq(Frames) /\ <<Head(wire[s])>> \in Seq(Frames)
    BY <2>1
  <2>3. Wire /\ UNCHANGED batch
    BY <1>15, <2>2 DEF Deliver
  <2>4. CASE open(s) /\ Replaying(s)
    <3>1. UNCHANGED <<phase, lastSent, fresh>>
      BY <1>15, <2>4 DEF Deliver
    <3>2. PICK n \in 0..Len(pending[s]) :
            pending' = [pending EXCEPT ![s] = InsertAt(@, n + 1, Head(wire[s]))]
      BY <1>15, <2>4 DEF Deliver
    <3>3. InsertAt(pending[s], n + 1, Head(wire[s])) \in Seq(Frames)
      BY <2>2, Inserted
    <3> QED BY <2>3, <3>1, <3>2, <3>3
  <2>5. CASE ~(open(s) /\ Replaying(s))
    <3>1. SendAll(s, <<Head(wire[s])>>, phase[s]) /\ UNCHANGED pending
      BY <1>15, <2>5 DEF Deliver
    <3>2. Phase /\ Cursor /\ Fresh
      BY <2>2, <3>1, SendTypes
    <3> QED BY <2>3, <3>1, <3>2
  <2> QED BY <2>4, <2>5
<1>16. ASSUME NEW s \in Streams, ReadLog(s)
       PROVE  Wire /\ Phase /\ Batch /\ Cursor /\ Fresh
  <2>1. PICK n \in 0..Len(log) : batch' = [batch EXCEPT ![s] = SubSeq(log, n + 1, Len(log))]
    BY <1>16 DEF ReadLog
  <2>2. SubSeq(log, n + 1, Len(log)) \in Seq(Frames)
    BY DEF LogTypes
  <2> QED BY <1>16, <2>1, <2>2 DEF ReadLog
<1>17. ASSUME NEW s \in Streams, SendBatch(s)
       PROVE  Wire /\ Phase /\ Batch /\ Cursor /\ Fresh
  <2>1. batch[s] \o pending[s] \in Seq(Frames)
    OBVIOUS
  <2>2. PICK next \in {"second", "beating"} : SendAll(s, batch[s] \o pending[s], next)
    BY <1>17 DEF SendBatch
  <2>3. Phase /\ Cursor /\ Fresh
    BY <2>1, <2>2, SendTypes
  <2>4. <<>> \in Seq(Frames)
    OBVIOUS
  <2> QED BY <1>17, <2>3, <2>4 DEF SendBatch
<1>18. ASSUME NEW s \in Streams, Heartbeat(s)
       PROVE  Wire /\ Phase /\ Batch /\ Cursor /\ Fresh
  BY <1>18 DEF Heartbeat
<1>19. CASE UNCHANGED vars
  BY <1>19 DEF vars, sseVars, handlerVars
<1> QED
  BY <1>5, <1>6, <1>7, <1>8, <1>9, <1>10, <1>11, <1>12, <1>13, <1>14, <1>15, <1>16, <1>17,
     <1>18, <1>19 DEF Next

\* No more goes wrong than MaxTroubles allows.
LEMMA MishapsStep ==
  ASSUME mishaps \in 0..MaxTroubles, HandlerTypes, [Next]_vars
  PROVE  mishaps' \in 0..MaxTroubles
<1>1. Mishap => mishaps' \in 0..MaxTroubles
  BY StreamConstants DEF StreamConstants, Mishap, Bounded, HandlerTypes, Records
<1>2. CASE Replace \/ Withdraw \/ ClearEvents \/ AddOrRefuse \/ Retry \/ Stall \/ CallbackLost
  BY <1>1, <1>2 DEF Replace, Withdraw, ClearEvents, AddOrRefuse, Retry, Stall, CallbackLost
<1>3. ASSUME NEW w \in Workers, \/ Take(w) \/ Prepare(w) \/ PrepareFails(w) \/ Emit(w)
                                \/ AppendLands(w) \/ Progress(w) \/ Finish(w) \/ Crash(w)
      PROVE  mishaps' \in 0..MaxTroubles
  BY <1>1, <1>3 DEF Take, Prepare, PrepareFails, Emit, AppendLands, Progress, Finish, Crash
<1>4. ASSUME NEW p \in Reconcilers, Reconcile(p) \/ ReconcileAct(p) \/ ReconcileAnnounce(p)
      PROVE  mishaps' \in 0..MaxTroubles
  BY <1>1, <1>4 DEF Reconcile, ReconcileAct, ReconcileAnnounce
<1>5. ASSUME NEW s \in Streams,
             \/ Connect(s) \/ Disconnect(s) \/ Deliver(s) \/ PumpBusy(s)
             \/ ReadLog(s) \/ SendBatch(s) \/ Heartbeat(s)
      PROVE  mishaps' \in 0..MaxTroubles
  BY <1>5 DEF Connect, Disconnect, Deliver, PumpBusy, ReadLog, SendBatch, Heartbeat
<1>6. CASE UNCHANGED vars
  BY <1>6 DEF vars
<1> QED BY <1>2, <1>3, <1>4, <1>5, <1>6 DEF Next

\* The mark of a due event stays a Boolean.
LEMMA DueStep ==
  ASSUME due \in BOOLEAN, [Next]_vars
  PROVE  due' \in BOOLEAN
<1>1. CASE Replace \/ Withdraw \/ ClearEvents \/ AddOrRefuse \/ Retry \/ Stall \/ CallbackLost
  BY <1>1 DEF Replace, Withdraw, ClearEvents, AddOrRefuse, Retry, Stall, CallbackLost, queueVars
<1>2. ASSUME NEW w \in Workers, \/ Take(w) \/ Prepare(w) \/ PrepareFails(w) \/ Emit(w)
                                \/ AppendLands(w) \/ Progress(w) \/ Finish(w) \/ Crash(w)
      PROVE  due' \in BOOLEAN
  BY <1>2 DEF Take, Prepare, PrepareFails, Emit, AppendLands, Progress, Finish, Crash, queueVars
<1>3. ASSUME NEW p \in Reconcilers, Reconcile(p) \/ ReconcileAct(p) \/ ReconcileAnnounce(p)
      PROVE  due' \in BOOLEAN
  BY <1>3 DEF Reconcile, ReconcileAct, ReconcileAnnounce, queueVars
<1>4. ASSUME NEW s \in Streams,
             \/ Connect(s) \/ Disconnect(s) \/ Deliver(s) \/ PumpBusy(s)
             \/ ReadLog(s) \/ SendBatch(s) \/ Heartbeat(s)
      PROVE  due' \in BOOLEAN
  BY <1>4 DEF Connect, Disconnect, Deliver, PumpBusy, ReadLog, SendBatch, Heartbeat, queueVars
<1>5. CASE UNCHANGED vars
  BY <1>5 DEF vars, queueVars
<1> QED BY <1>1, <1>2, <1>3, <1>4, <1>5 DEF Next

\* What the proofs below build on.
Base == TypeOK /\ LogInv /\ SectionInv /\ PumpInv

\* It holds of the initial states,
LEMMA BaseStart ==
  ASSUME Init
  PROVE  Base
<1>1. QueueTypes
  BY DEF Init, QueueTypes, InFlight, Ended
<1>2. StoreTypes
  BY StreamConstants DEF StreamConstants, Init, StoreTypes, Frames, NoFrame
<1>3. WorkerTypes
  BY StreamConstants DEF StreamConstants, Init, WorkerTypes, Frames, NoFrame
<1>4. StreamTypes
  BY DEF Init, StreamTypes
<1>5. mishaps \in 0..MaxTroubles
  BY StreamConstants DEF StreamConstants, Init
<1> QED BY <1>1, <1>2, <1>3, <1>4, <1>5, LogStart, SectionStart, PumpStart DEF Base, TypeOK

\* and every step preserves it.
LEMMA BaseStep ==
  ASSUME Base, [Next]_vars
  PROVE  Base'
<1>1. LogInv' /\ SectionInv' /\ PumpInv'
  BY LogStep, SectionStep, PumpIsOne DEF Base
<1>2. LogTypes /\ HandlerTypes /\ HandlerTypes'
  BY <1>1 DEF Base, LogInv, SectionInv
<1>3. StoreTypes'
  BY <1>1, StoreTypesStep DEF Base, TypeOK
<1>4. WorkerTypes'
  BY <1>2, WorkerTypesStep DEF Base, TypeOK
<1>5. StreamTypes'
  BY <1>1, <1>2, StreamTypesStep DEF Base, TypeOK
<1>6. mishaps' \in 0..MaxTroubles
  BY <1>2, MishapsStep DEF Base, TypeOK
<1>7. QueueTypes'
  <2>1. due' \in BOOLEAN
    BY DueStep DEF Base, TypeOK, QueueTypes
  <2> QED BY <1>2, <2>1 DEF QueueTypes, HandlerTypes, Records
<1> QED BY <1>1, <1>3, <1>4, <1>5, <1>6, <1>7 DEF Base, TypeOK

\* Every variable of the stream keeps to its range, the log to its length.
THEOREM StreamVariables == Spec => []TypeOK
<1>1. Init => Base
  BY BaseStart
<1>2. Base /\ [Next]_vars => Base'
  BY BaseStep
<1>3. Base => TypeOK
  BY DEF Base
<1> QED BY <1>1, <1>2, <1>3, PTL DEF Spec

(***************************************************************************)
(* Where events come from.                                                 *)
(***************************************************************************)
\* The log is the last stretch of the numbering of its epoch.
Numbered ==
  /\ Len(log) <= sequence
  /\ \A k \in DOMAIN log : log[k].id = sequence - Len(log) + k /\ log[k].epoch = epoch
  /\ told <= sequence

\* An event of an earlier epoch, or one that was given its ID in this one.
GenuineIn(e, rows, n, ep) ==
  /\ e.epoch <= ep
  /\ e.epoch = ep => e.id <= n /\ \A k \in DOMAIN rows : rows[k].id = e.id => rows[k] = e

Genuine(e) == GenuineIn(e, log, sequence, epoch)

WorkersGenuine == Genuine(terminal) /\ \A w \in Workers : Genuine(said[w])

StreamGenuine(s) ==
  /\ \A i \in DOMAIN wire[s] : Genuine(wire[s][i])
  /\ \A i \in DOMAIN batch[s] : Genuine(batch[s][i])
  /\ \A i \in DOMAIN pending[s] : Genuine(pending[s][i])

\* Ways in which a step changes the log: not at all, by the next event of its
\* numbering, or by losing it.
LogStill == UNCHANGED <<log, sequence, epoch>>

Grown ==
  /\ sequence' = sequence + 1 /\ epoch' = epoch
  /\ \A k \in DOMAIN log' : log'[k].id = sequence + 1 \/ \E i \in DOMAIN log : log'[k] = log[i]

Evolves == LogStill \/ Grown \/ Forget

\* A genuine event stays genuine when the log grows or is forgotten.
LEMMA GenuineStays ==
  ASSUME Base, Evolves
  PROVE  \A e \in Frames : GenuineIn(e, log, sequence, epoch) => GenuineIn(e, log', sequence', epoch')
<1>1. sequence \in Nat /\ epoch \in Nat /\ DOMAIN log \subseteq Nat
  BY DEF Base, TypeOK, StoreTypes
<1>2. ASSUME NEW e \in Frames, Genuine(e), LogStill
      PROVE  GenuineIn(e, log', sequence', epoch')
  BY <1>2 DEF Genuine, LogStill
<1>3. ASSUME NEW e \in Frames, Genuine(e), Grown
      PROVE  GenuineIn(e, log', sequence', epoch')
  <2>1. e.id \in Nat /\ e.epoch \in Nat
    BY DEF Frames
  <2>2. ASSUME e.epoch = epoch', NEW k \in DOMAIN log', log'[k].id = e.id
        PROVE  log'[k] = e
    <3>1. e.id <= sequence
      BY <1>3, <2>2 DEF Grown, Genuine, GenuineIn
    <3>2. log'[k].id # sequence + 1
      BY <1>1, <2>1, <2>2, <3>1
    <3>3. PICK i \in DOMAIN log : log'[k] = log[i]
      BY <1>3, <3>2 DEF Grown
    <3> QED BY <1>3, <2>2, <3>3 DEF Grown, Genuine, GenuineIn
  <2>3. e.epoch <= epoch' /\ (e.epoch = epoch' => e.id <= sequence')
    BY <1>1, <1>3, <2>1 DEF Grown, Genuine, GenuineIn
  <2> QED BY <2>2, <2>3 DEF GenuineIn
<1>4. ASSUME NEW e \in Frames, Genuine(e), Forget
      PROVE  GenuineIn(e, log', sequence', epoch')
  <2>1. e.id \in Nat /\ e.epoch \in Nat
    BY DEF Frames
  <2>2. log' = <<>> /\ sequence' = 0 /\ epoch' = IF sequence = 0 THEN epoch ELSE epoch + 1
    BY <1>4 DEF Forget
  <2>3. DOMAIN log' = {}
    BY <2>2
  <2> QED BY <1>1, <1>4, <2>1, <2>2, <2>3 DEF Genuine, GenuineIn
<1> QED BY <1>2, <1>3, <1>4 DEF Evolves, Genuine

\* push() numbers the next event and appends it, and drops a first row at most.
LEMMA PushGrows ==
  ASSUME Base, Numbered, NEW done \in BOOLEAN, Push(Envelope(done)), UNCHANGED <<epoch, told>>
  PROVE  Grown /\ Numbered' /\ GenuineIn(Envelope(done), log', sequence', epoch')
<1> DEFINE e == Envelope(done)
           rows == Append(log, e)
<1>1. /\ log \in Seq(Frames) /\ Len(log) <= MaxEvents /\ sequence \in Nat /\ epoch \in Nat /\ told \in Nat
      /\ MaxEvents \in Nat
  BY StreamConstants DEF StreamConstants, Base, TypeOK, StoreTypes
<1>2. e \in Frames /\ e.id = sequence + 1 /\ e.epoch = epoch
  BY EnvelopeIsFrame DEF Base, LogInv, Envelope
<1>3. sequence' = sequence + 1 /\ log' = Trim(rows)
  BY <1>2 DEF Push
<1> HIDE DEF e
<1>4. /\ rows \in Seq(Frames) /\ Len(rows) = Len(log) + 1
      /\ \A i \in 1..Len(log) : rows[i] = log[i]
      /\ rows[Len(log) + 1] = e
  BY <1>1, <1>2
<1> HIDE DEF rows
<1>5. PICK d \in {0, 1} : /\ Len(log') = Len(rows) - d
                          /\ \A k \in DOMAIN log' : log'[k] = rows[k + d]
  BY <1>1, <1>3, <1>4, TrimDrops
<1>6. log' \in Seq(Frames) /\ DOMAIN log' = 1..Len(log') /\ Len(log') \in Nat
  BY <1>1, <1>3, <1>4, TrimDrops
<1>7. \A k \in DOMAIN log : log[k].id = sequence - Len(log) + k /\ log[k].epoch = epoch
  BY DEF Numbered
<1>8. ASSUME NEW k \in DOMAIN log'
      PROVE  /\ log'[k].id = sequence' - Len(log') + k /\ log'[k].epoch = epoch'
             /\ log'[k] = e \/ \E i \in DOMAIN log : log'[k] = log[i]
             /\ log'[k].id = sequence + 1 => log'[k] = e
  <2>1. k + d \in 1..(Len(log) + 1) /\ log'[k] = rows[k + d]
    BY <1>1, <1>4, <1>5, <1>6
  <2>2. CASE k + d = Len(log) + 1
    BY <1>1, <1>2, <1>3, <1>4, <1>5, <1>6, <2>1, <2>2
  <2>3. CASE k + d \in 1..Len(log)
    <3>1. k + d \in DOMAIN log /\ log'[k] = log[k + d]
      BY <1>1, <1>4, <2>1, <2>3
    <3>2. log'[k].id = sequence - Len(log) + (k + d) /\ log'[k].epoch = epoch
      BY <1>7, <3>1
    <3> QED BY SMTT(30), <1>1, <1>3, <1>4, <1>5, <1>6, <2>3, <3>1, <3>2
  <2> QED BY <1>1, <2>1, <2>2, <2>3
<1>9. Grown
  BY <1>2, <1>3, <1>8 DEF Grown
<1>10. Numbered'
  <2>1. Len(log') <= sequence'
    BY <1>1, <1>3, <1>4, <1>5, <1>6 DEF Numbered
  <2>2. told' <= sequence'
    BY <1>1, <1>3 DEF Numbered
  <2> QED BY <1>8, <2>1, <2>2 DEF Numbered
<1>11. GenuineIn(e, log', sequence', epoch')
  BY <1>1, <1>2, <1>3, <1>8 DEF GenuineIn
<1> QED BY <1>9, <1>10, <1>11 DEF e

\* An empty log carries the numbering of the next epoch.
LEMMA ForgetNumbers ==
  ASSUME Base, Forget
  PROVE  Numbered' /\ GenuineIn(NoFrame, log', sequence', epoch')
<1>1. log' = <<>> /\ sequence' = 0 /\ told' = 0 /\ epoch' \in Nat
  BY DEF Base, TypeOK, StoreTypes, Forget
<1>2. DOMAIN log' = {} /\ Len(log') = 0
  BY <1>1
<1> QED BY <1>1, <1>2 DEF Numbered, GenuineIn, NoFrame

\* "No event" is not above any log.
LEMMA NoFrameGenuine ==
  ASSUME Base, Numbered
  PROVE  Genuine(NoFrame)
<1>1. log \in Seq(Frames) /\ sequence \in Nat /\ epoch \in Nat
  BY DEF Base, TypeOK, StoreTypes
<1>2. \A k \in DOMAIN log : log[k].id > 0
  BY <1>1 DEF Numbered
<1> QED BY <1>1, <1>2 DEF Genuine, GenuineIn, NoFrame

(***************************************************************************)
(* Steps that no SSE handler takes.                                        *)
(***************************************************************************)
\* An event that is in the log, or was, goes to the clients.
Told(e) == Genuine(e) /\ Announce(e) /\ UNCHANGED <<log, sequence, epoch, fresh>>

\* What such a step does to the store and to the wires.
StoreMoves ==
  \/ UNCHANGED <<log, sequence, epoch, told, inOrder, fresh, wire>>
  \/ Grown /\ UNCHANGED <<told, inOrder, fresh, wire>>
  \/ Forget /\ UNCHANGED wire
  \/ \E e \in Frames : Told(e)

\* A step that changes no stream but by what it does to the store.
Apart ==
  /\ Numbered' /\ WorkersGenuine'
  /\ UNCHANGED <<phase, batch, pending, lastSent>>
  /\ \A s \in Streams : rpc'[s] = "send" => rpc[s] = "send"
  /\ StoreMoves

\* A reset of the terminal event keeps the numbering.
LEMMA ResetMoves ==
  ASSUME Base, Numbered, WorkersGenuine, ResetTerminal, UNCHANGED <<said, wire>>
  PROVE  Numbered' /\ WorkersGenuine' /\ StoreMoves
<1>1. CASE terminal = NoFrame
  <2>1. UNCHANGED <<log, sequence, epoch, told, inOrder, fresh, wire, terminal>>
    BY <1>1 DEF ResetTerminal, storeVars, toldVars
  <2> QED BY <2>1 DEF StoreMoves, Numbered, WorkersGenuine, Genuine
<1>2. CASE terminal # NoFrame
  <2>1. Forget /\ terminal' = NoFrame
    BY <1>2 DEF ResetTerminal, Forget
  <2>2. Numbered' /\ GenuineIn(NoFrame, log', sequence', epoch')
    BY <2>1, ForgetNumbers
  <2>3. \A w \in Workers : said[w] \in Frames
    BY DEF Base, TypeOK, WorkerTypes
  <2>4. \A w \in Workers : GenuineIn(said[w], log', sequence', epoch')
    BY <2>1, <2>3, GenuineStays DEF Evolves, WorkersGenuine, Genuine
  <2>5. WorkersGenuine'
    BY <2>1, <2>2, <2>4 DEF WorkersGenuine, Genuine
  <2> QED BY <2>1, <2>2, <2>5 DEF StoreMoves
<1> QED BY <1>1, <1>2

\* So does a step that leaves the store alone.
LEMMA StillMoves ==
  ASSUME Numbered, WorkersGenuine, UNCHANGED <<log, sequence, epoch, told, inOrder, fresh, wire>>,
         UNCHANGED <<terminal, said>>
  PROVE  Numbered' /\ WorkersGenuine' /\ StoreMoves
  BY DEF StoreMoves, Numbered, WorkersGenuine, Genuine

\* So does the announcement of what a worker said or of the terminal event.
LEMMA AnnounceMoves ==
  ASSUME Base, Numbered, NEW e \in Frames, Genuine(e), Announce(e),
         UNCHANGED <<log, sequence, epoch, fresh>>
  PROVE  Numbered' /\ StoreMoves
<1>1. told' <= sequence
  BY DEF Announce, Numbered, Genuine, GenuineIn, Base, TypeOK, StoreTypes, Frames
<1> QED BY <1>1 DEF Told, StoreMoves, Numbered

\* Every step that is not a stream handler's own is apart.
LEMMA ApartSteps ==
  ASSUME Base, Numbered, WorkersGenuine, [Next]_vars,
         ~ \E s \in Streams : \/ Connect(s) \/ Disconnect(s) \/ Deliver(s) \/ PumpBusy(s)
                              \/ ReadLog(s) \/ SendBatch(s) \/ Heartbeat(s)
  PROVE  Apart
<1> DEFINE A == Numbered' /\ WorkersGenuine' /\ StoreMoves
           B == UNCHANGED <<phase, batch, pending, lastSent>>
           C == \A s \in Streams : rpc'[s] = "send" => rpc[s] = "send"
<1>0. \A w \in Workers : said[w] \in Frames /\ Genuine(said[w])
  BY DEF Base, TypeOK, WorkerTypes, WorkersGenuine
<1>t. terminal \in Frames /\ Genuine(terminal)
  BY DEF Base, TypeOK, StoreTypes, WorkersGenuine
<1>1. SUFFICES A /\ B /\ C
  BY DEF Apart
<1>2. UNCHANGED <<storeVars, toldVars, wire, fresh, said>> => A
  BY StillMoves DEF storeVars, toldVars
<1>3. (UNCHANGED handlerVars => B) /\ (UNCHANGED rpc => C)
  BY DEF handlerVars
<1>4. CASE ClearEvents
  <2>1. B /\ C
    BY <1>4 DEF ClearEvents, handlerVars
  <2>2. Forget /\ UNCHANGED wire /\ UNCHANGED said /\ terminal' = NoFrame
    BY <1>4 DEF ClearEvents, Forget, workerVars
  <2>3. Numbered' /\ GenuineIn(NoFrame, log', sequence', epoch')
    BY <2>2, ForgetNumbers
  <2>4. \A w \in Workers : GenuineIn(said[w], log', sequence', epoch')
    BY <1>0, <2>2, GenuineStays DEF Evolves, Genuine
  <2>5. WorkersGenuine'
    BY <2>2, <2>3, <2>4 DEF WorkersGenuine, Genuine
  <2> QED BY <2>1, <2>2, <2>3, <2>5 DEF StoreMoves
<1>5. CASE Replace \/ Withdraw \/ AddOrRefuse \/ Retry \/ Stall \/ CallbackLost
  BY <1>2, <1>3, <1>5
     DEF Replace, Withdraw, AddOrRefuse, Retry, Stall, CallbackLost, sseVars, workerVars, reconVars
<1>6. ASSUME NEW w \in Workers, Prepare(w)
      PROVE  A /\ B /\ C
  BY <1>3, <1>6, ResetMoves DEF Prepare, reconVars
<1>7. ASSUME NEW w \in Workers, Take(w) \/ PrepareFails(w) \/ Emit(w) \/ Finish(w)
      PROVE  A /\ B /\ C
  BY <1>2, <1>3, <1>7 DEF Take, PrepareFails, Emit, Finish, sseVars, reconVars
<1>8. ASSUME NEW w \in Workers, AppendLands(w)
      PROVE  A /\ B /\ C
  <2>1. B /\ C
    BY <1>3, <1>8 DEF AppendLands, sseVars, reconVars
  <2>2. CASE Refused
    BY <1>2, <1>8, <2>1, <2>2 DEF AppendLands, sseVars, storeVars
  <2>3. CASE ~Refused
    <3>1. /\ Push(Envelope(FALSE)) /\ UNCHANGED <<terminal, epoch, told, inOrder, fresh, wire>>
          /\ said' = [said EXCEPT ![w] = Envelope(FALSE)]
      BY <1>8, <2>3 DEF AppendLands, toldVars, sseVars
    <3>2. Grown /\ Numbered' /\ GenuineIn(Envelope(FALSE), log', sequence', epoch')
      BY <3>1, PushGrows
    <3>3. /\ GenuineIn(terminal, log', sequence', epoch')
          /\ \A v \in Workers : GenuineIn(said[v], log', sequence', epoch')
      BY <1>0, <1>t, <3>2, GenuineStays DEF Evolves, Genuine
    <3>4. \A v \in Workers : GenuineIn(said'[v], log', sequence', epoch')
      BY <3>1, <3>2, <3>3 DEF Base, TypeOK, WorkerTypes
    <3>5. WorkersGenuine'
      BY <3>1, <3>3, <3>4 DEF WorkersGenuine, Genuine
    <3> QED BY <2>1, <3>1, <3>2, <3>5 DEF StoreMoves
  <2> QED BY <2>2, <2>3
<1>9. ASSUME NEW w \in Workers, Progress(w)
      PROVE  A /\ B /\ C
  <2>1. B /\ C /\ UNCHANGED <<storeVars, fresh>> /\ said' = [said EXCEPT ![w] = NoFrame]
    BY <1>3, <1>9 DEF Progress, sseVars, reconVars
  <2>2. WorkersGenuine'
    <3>1. \A v \in Workers : Genuine(said'[v])
      BY <1>0, <2>1, NoFrameGenuine DEF Base, TypeOK, WorkerTypes
    <3> QED BY <1>t, <2>1, <3>1 DEF WorkersGenuine, Genuine, storeVars
  <2>3. Announce(said[w]) => Numbered' /\ StoreMoves
    BY <1>0, <2>1, AnnounceMoves DEF storeVars
  <2>4. UNCHANGED <<wire, toldVars>> => Numbered' /\ StoreMoves
    BY <2>1 DEF storeVars, toldVars, StoreMoves, Numbered
  <2> QED BY <1>9, <2>1, <2>2, <2>3, <2>4 DEF Progress
<1>10. ASSUME NEW w \in Workers, Crash(w)
       PROVE  A /\ B /\ C
  <2>1. B /\ C /\ UNCHANGED <<storeVars, toldVars, wire, fresh>> /\ said' = [said EXCEPT ![w] = NoFrame]
    BY <1>3, <1>10 DEF Crash, sseVars, reconVars
  <2>2. \A v \in Workers : Genuine(said'[v])
    BY <1>0, <2>1, NoFrameGenuine DEF Base, TypeOK, WorkerTypes
  <2>3. WorkersGenuine'
    BY <1>t, <2>1, <2>2 DEF WorkersGenuine, Genuine, storeVars
  <2> QED BY <2>1, <2>3 DEF storeVars, toldVars, StoreMoves, Numbered
<1>11. ASSUME NEW p \in Reconcilers, Reconcile(p)
       PROVE  A /\ B /\ C
  <2>1. C
    BY <1>11 DEF Reconcile, Base, TypeOK, QueueTypes, Reconcilers
  <2> QED BY <1>2, <1>3, <1>11, <2>1 DEF Reconcile, sseVars, workerVars
<1>12. ASSUME NEW p \in Reconcilers, ReconcileAct(p)
       PROVE  A /\ B /\ C
  <2>1. C
    BY <1>12 DEF ReconcileAct, Return, Base, TypeOK, QueueTypes, Reconcilers
  <2>2. B /\ UNCHANGED <<wire, said>>
    BY <1>3, <1>12 DEF ReconcileAct, workerVars
  <2>3. UNCHANGED <<storeVars, toldVars, fresh>> => A
    BY <1>2, <2>2
  <2>4. Repair => A
    BY <2>2, ResetMoves DEF Repair
  <2>5. ASSUME AppendTerminal, UNCHANGED <<toldVars, fresh>>
        PROVE  A
    <3>1. CASE terminal # NoFrame
      BY <2>3, <2>5, <3>1 DEF AppendTerminal
    <3>2. CASE terminal = NoFrame
      <4>1. Push(Envelope(TRUE)) /\ terminal' = Envelope(TRUE) /\ UNCHANGED <<epoch, told, inOrder>>
        BY <2>5, <3>2 DEF AppendTerminal, toldVars
      <4>2. Grown /\ Numbered' /\ GenuineIn(Envelope(TRUE), log', sequence', epoch')
        BY <4>1, PushGrows
      <4>3. \A v \in Workers : GenuineIn(said[v], log', sequence', epoch')
        BY <1>0, <4>2, GenuineStays DEF Evolves, Genuine
      <4>4. WorkersGenuine'
        BY <2>2, <4>1, <4>2, <4>3 DEF WorkersGenuine, Genuine
      <4> QED BY <2>2, <2>5, <4>1, <4>2, <4>4 DEF StoreMoves
    <3> QED BY <3>1, <3>2
  <2> QED BY <1>12, <2>1, <2>2, <2>3, <2>4, <2>5 DEF ReconcileAct
<1>13. ASSUME NEW p \in Reconcilers, ReconcileAnnounce(p)
       PROVE  A /\ B /\ C
  <2>1. C
    BY <1>13 DEF ReconcileAnnounce, Return, Base, TypeOK, QueueTypes, Reconcilers
  <2>2. B /\ UNCHANGED <<storeVars, fresh, said>>
    BY <1>3, <1>13 DEF ReconcileAnnounce, workerVars, sseVars
  <2>3. Announce(terminal) => Numbered' /\ StoreMoves
    BY <1>t, <2>2, AnnounceMoves DEF storeVars
  <2>4. UNCHANGED <<wire, toldVars>> => Numbered' /\ StoreMoves
    BY <2>2 DEF storeVars, toldVars, StoreMoves, Numbered
  <2>5. WorkersGenuine'
    BY <2>2 DEF WorkersGenuine, Genuine, storeVars
  <2> QED BY <1>13, <2>1, <2>2, <2>3, <2>4, <2>5 DEF ReconcileAnnounce
<1>14. CASE UNCHANGED vars
  BY <1>2, <1>3, <1>14 DEF vars, sseVars, workerVars, reconVars
<1> QED
  BY <1>4, <1>5, <1>6, <1>7, <1>8, <1>9, <1>10, <1>11, <1>12, <1>13, <1>14 DEF Next

(***************************************************************************)
(* The hand-over from replay to live events, first on plain sequences: the *)
(* rows of the log, the cursor c, the events kept by a first replay, those *)
(* on the wire.                                                            *)
(***************************************************************************)
\* The rows with an ID above c and below n.
RowsBetween(rows, c, n) == {k \in DOMAIN rows : rows[k].id > c /\ rows[k].id < n}

\* e is one of the first n - 1 events.
Earlier(events, e, n) == \E i \in DOMAIN events : i < n /\ events[i] = e

\* What was announced is kept or on its way; what precedes an event of this
\* epoch on the wire is kept or before it on the wire.
Covered(rows, ep, c, announced, kept, events) ==
  /\ \A k \in RowsBetween(rows, c, announced + 1) :
       rows[k] \in kept \/ Earlier(events, rows[k], Len(events) + 1)
  /\ \A j \in DOMAIN events : events[j].epoch = ep =>
       \A k \in RowsBetween(rows, c, events[j].id) : rows[k] \in kept \/ Earlier(events, rows[k], j)

\* What precedes one of these events is kept.
Preceded(rows, ep, c, events, kept) ==
  \A j \in DOMAIN events : events[j].epoch = ep =>
    \A k \in RowsBetween(rows, c, events[j].id) : rows[k] \in kept

\* The log grows above all that was announced or sent.
LEMMA GrownCovered ==
  ASSUME NEW rows \in Seq(Frames), NEW rows2 \in Seq(Frames), NEW ep, NEW c \in Nat, NEW n \in Nat,
         NEW announced \in Nat, NEW kept, NEW events \in Seq(Frames),
         announced <= n, \A j \in DOMAIN events : events[j].epoch = ep => events[j].id <= n,
         \A k \in DOMAIN rows2 : rows2[k].id = n + 1 \/ \E i \in DOMAIN rows : rows2[k] = rows[i]
  PROVE  /\ Covered(rows, ep, c, announced, kept, events) => Covered(rows2, ep, c, announced, kept, events)
         /\ Preceded(rows, ep, c, events, kept) => Preceded(rows2, ep, c, events, kept)
<1>1. /\ \A k \in DOMAIN rows2 : rows2[k].id \in Nat
      /\ \A j \in DOMAIN events : events[j].id \in Nat
  BY FrameSeq
<1>2. ASSUME NEW m \in Nat, m <= n + 1, NEW k \in RowsBetween(rows2, c, m)
      PROVE  \E i \in RowsBetween(rows, c, m) : rows2[k] = rows[i]
  <2>1. k \in DOMAIN rows2 /\ rows2[k].id > c /\ rows2[k].id < m
    BY DEF RowsBetween
  <2>2. PICK i \in DOMAIN rows : rows2[k] = rows[i]
    BY <1>1, <1>2, <2>1
  <2> QED BY <2>1, <2>2 DEF RowsBetween
<1>3. ASSUME Covered(rows, ep, c, announced, kept, events)
      PROVE  Covered(rows2, ep, c, announced, kept, events)
  <2>1. ASSUME NEW k \in RowsBetween(rows2, c, announced + 1)
        PROVE  rows2[k] \in kept \/ Earlier(events, rows2[k], Len(events) + 1)
    <3>1. PICK i \in RowsBetween(rows, c, announced + 1) : rows2[k] = rows[i]
      BY <1>2
    <3> QED BY <1>3, <3>1 DEF Covered
  <2>2. ASSUME NEW j \in DOMAIN events, events[j].epoch = ep, NEW k \in RowsBetween(rows2, c, events[j].id)
        PROVE  rows2[k] \in kept \/ Earlier(events, rows2[k], j)
    <3>1. events[j].id \in Nat /\ events[j].id <= n + 1
      BY <1>1, <2>2
    <3>2. PICK i \in RowsBetween(rows, c, events[j].id) : rows2[k] = rows[i]
      BY <1>2, <3>1
    <3> QED BY <1>3, <2>2, <3>2 DEF Covered
  <2> QED BY <2>1, <2>2 DEF Covered
<1>4. ASSUME Preceded(rows, ep, c, events, kept)
      PROVE  Preceded(rows2, ep, c, events, kept)
  <2>1. ASSUME NEW j \in DOMAIN events, events[j].epoch = ep, NEW k \in RowsBetween(rows2, c, events[j].id)
        PROVE  rows2[k] \in kept
    <3>1. events[j].id \in Nat /\ events[j].id <= n + 1
      BY <1>1, <2>1
    <3>2. PICK i \in RowsBetween(rows, c, events[j].id) : rows2[k] = rows[i]
      BY <1>2, <3>1
    <3> QED BY <1>4, <2>1, <3>2 DEF Preceded
  <2> QED BY <2>1 DEF Preceded
<1> QED BY <1>3, <1>4

\* e came to the end of the events.
Extended(events, e, events2) ==
  /\ Len(events2) = Len(events) + 1
  /\ \A i \in 1..Len(events) : events2[i] = events[i]
  /\ events2[Len(events) + 1] = e

\* An event of another epoch, one announced before, or the next row.
Follows(e, rows, ep, announced) ==
  e.epoch = ep => e.id <= announced + 1 /\ \A k \in DOMAIN rows : rows[k].id = e.id => rows[k] = e

\* The next event of this epoch, or an old one, is announced.
LEMMA AnnouncedCovered ==
  ASSUME NEW rows \in Seq(Frames), NEW ep, NEW c \in Nat, NEW announced \in Nat, NEW kept,
         NEW events \in Seq(Frames), NEW e \in Frames, NEW events2 \in Seq(Frames),
         Extended(events, e, events2), Follows(e, rows, ep, announced),
         NEW top, top = IF e.epoch = ep /\ e.id > announced THEN e.id ELSE announced,
         Covered(rows, ep, c, announced, kept, events)
  PROVE  Covered(rows, ep, c, top, kept, events2)
<1> USE DEF Extended, Follows
<1>1. /\ DOMAIN events = 1..Len(events) /\ Len(events) \in Nat
      /\ DOMAIN events2 = 1..(Len(events) + 1)
      /\ \A k \in DOMAIN rows : rows[k].id \in Nat
      /\ e.id \in Nat /\ top \in Nat
  BY FrameSeq DEF Frames
<1>2. \A x, n : n <= Len(events) + 1 /\ Earlier(events, x, n) => Earlier(events2, x, n)
  BY <1>1 DEF Earlier
<1>3. ASSUME NEW k \in RowsBetween(rows, c, announced + 1)
      PROVE  rows[k] \in kept \/ Earlier(events2, rows[k], Len(events) + 1)
  <2>1. rows[k] \in kept \/ Earlier(events, rows[k], Len(events) + 1)
    BY DEF Covered
  <2> QED BY <1>1, <1>2, <2>1
<1>4. ASSUME NEW k \in RowsBetween(rows, c, top + 1)
      PROVE  rows[k] \in kept \/ Earlier(events2, rows[k], Len(events2) + 1)
  <2>1. k \in DOMAIN rows /\ rows[k].id > c /\ rows[k].id < top + 1 /\ rows[k].id \in Nat
    BY <1>1 DEF RowsBetween
  <2>2. CASE rows[k].id < announced + 1
    <3>1. k \in RowsBetween(rows, c, announced + 1)
      BY <2>1, <2>2 DEF RowsBetween
    <3>2. rows[k] \in kept \/ Earlier(events2, rows[k], Len(events) + 1)
      BY <1>3, <3>1
    <3> QED BY <1>1, <3>2 DEF Earlier
  <2>3. CASE ~(rows[k].id < announced + 1)
    <3>1. e.epoch = ep /\ rows[k].id = e.id
      BY <1>1, <2>1, <2>3
    <3>2. events2[Len(events) + 1] = rows[k]
      BY <2>1, <3>1
    <3> QED BY <1>1, <3>2 DEF Earlier
  <2> QED BY <2>2, <2>3
<1>5. ASSUME NEW j \in DOMAIN events2, events2[j].epoch = ep, NEW k \in RowsBetween(rows, c, events2[j].id)
      PROVE  rows[k] \in kept \/ Earlier(events2, rows[k], j)
  <2>1. CASE j = Len(events) + 1
    <3>1. k \in RowsBetween(rows, c, announced + 1)
      BY <1>1, <1>5, <2>1 DEF RowsBetween
    <3> QED BY <1>3, <2>1, <3>1
  <2>2. CASE j \in 1..Len(events)
    <3>1. events2[j] = events[j] /\ j \in DOMAIN events /\ j <= Len(events) + 1
      BY <1>1, <2>2
    <3>2. rows[k] \in kept \/ Earlier(events, rows[k], j)
      BY <1>5, <3>1 DEF Covered
    <3> QED BY <1>2, <3>1, <3>2
  <2> QED BY <1>1, <2>1, <2>2
<1> QED BY <1>4, <1>5 DEF Covered

\* The first event on the wire arrives and is kept.
LEMMA ArrivedCovered ==
  ASSUME NEW rows \in Seq(Frames), NEW ep, NEW c \in Nat, NEW announced \in Nat, NEW kept,
         NEW events \in Seq(Frames), events # <<>>,
         Covered(rows, ep, c, announced, kept, events)
  PROVE  /\ Covered(rows, ep, c, announced, kept \cup {Head(events)}, Tail(events))
         /\ Preceded(rows, ep, c, <<Head(events)>>, kept)
<1>1. /\ Len(events) \in Nat \ {0} /\ DOMAIN events = 1..Len(events)
      /\ Tail(events) \in Seq(Frames) /\ Len(Tail(events)) = Len(events) - 1
      /\ \A i \in 1..(Len(events) - 1) : Tail(events)[i] = events[i + 1]
      /\ Head(events) = events[1]
  OBVIOUS
<1>2. DOMAIN Tail(events) = 1..(Len(events) - 1)
  BY <1>1
<1>3. ASSUME NEW x, NEW n \in Nat, Earlier(events, x, n + 1)
      PROVE  x = Head(events) \/ Earlier(Tail(events), x, n)
  <2>1. PICK i \in DOMAIN events : i < n + 1 /\ events[i] = x
    BY <1>3 DEF Earlier
  <2>2. CASE i = 1
    BY <1>1, <2>1, <2>2
  <2>3. CASE i # 1
    <3>1. i - 1 \in DOMAIN Tail(events) /\ i - 1 < n /\ Tail(events)[i - 1] = events[(i - 1) + 1] /\ (i - 1) + 1 = i
      BY <1>1, <1>2, <2>1, <2>3
    <3> QED BY <2>1, <3>1 DEF Earlier
  <2> QED BY <2>2, <2>3
<1>4. ASSUME NEW k \in RowsBetween(rows, c, announced + 1)
      PROVE  rows[k] \in kept \cup {Head(events)} \/ Earlier(Tail(events), rows[k], Len(Tail(events)) + 1)
  <2>1. rows[k] \in kept \/ Earlier(events, rows[k], Len(events) + 1)
    BY DEF Covered
  <2>2. Len(Tail(events)) + 1 = Len(events)
    BY <1>1
  <2> QED BY <1>1, <1>3, <2>1, <2>2
<1>5. ASSUME NEW j \in DOMAIN Tail(events), Tail(events)[j].epoch = ep,
             NEW k \in RowsBetween(rows, c, Tail(events)[j].id)
      PROVE  rows[k] \in kept \cup {Head(events)} \/ Earlier(Tail(events), rows[k], j)
  <2>1. j \in Nat /\ j + 1 \in DOMAIN events /\ Tail(events)[j] = events[j + 1]
    BY <1>1, <1>2
  <2>2. rows[k] \in kept \/ Earlier(events, rows[k], j + 1)
    BY <1>5, <2>1 DEF Covered
  <2> QED BY <1>3, <2>1, <2>2
<1>6. Preceded(rows, ep, c, <<Head(events)>>, kept)
  <2>1. SUFFICES ASSUME Head(events).epoch = ep, NEW k \in RowsBetween(rows, c, Head(events).id)
                 PROVE  rows[k] \in kept
    BY DEF Preceded
  <2>2. 1 \in DOMAIN events /\ \A i \in DOMAIN events : ~(i < 1)
    BY <1>1
  <2>3. rows[k] \in kept \/ Earlier(events, rows[k], 1)
    BY <1>1, <2>1, <2>2 DEF Covered
  <2> QED BY <2>2, <2>3 DEF Earlier
<1> QED BY <1>4, <1>5, <1>6 DEF Covered

\* The cursor moves, past every event that is no longer kept.
LEMMA SentCovered ==
  ASSUME NEW rows \in Seq(Frames), NEW ep, NEW c \in Nat, NEW d \in Nat, c <= d, NEW announced \in Nat,
         NEW kept \in SUBSET Frames, NEW left2, \A e \in kept : e.id <= d \/ e \in left2,
         NEW events \in Seq(Frames)
  PROVE  /\ Covered(rows, ep, c, announced, kept, events) => Covered(rows, ep, d, announced, left2, events)
         /\ Preceded(rows, ep, c, events, kept) => Preceded(rows, ep, d, events, left2)
<1>1. \A k \in DOMAIN rows : rows[k].id \in Nat
  BY FrameSeq
<1>2. \A m, k : k \in RowsBetween(rows, d, m) => k \in RowsBetween(rows, c, m)
  BY <1>1 DEF RowsBetween
<1>3. \A m, k : k \in RowsBetween(rows, d, m) /\ rows[k] \in kept => rows[k] \in left2
  BY <1>1 DEF RowsBetween
<1> QED BY <1>2, <1>3 DEF Covered, Preceded

(***************************************************************************)
(* The same of the streams.                                                *)
(***************************************************************************)
\* What was read from the log is in order; so are the events that are kept,
\* which only a first replay does.
Sorted(s) ==
  /\ \A i, j \in DOMAIN batch[s] : i < j => batch[s][i].id < batch[s][j].id
  /\ \A i, j \in DOMAIN pending[s] : i < j => pending[s][i].id <= pending[s][j].id
  /\ phase[s] # "first" => pending[s] = <<>>

\* The events of this replay that are yet to be sent.
Kept(s) == IF phase[s] = "first" THEN Range(batch[s]) \cup Range(pending[s]) ELSE {}

\* A client that is owed every event above its cursor.
Watched(s) == open(s) /\ fresh[s] /\ inOrder /\ (phase[s] = "first" => rpc[s] = "send")

\* No row of the log can be passed over: it is kept, or on the wire before any
\* event above it.
NoGap(s) ==
  /\ Covered(log, epoch, lastSent[s], told, Kept(s), wire[s])
  /\ Preceded(log, epoch, lastSent[s], pending[s], Kept(s))
  /\ Preceded(log, epoch, lastSent[s], batch[s], Range(batch[s]))

StreamInv(s) == StreamGenuine(s) /\ Sorted(s) /\ (Watched(s) => NoGap(s))

CursorInv == Numbered /\ WorkersGenuine /\ \A s \in Streams : StreamInv(s)

\* The types of the sequences that one handler reads.
LEMMA StreamBasics ==
  ASSUME Base, NEW s \in Streams
  PROVE  /\ log \in Seq(Frames) /\ DOMAIN log \subseteq Nat
         /\ \A k \in DOMAIN log : log[k] \in Frames /\ log[k].id \in Nat /\ log[k].epoch \in Nat
         /\ wire[s] \in Seq(Frames) /\ DOMAIN wire[s] = 1..Len(wire[s]) /\ Len(wire[s]) \in Nat
         /\ \A k \in DOMAIN wire[s] : wire[s][k] \in Frames /\ wire[s][k].id \in Nat /\ wire[s][k].epoch \in Nat
         /\ batch[s] \in Seq(Frames) /\ DOMAIN batch[s] = 1..Len(batch[s]) /\ Len(batch[s]) \in Nat
         /\ \A k \in DOMAIN batch[s] : batch[s][k] \in Frames /\ batch[s][k].id \in Nat /\ batch[s][k].epoch \in Nat
         /\ pending[s] \in Seq(Frames) /\ DOMAIN pending[s] = 1..Len(pending[s]) /\ Len(pending[s]) \in Nat
         /\ \A k \in DOMAIN pending[s] : pending[s][k] \in Frames /\ pending[s][k].id \in Nat /\ pending[s][k].epoch \in Nat
         /\ lastSent[s] \in Nat /\ told \in Nat /\ sequence \in Nat /\ epoch \in Nat
<1>1. /\ log \in Seq(Frames) /\ wire[s] \in Seq(Frames) /\ batch[s] \in Seq(Frames) /\ pending[s] \in Seq(Frames)
      /\ lastSent[s] \in Nat /\ told \in Nat /\ sequence \in Nat /\ epoch \in Nat
  BY DEF Base, TypeOK, StoreTypes, StreamTypes
<1>2. DOMAIN log \subseteq Nat
  BY <1>1
<1> QED BY <1>1, <1>2, FrameSeq

\* An announcement reaches every wire, at its end while events are in order.
LEMMA AnnouncedWire ==
  ASSUME Base, NEW e \in Frames, Announce(e), NEW s \in Streams
  PROVE  /\ \A i \in DOMAIN wire'[s] : wire'[s][i] = e \/ \E j \in DOMAIN wire[s] : wire'[s][i] = wire[s][j]
         /\ inOrder' => /\ inOrder
                        /\ DOMAIN wire'[s] = 1..(Len(wire[s]) + 1) /\ Len(wire'[s]) = Len(wire[s]) + 1
                        /\ \A i \in 1..Len(wire[s]) : wire'[s][i] = wire[s][i]
                        /\ wire'[s][Len(wire[s]) + 1] = e
                        /\ e.epoch = epoch => e.id <= told + 1
<1>1. wire \in [Streams -> Seq(Frames)] /\ wire[s] \in Seq(Frames) /\ inOrder \in BOOLEAN
  BY DEF Base, TypeOK, StoreTypes, StreamTypes
<1>2. MaxLag \in Nat \ {0}
  BY StreamConstants DEF StreamConstants
<1>3. wire'[s] = IF Len(wire[s]) < MaxLag THEN Append(wire[s], e) ELSE Append(Tail(wire[s]), e)
  BY <1>1 DEF Announce
<1>4. inOrder' => inOrder /\ Len(wire[s]) < MaxLag /\ (e.epoch = epoch => e.id <= told + 1)
  BY <1>1 DEF Announce
<1>5. CASE Len(wire[s]) < MaxLag
  <2>1. wire'[s] = Append(wire[s], e)
    BY <1>3, <1>5
  <2>2. /\ DOMAIN Append(wire[s], e) = 1..(Len(wire[s]) + 1) /\ Len(Append(wire[s], e)) = Len(wire[s]) + 1
        /\ \A i \in 1..Len(wire[s]) : Append(wire[s], e)[i] = wire[s][i]
        /\ Append(wire[s], e)[Len(wire[s]) + 1] = e
    BY <1>1
  <2>3. \A i \in 1..(Len(wire[s]) + 1) : i = Len(wire[s]) + 1 \/ i \in DOMAIN wire[s]
    BY <1>1
  <2> QED BY <1>1, <1>4, <2>1, <2>2, <2>3
<1>6. CASE ~(Len(wire[s]) < MaxLag)
  <2>1. wire'[s] = Append(Tail(wire[s]), e) /\ wire[s] # <<>>
    BY <1>1, <1>2, <1>3, <1>6
  <2>2. /\ Tail(wire[s]) \in Seq(Frames) /\ Len(Tail(wire[s])) = Len(wire[s]) - 1
        /\ \A i \in 1..(Len(wire[s]) - 1) : Tail(wire[s])[i] = wire[s][i + 1]
        /\ Len(wire[s]) \in Nat \ {0}
    BY <1>1, <2>1
  <2>3. /\ DOMAIN Append(Tail(wire[s]), e) = 1..Len(wire[s])
        /\ \A i \in 1..(Len(wire[s]) - 1) : Append(Tail(wire[s]), e)[i] = wire[s][i + 1]
        /\ Append(Tail(wire[s]), e)[Len(wire[s])] = e
    BY <2>2
  <2>4. \A i \in 1..Len(wire[s]) : i = Len(wire[s]) \/ (i \in 1..(Len(wire[s]) - 1) /\ i + 1 \in DOMAIN wire[s])
    <3>1. DOMAIN wire[s] = 1..Len(wire[s])
      BY <1>1
    <3> QED BY <2>2, <3>1
  <2> QED BY <1>4, <1>6, <2>1, <2>3, <2>4
<1> QED BY <1>5, <1>6

\* A step apart from the handler of a stream keeps its hand-over whole.
LEMMA ApartKeeps ==
  ASSUME Base, Base', CursorInv, Apart, NEW s \in Streams
  PROVE  StreamInv(s)'
<1>1. UNCHANGED <<phase, batch, pending, lastSent>>
  BY DEF Apart
<1>2. StreamGenuine(s) /\ Sorted(s) /\ (Watched(s) => NoGap(s)) /\ Numbered
  BY DEF CursorInv, StreamInv
<1> DEFINE Old(e) == GenuineIn(e, log, sequence, epoch)
           New(e) == GenuineIn(e, log', sequence', epoch')
<1>3. \A e \in Frames : Old(e) => New(e)
  <2>1. ASSUME NEW e \in Frames, Told(e)
        PROVE  \A x \in Frames : Old(x) => New(x)
    BY <2>1 DEF Told
  <2>2. CASE UNCHANGED <<log, sequence, epoch, told, inOrder, fresh, wire>>
    BY <2>2
  <2>3. CASE Grown \/ Forget
    BY <2>3, GenuineStays DEF Evolves
  <2> QED BY <2>1, <2>2, <2>3 DEF Apart, StoreMoves
<1>4. StreamGenuine(s)'
  <2>1. /\ \A i \in DOMAIN batch'[s] : New(batch'[s][i])
        /\ \A i \in DOMAIN pending'[s] : New(pending'[s][i])
    BY <1>1, <1>2, <1>3, StreamBasics DEF StreamGenuine, Genuine
  <2>2. \A i \in DOMAIN wire'[s] : New(wire'[s][i])
    <3>1. \A i \in DOMAIN wire[s] : New(wire[s][i])
      BY <1>2, <1>3, StreamBasics DEF StreamGenuine, Genuine
    <3>2. ASSUME NEW e \in Frames, Told(e)
          PROVE  \A i \in DOMAIN wire'[s] : New(wire'[s][i])
      <4>1. New(e)
        BY <1>3, <3>2 DEF Told, Genuine
      <4> QED BY <3>1, <3>2, <4>1, AnnouncedWire DEF Told
    <3>3. UNCHANGED wire => \A i \in DOMAIN wire'[s] : New(wire'[s][i])
      BY <3>1
    <3> QED BY <3>2, <3>3 DEF Apart, StoreMoves
  <2> QED BY <2>1, <2>2 DEF StreamGenuine, Genuine
<1>5. Sorted(s)'
  BY <1>1, <1>2 DEF Sorted
<1>6. ASSUME Watched(s)'
      PROVE  NoGap(s)'
  <2>1. open(s) /\ (phase[s] = "first" => rpc[s] = "send")
    BY <1>1, <1>6 DEF Watched, open, Apart
  <2> DEFINE K == Kept(s)
             c == lastSent[s]
             R == Range(batch[s])
  <2>2. Kept(s)' = K /\ lastSent'[s] = c /\ Range(batch[s])' = R
    BY <1>1 DEF Kept
  <2>3. SUFFICES /\ Covered(log', epoch', c, told', K, wire'[s])
                 /\ Preceded(log', epoch', c, pending[s], K)
                 /\ Preceded(log', epoch', c, batch[s], R)
    BY <1>1, <2>2 DEF NoGap
  <2>4. Watched(s) => /\ Covered(log, epoch, c, told, K, wire[s])
                      /\ Preceded(log, epoch, c, pending[s], K)
                      /\ Preceded(log, epoch, c, batch[s], R)
    BY <1>2 DEF NoGap
  <2>5. c \in Nat /\ log \in Seq(Frames) /\ log' \in Seq(Frames) /\ wire[s] \in Seq(Frames)
        /\ batch[s] \in Seq(Frames) /\ pending[s] \in Seq(Frames) /\ told \in Nat /\ sequence \in Nat
        /\ wire'[s] \in Seq(Frames)
    BY DEF Base, TypeOK, StoreTypes, StreamTypes
  <2>6. /\ \A j \in DOMAIN wire[s] : wire[s][j].epoch = epoch => wire[s][j].id <= sequence
        /\ \A j \in DOMAIN pending[s] : pending[s][j].epoch = epoch => pending[s][j].id <= sequence
        /\ \A j \in DOMAIN batch[s] : batch[s][j].epoch = epoch => batch[s][j].id <= sequence
        /\ told <= sequence
    BY <1>2 DEF StreamGenuine, Genuine, GenuineIn, Numbered
  <2> HIDE DEF K, c, R
  <2>7. CASE UNCHANGED <<log, sequence, epoch, told, inOrder, fresh, wire>>
    <3>1. Watched(s)
      BY <1>6, <2>1, <2>7 DEF Watched
    <3> QED BY <2>4, <2>7, <3>1
  <2>8. CASE Grown /\ UNCHANGED <<told, inOrder, fresh, wire>>
    <3>1. Watched(s)
      BY <1>6, <2>1, <2>8 DEF Watched
    <3>2. /\ \A k \in DOMAIN log' : log'[k].id = sequence + 1 \/ \E i \in DOMAIN log : log'[k] = log[i]
          /\ epoch' = epoch
      BY <2>8 DEF Grown
    <3>3. Covered(log', epoch, c, told, K, wire[s])
      BY <2>4, <2>5, <2>6, <3>1, <3>2, GrownCovered
    <3>4. Preceded(log', epoch, c, pending[s], K)
      BY <2>4, <2>5, <2>6, <3>1, <3>2, GrownCovered
    <3>5. Preceded(log', epoch, c, batch[s], R)
      BY <2>4, <2>5, <2>6, <3>1, <3>2, GrownCovered
    <3> QED BY <2>8, <3>2, <3>3, <3>4, <3>5
  <2>9. CASE Forget
    <3>1. DOMAIN log' = {}
      BY <2>9 DEF Forget
    <3>2. \A n : RowsBetween(log', c, n) = {}
      BY <3>1 DEF RowsBetween
    <3> QED BY <3>2 DEF Covered, Preceded
  <2>10. ASSUME NEW e \in Frames, Told(e)
         PROVE  /\ Covered(log', epoch', c, told', K, wire'[s])
                /\ Preceded(log', epoch', c, pending[s], K)
                /\ Preceded(log', epoch', c, batch[s], R)
    <3>1. Announce(e) /\ Genuine(e) /\ UNCHANGED <<log, sequence, epoch, fresh>>
      BY <2>10 DEF Told
    <3>2. inOrder'
      BY <1>6 DEF Watched
    <3>3. /\ inOrder
          /\ Len(wire'[s]) = Len(wire[s]) + 1
          /\ \A i \in 1..Len(wire[s]) : wire'[s][i] = wire[s][i]
          /\ wire'[s][Len(wire[s]) + 1] = e
          /\ e.epoch = epoch => e.id <= told + 1
      BY <3>1, <3>2, AnnouncedWire
    <3>4. Watched(s)
      BY <1>6, <2>1, <3>1, <3>3 DEF Watched
    <3>5. told' = IF e.epoch = epoch /\ e.id > told THEN e.id ELSE told
      BY <3>1 DEF Announce
    <3>6. e.epoch = epoch => \A k \in DOMAIN log : log[k].id = e.id => log[k] = e
      BY <3>1 DEF Genuine, GenuineIn
    <3>7. Covered(log, epoch, c, told', K, wire'[s])
      <4>1. e.epoch = epoch => e.id <= told + 1 /\ \A k \in DOMAIN log : log[k].id = e.id => log[k] = e
        BY <3>3, <3>6
      <4>2. Covered(log, epoch, c, told, K, wire[s])
        BY <2>4, <3>4
      <4>3. Extended(wire[s], e, wire'[s]) /\ Follows(e, log, epoch, told)
        BY <3>3, <4>1 DEF Extended, Follows
      <4>4. wire[s] \in Seq(Frames) /\ wire'[s] \in Seq(Frames)
        BY <2>5
      <4> QED BY <2>5, <3>5, <4>2, <4>3, <4>4, AnnouncedCovered
    <3> QED BY <2>4, <3>1, <3>4, <3>7
  <2> QED BY <2>7, <2>8, <2>9, <2>10 DEF Apart, StoreMoves
<1> QED BY <1>4, <1>5, <1>6 DEF StreamInv

\* Whose handler does not act keeps its hand-over.
LEMMA OthersKeep ==
  ASSUME Base, Base', CursorInv, NEW s \in Streams, NEW t \in Streams \ {s},
         UNCHANGED <<log, sequence, epoch, told, inOrder>>,
         /\ wire'[t] = wire[t] /\ phase'[t] = phase[t] /\ batch'[t] = batch[t]
         /\ pending'[t] = pending[t] /\ lastSent'[t] = lastSent[t] /\ rpc'[t] = rpc[t],
         fresh'[t] <=> fresh[t]
  PROVE  StreamInv(t)'
<1>1. StreamGenuine(t) /\ Sorted(t) /\ (Watched(t) => NoGap(t))
  BY DEF CursorInv, StreamInv
<1>2. StreamGenuine(t)' /\ Sorted(t)'
  BY <1>1 DEF StreamGenuine, Genuine, Sorted
<1>3. Watched(t)' => Watched(t)
  BY DEF Watched, open
<1>4. NoGap(t) => NoGap(t)'
  BY DEF NoGap, Kept
<1> QED BY <1>1, <1>2, <1>3, <1>4 DEF StreamInv

\* What the handlers of the streams leave alone.
StoreStill == UNCHANGED <<storeVars, toldVars, said>>

\* A step of a handler keeps the numbering.
LEMMA StoreStillKeeps ==
  ASSUME CursorInv, StoreStill
  PROVE  Numbered' /\ WorkersGenuine'
  BY DEF CursorInv, StoreStill, storeVars, toldVars, Numbered, WorkersGenuine, Genuine

\* A stream that is closed, or that has not read the log yet, has no hand-over.
LEMMA UnwatchedKeeps ==
  ASSUME CursorInv, NEW s \in Streams, StoreStill,
         wire'[s] = wire[s], batch'[s] = batch[s],
         pending'[s] = pending[s] \/ pending'[s] = <<>>,
         phase'[s] # "first" => pending'[s] = <<>>,
         ~Watched(s)'
  PROVE  StreamInv(s)'
<1>1. StreamGenuine(s) /\ Sorted(s)
  BY DEF CursorInv, StreamInv
<1>2. DOMAIN <<>> = {}
  OBVIOUS
<1>3. StreamGenuine(s)'
  BY <1>1, <1>2 DEF StreamGenuine, Genuine, StoreStill, storeVars
<1>4. Sorted(s)'
  BY <1>1, <1>2 DEF Sorted
<1> QED BY <1>3, <1>4 DEF StreamInv

\* A new stream, with or without a cursor, has no hand-over yet.
LEMMA ConnectKeeps ==
  ASSUME Base, Base', CursorInv, NEW s \in Streams,
         Connect(s) \/ Disconnect(s) \/ PumpBusy(s) \/ Heartbeat(s)
  PROVE  StoreStill /\ \A t \in Streams : StreamInv(t)'
<1>1. StoreStill /\ UNCHANGED <<wire, batch>>
  BY DEF Connect, Disconnect, PumpBusy, Heartbeat, StoreStill, workerVars
<1>2. /\ phase \in [Streams -> {"off", "told", "first", "second", "beating"}]
      /\ pending \in [Streams -> Seq(Frames)] /\ lastSent \in [Streams -> Nat] /\ fresh \in [Streams -> BOOLEAN]
      /\ rpc \in [Reconcilers -> {"idle", "lock", "act", "announce", "list", "send"}]
      /\ Streams \subseteq Reconcilers
  BY DEF Base, TypeOK, StreamTypes, QueueTypes, Reconcilers
<1>3. ASSUME NEW t \in Streams \ {s}
      PROVE  StreamInv(t)'
  <2>1. /\ phase'[t] = phase[t] /\ pending'[t] = pending[t]
    BY <1>2 DEF Connect, Disconnect, PumpBusy, Heartbeat, Close
  <2>2. lastSent'[t] = lastSent[t] /\ (fresh'[t] <=> fresh[t])
    BY <1>2 DEF Connect, Disconnect, PumpBusy, Heartbeat
  <2>3. rpc'[t] = rpc[t]
    BY <1>2 DEF Connect, Disconnect, PumpBusy, Heartbeat, reconVars
  <2> QED BY <1>1, <2>1, <2>2, <2>3, OthersKeep DEF StoreStill, storeVars, toldVars
<1>4. StreamInv(s)'
  <2>1. CASE Connect(s)
    <3>1. phase'[s] = "first" /\ rpc'[s] = "lock" /\ pending'[s] = pending[s]
      BY <1>2, <2>1 DEF Connect
    <3> QED BY <1>1, <3>1, UnwatchedKeeps DEF Watched
  <2>2. CASE Disconnect(s) \/ PumpBusy(s)
    <3>1. Close(s)
      BY <2>2 DEF Disconnect, PumpBusy
    <3>2. pending'[s] = <<>> /\ phase'[s] = (IF open(s) THEN "off" ELSE phase[s])
      BY <1>2, <3>1 DEF Close
    <3>3. ~open(s)'
      BY <3>2 DEF open
    <3> QED BY <1>1, <3>2, <3>3, UnwatchedKeeps DEF Watched
  <2>3. CASE Heartbeat(s)
    <3>1. UNCHANGED <<log, sequence, epoch, told, inOrder, wire, phase, batch, pending, lastSent, fresh>>
      BY <2>3 DEF Heartbeat, storeVars, toldVars
    <3>2. phase[s] # "first"
      BY <2>3 DEF Heartbeat
    <3>3. StreamGenuine(s) /\ Sorted(s) /\ (Watched(s) => NoGap(s))
      BY DEF CursorInv, StreamInv
    <3>4. StreamGenuine(s)' /\ Sorted(s)' /\ (NoGap(s) => NoGap(s)')
      BY <3>1, <3>3 DEF StreamGenuine, Genuine, Sorted, NoGap, Kept
    <3>5. Watched(s)' => Watched(s)
      BY <3>1, <3>2 DEF Watched, open
    <3> QED BY <3>3, <3>4, <3>5 DEF StreamInv
  <2> QED BY <2>1, <2>2, <2>3
<1> QED BY <1>1, <1>3, <1>4

\* The log is read: all that is above the cursor is in the batch.
LEMMA ReadKeeps ==
  ASSUME Base, Base', CursorInv, NEW s \in Streams, ReadLog(s)
  PROVE  StoreStill /\ \A t \in Streams : StreamInv(t)'
<1>1. StoreStill /\ UNCHANGED <<log, sequence, epoch, told, inOrder, wire, phase, pending, lastSent, fresh>>
  BY DEF ReadLog, StoreStill, workerVars, storeVars, toldVars
<1>2. /\ batch \in [Streams -> Seq(Frames)]
      /\ rpc \in [Reconcilers -> {"idle", "lock", "act", "announce", "list", "send"}]
      /\ Streams \subseteq Reconcilers
      /\ log \in Seq(Frames)
  BY DEF Base, TypeOK, StoreTypes, StreamTypes, QueueTypes, Reconcilers
<1>3. ASSUME NEW t \in Streams \ {s}
      PROVE  StreamInv(t)'
  <2>1. batch'[t] = batch[t] /\ rpc'[t] = rpc[t]
    BY <1>2 DEF ReadLog
  <2> QED BY <1>1, <2>1, OthersKeep
<1>4. PICK n \in 0..Len(log) :
        /\ \A k \in DOMAIN log : k <= n <=> log[k].id <= lastSent[s]
        /\ batch' = [batch EXCEPT ![s] = SubSeq(log, n + 1, Len(log))]
  BY DEF ReadLog
<1> DEFINE b == SubSeq(log, n + 1, Len(log))
<1>5. /\ b \in Seq(Frames) /\ DOMAIN b = 1..(Len(log) - n) /\ batch'[s] = b
      /\ \A i \in 1..(Len(log) - n) : b[i] = log[i + n]
      /\ Len(log) \in Nat /\ n \in Nat /\ DOMAIN log = 1..Len(log)
  <2>1. Len(b) = Len(log) - n /\ Len(log) - n \in Nat
    BY <1>2
  <2>2. b \in Seq(Frames) /\ \A i \in 1..(Len(log) - n) : b[i] = log[i + n]
    BY <1>2
  <2> QED BY <1>2, <1>4, <2>1, <2>2
<1>6. StreamGenuine(s) /\ Sorted(s) /\ (Watched(s) => NoGap(s)) /\ Numbered
  BY DEF CursorInv, StreamInv
<1> HIDE DEF b
<1>7. \A i \in DOMAIN b : i + n \in DOMAIN log /\ b[i] = log[i + n] /\ b[i].id = sequence - Len(log) + (i + n)
  <2>1. \A i \in DOMAIN b : i + n \in DOMAIN log /\ b[i] = log[i + n]
    BY <1>5
  <2> QED BY <1>6, <2>1 DEF Numbered
<1>8. StreamGenuine(s)'
  <2>1. \A k \in DOMAIN log : Genuine(log[k])
    <3>1. ASSUME NEW k \in DOMAIN log
          PROVE  Genuine(log[k])
      <4>1. log[k].epoch = epoch /\ log[k].id = sequence - Len(log) + k
        BY <1>6 DEF Numbered
      <4>2. sequence \in Nat /\ epoch \in Nat /\ Len(log) <= sequence
        BY <1>6, StreamBasics DEF Numbered
      <4>3. log[k].id <= sequence
        BY <1>5, <4>1, <4>2
      <4>4. \A i \in DOMAIN log : log[i].id = log[k].id => i = k
        BY <1>5, <1>6, <4>1, <4>2 DEF Numbered
      <4> QED BY <4>1, <4>2, <4>3, <4>4 DEF Genuine, GenuineIn
    <3> QED BY <3>1
  <2>2. \A i \in DOMAIN batch'[s] : Genuine(batch'[s][i])
    BY <1>5, <1>7, <2>1
  <2> QED BY <1>1, <1>6, <2>2 DEF StreamGenuine, Genuine
<1>9. Sorted(s)'
  <2>1. ASSUME NEW i \in DOMAIN b, NEW j \in DOMAIN b, i < j
        PROVE  b[i].id < b[j].id
    <3>1. sequence \in Nat
      BY StreamBasics
    <3> QED BY <1>5, <1>7, <2>1, <3>1
  <2> QED BY <1>1, <1>5, <1>6, <2>1 DEF Sorted
<1>10. ASSUME Watched(s)'
       PROVE  NoGap(s)'
  <2>1. \A k, m : k \in RowsBetween(log, lastSent[s], m) => log[k] \in Range(b)
    <3>1. SUFFICES ASSUME NEW k \in DOMAIN log, log[k].id > lastSent[s]
                   PROVE  log[k] \in Range(b)
      BY DEF RowsBetween
    <3>2. k > n
      BY <1>4, <1>5, <3>1, StreamBasics
    <3>3. k - n \in DOMAIN b /\ b[k - n] = log[k]
      BY <1>5, <3>2
    <3> QED BY <3>3 DEF Range
  <2>2. CASE phase[s] = "first"
    <3>1. Range(b) \subseteq Kept(s)'
      BY <1>1, <1>5, <2>2 DEF Kept
    <3> QED BY <1>1, <1>5, <2>1, <3>1 DEF NoGap, Covered, Preceded
  <2>3. CASE phase[s] # "first"
    <3>1. Watched(s) /\ NoGap(s)
      BY <1>1, <1>6, <1>10, <2>3 DEF Watched, open
    <3>2. Kept(s)' = {} /\ Kept(s) = {}
      BY <1>1, <2>3 DEF Kept
    <3>3. Preceded(log, epoch, lastSent[s], b, Range(b))
      BY <2>1 DEF Preceded
    <3> QED BY <1>1, <1>5, <3>1, <3>2, <3>3 DEF NoGap
  <2> QED BY <2>2, <2>3
<1>11. StreamInv(s)'
  BY <1>8, <1>9, <1>10 DEF StreamInv
<1> QED BY <1>1, <1>3, <1>11

(***************************************************************************)
(* Notifications arrive.                                                   *)
(***************************************************************************)
\* The first n events are those that stay before e.
Splits(events, n, e) == \A k \in DOMAIN events : k <= n <=> events[k].id <= e.id

Ascends(events) == \A i, j \in DOMAIN events : i < j => events[i].id <= events[j].id

\* A kept event takes its place among those with lower or the same ID.
LEMMA InsertedSorted ==
  ASSUME NEW events \in Seq(Frames), NEW n \in 0..Len(events), NEW e \in Frames,
         Splits(events, n, e), Ascends(events)
  PROVE  /\ Ascends(InsertAt(events, n + 1, e))
         /\ Range(InsertAt(events, n + 1, e)) = Range(events) \cup {e}
<1> USE DEF Splits, Ascends
<1> DEFINE r == InsertAt(events, n + 1, e)
<1>1. /\ r \in Seq(Frames) /\ Len(r) = Len(events) + 1
      /\ \A i \in 1..(Len(events) + 1) :
           r[i] = IF i <= n THEN events[i] ELSE IF i = n + 1 THEN e ELSE events[i - 1]
  BY Inserted
<1> HIDE DEF r
<1>2. /\ DOMAIN events = 1..Len(events) /\ Len(events) \in Nat /\ n \in Nat
      /\ \A i \in DOMAIN events : events[i].id \in Nat
      /\ DOMAIN r = 1..(Len(events) + 1) /\ e.id \in Nat
  BY <1>1, FrameSeq DEF Frames
<1>3. /\ \A i \in DOMAIN r : i <= n => i \in DOMAIN events /\ r[i] = events[i]
      /\ n + 1 \in DOMAIN r /\ r[n + 1] = e
      /\ \A i \in DOMAIN r : i > n + 1 => i - 1 \in DOMAIN events /\ r[i] = events[i - 1]
  BY <1>1, <1>2
<1>4. ASSUME NEW i \in DOMAIN r, NEW j \in DOMAIN r, i < j
      PROVE  r[i].id <= r[j].id
  <2>1. CASE j <= n
    BY <1>2, <1>3, <1>4, <2>1
  <2>2. CASE j = n + 1
    BY <1>2, <1>3, <1>4, <2>2
  <2>3. CASE j > n + 1
    <3>1. j - 1 \in DOMAIN events /\ r[j] = events[j - 1] /\ ~(j - 1 <= n) /\ e.id <= events[j - 1].id
      BY <1>2, <1>3, <2>3
    <3>2. CASE i <= n
      BY <1>2, <1>3, <2>3, <3>1, <3>2
    <3>3. CASE i = n + 1
      BY <1>3, <3>1, <3>3
    <3>4. CASE i > n + 1
      BY <1>2, <1>3, <1>4, <3>1, <3>4
    <3> QED BY <1>2, <3>2, <3>3, <3>4
  <2> QED BY <1>2, <2>1, <2>2, <2>3
<1>5. Range(r) = Range(events) \cup {e}
  <2>1. \A i \in DOMAIN r : r[i] \in Range(events) \cup {e}
    BY <1>2, <1>3 DEF Range
  <2>2. ASSUME NEW k \in DOMAIN events
        PROVE  \E i \in DOMAIN r : r[i] = events[k]
    <3>1. CASE k <= n
      BY <1>2, <1>3, <3>1
    <3>2. CASE k > n
      <4>1. k + 1 \in DOMAIN r /\ k + 1 > n + 1 /\ (k + 1) - 1 = k
        BY <1>2, <3>2
      <4> QED BY <1>3, <4>1
    <3> QED BY <1>2, <3>1, <3>2
  <2> QED BY <1>3, <2>1, <2>2 DEF Range
<1> QED BY <1>4, <1>5 DEF r

\* A notification is kept by a first replay and sent or ignored otherwise.
LEMMA DeliverKeeps ==
  ASSUME Base, Base', CursorInv, NEW s \in Streams, Deliver(s)
  PROVE  StoreStill /\ \A t \in Streams : StreamInv(t)'
<1> DEFINE e == Head(wire[s])
<1>1. StoreStill /\ UNCHANGED <<log, sequence, epoch, told, inOrder, batch, rpc>>
  BY DEF Deliver, StoreStill, workerVars, storeVars, toldVars, reconVars
<1>2. /\ wire \in [Streams -> Seq(Frames)] /\ pending \in [Streams -> Seq(Frames)]
      /\ phase \in [Streams -> {"off", "told", "first", "second", "beating"}]
      /\ lastSent \in [Streams -> Nat] /\ fresh \in [Streams -> BOOLEAN]
      /\ StreamTypes
  BY DEF Base, TypeOK, StreamTypes
<1>3. wire[s] # <<>> /\ wire' = [wire EXCEPT ![s] = Tail(@)]
  BY DEF Deliver
<1>4. /\ e \in Frames /\ <<e>> \in Seq(Frames) /\ Tail(wire[s]) \in Seq(Frames)
      /\ wire[s] \in Seq(Frames) /\ 1 \in DOMAIN wire[s] /\ e = wire[s][1]
      /\ \A i \in DOMAIN Tail(wire[s]) : i + 1 \in DOMAIN wire[s] /\ Tail(wire[s])[i] = wire[s][i + 1]
  <2>1. wire[s] \in Seq(Frames) /\ wire[s] # <<>>
    BY <1>2, <1>3
  <2>2. /\ Len(wire[s]) \in Nat \ {0} /\ DOMAIN wire[s] = 1..Len(wire[s])
        /\ Tail(wire[s]) \in Seq(Frames) /\ Len(Tail(wire[s])) = Len(wire[s]) - 1
        /\ \A i \in 1..(Len(wire[s]) - 1) : Tail(wire[s])[i] = wire[s][i + 1]
        /\ Head(wire[s]) = wire[s][1]
    BY <2>1
  <2>3. DOMAIN Tail(wire[s]) = 1..(Len(wire[s]) - 1)
    BY <2>2
  <2>4. e \in Frames /\ <<e>> \in Seq(Frames)
    BY <2>1, <2>2
  <2> QED BY <2>1, <2>2, <2>3, <2>4
<1>5. StreamGenuine(s) /\ Sorted(s) /\ (Watched(s) => NoGap(s))
  BY DEF CursorInv, StreamInv
<1> HIDE DEF e
<1>6. Genuine(e) /\ \A i \in DOMAIN wire'[s] : Genuine(wire'[s][i])
  BY <1>2, <1>3, <1>4, <1>5 DEF StreamGenuine
<1>7. Watched(s) => /\ Covered(log, epoch, lastSent[s], told, Kept(s) \cup {e}, wire'[s])
                    /\ Preceded(log, epoch, lastSent[s], <<e>>, Kept(s))
  <2>1. SUFFICES ASSUME Covered(log, epoch, lastSent[s], told, Kept(s), wire[s])
                 PROVE  /\ Covered(log, epoch, lastSent[s], told, Kept(s) \cup {e}, Tail(wire[s]))
                        /\ Preceded(log, epoch, lastSent[s], <<e>>, Kept(s))
    BY <1>2, <1>3, <1>5 DEF NoGap
  <2>2. log \in Seq(Frames) /\ lastSent[s] \in Nat /\ told \in Nat
    BY StreamBasics
  <2> QED BY <1>3, <1>4, <2>1, <2>2, ArrivedCovered DEF e
<1>8. CASE open(s) /\ Replaying(s)
  <2>1. UNCHANGED <<phase, lastSent, fresh>>
    BY <1>8 DEF Deliver
  <2>2. PICK n \in 0..Len(pending[s]) :
          /\ \A k \in DOMAIN pending[s] : k <= n <=> pending[s][k].id <= e.id
          /\ pending' = [pending EXCEPT ![s] = InsertAt(@, n + 1, e)]
    BY <1>8 DEF Deliver, e
  <2> DEFINE p == InsertAt(pending[s], n + 1, e)
  <2>3. pending'[s] = p /\ pending[s] \in Seq(Frames) /\ p = InsertAt(pending[s], n + 1, e)
    BY <1>2, <2>2
  <2> HIDE DEF p
  <2>4. /\ Ascends(p)
        /\ Range(p) = Range(pending[s]) \cup {e}
    <3>1. Splits(pending[s], n, e) /\ Ascends(pending[s])
      BY <1>5, <2>2 DEF Splits, Ascends, Sorted
    <3>2. pending[s] \in Seq(Frames) /\ e \in Frames /\ n \in 0..Len(pending[s])
      BY <1>4, <2>3
    <3>3. /\ Ascends(InsertAt(pending[s], n + 1, e))
          /\ Range(InsertAt(pending[s], n + 1, e)) = Range(pending[s]) \cup {e}
      BY <3>1, <3>2, InsertedSorted
    <3> QED BY <2>3, <3>3
  <2>5. phase[s] = "first"
    BY <1>8 DEF Replaying
  <2>6. StreamGenuine(s)'
    <3>1. \A i \in DOMAIN p : p[i] \in Range(pending[s]) \cup {e}
      BY <2>4 DEF Range
    <3>2. \A i \in DOMAIN p : Genuine(p[i])
      BY <1>5, <1>6, <3>1 DEF StreamGenuine, Range
    <3> QED BY <1>1, <1>5, <1>6, <2>3, <3>2 DEF StreamGenuine, Genuine
  <2>7. Sorted(s)'
    BY <1>1, <1>5, <2>1, <2>3, <2>4, <2>5 DEF Sorted, Ascends
  <2>8. ASSUME Watched(s)'
        PROVE  NoGap(s)'
    <3>1. Watched(s)
      BY <1>1, <2>1, <2>8 DEF Watched, open
    <3>2. Kept(s)' = Kept(s) \cup {e} /\ e \in Kept(s)'
      BY <1>1, <2>1, <2>3, <2>4, <2>5 DEF Kept
    <3>3. Preceded(log, epoch, lastSent[s], p, Kept(s) \cup {e})
      <4>1. Preceded(log, epoch, lastSent[s], pending[s], Kept(s))
        BY <1>5, <3>1 DEF NoGap
      <4>2. SUFFICES ASSUME NEW j \in DOMAIN p, p[j].epoch = epoch, NEW k \in RowsBetween(log, lastSent[s], p[j].id)
                     PROVE  log[k] \in Kept(s)
        BY DEF Preceded
      <4>3. p[j] \in Range(pending[s]) \/ p[j] = e
        BY <2>4 DEF Range
      <4>4. CASE p[j] = e
        <5>1. 1 \in DOMAIN <<e>> /\ <<e>>[1] = e
          OBVIOUS
        <5> QED BY <1>7, <3>1, <4>2, <4>4, <5>1 DEF Preceded
      <4>5. CASE p[j] \in Range(pending[s])
        <5>1. PICK i \in DOMAIN pending[s] : pending[s][i] = p[j]
          BY <4>5 DEF Range
        <5> QED BY <4>1, <4>2, <5>1 DEF Preceded
      <4> QED BY <4>3, <4>4, <4>5
    <3>4. Preceded(log, epoch, lastSent[s], batch[s], Range(batch[s]))
      BY <1>5, <3>1 DEF NoGap
    <3> QED BY <1>1, <1>7, <2>1, <2>3, <3>1, <3>2, <3>3, <3>4 DEF NoGap
  <2>9. ASSUME NEW t \in Streams \ {s}
        PROVE  StreamInv(t)'
    <3>1. wire'[t] = wire[t] /\ pending'[t] = pending[t]
      BY <1>2, <1>3, <2>2
    <3> QED BY <1>1, <2>1, <3>1, OthersKeep
  <2> QED BY <1>1, <2>6, <2>7, <2>8, <2>9 DEF StreamInv
<1>9. CASE ~(open(s) /\ Replaying(s))
  <2>1. SendAll(s, <<e>>, phase[s]) /\ UNCHANGED pending
    BY <1>9 DEF Deliver, e
  <2>2. /\ lastSent' \in [Streams -> Nat] /\ lastSent[s] <= lastSent'[s]
        /\ \A t \in Streams \ {s} : lastSent'[t] = lastSent[t] /\ (fresh'[t] <=> fresh[t]) /\ phase'[t] = phase[t]
        /\ fresh'[s] => fresh[s]
        /\ open(s)' => open(s) /\ phase'[s] = phase[s]
        /\ open(s)' => \A k \in DOMAIN <<e>> : <<e>>[k].id <= lastSent'[s]
    BY <1>2, <1>4, <2>1, SendMoves
  <2>3. StreamGenuine(s)'
    BY <1>1, <1>5, <1>6, <2>1 DEF StreamGenuine, Genuine
  <2>4. Sorted(s)'
    <3>1. phase'[s] = "first" \/ pending[s] = <<>>
      <4>1. CASE phase[s] # "first"
        BY <1>5, <4>1 DEF Sorted
      <4>2. CASE phase[s] = "first"
        BY <1>9, <4>2 DEF open, Replaying
      <4> QED BY <4>1, <4>2
    <3> QED BY <1>1, <1>5, <2>1, <3>1 DEF Sorted
  <2>5. ASSUME Watched(s)'
        PROVE  NoGap(s)'
    <3>1. open(s)' /\ open(s) /\ phase'[s] = phase[s]
      BY <2>2, <2>5 DEF Watched
    <3>2. phase[s] # "first"
      BY <1>9, <3>1 DEF Replaying
    <3>3. Watched(s) /\ NoGap(s)
      BY <1>1, <1>5, <2>2, <2>5, <3>1, <3>2 DEF Watched
    <3>4. Kept(s) = {} /\ Kept(s)' = {}
      BY <3>1, <3>2 DEF Kept
    <3>5. e.id <= lastSent'[s]
      <4>1. 1 \in DOMAIN <<e>> /\ <<e>>[1] = e
        OBVIOUS
      <4> QED BY <2>2, <3>1, <4>1
    <3>6. Covered(log, epoch, lastSent'[s], told, {}, wire'[s])
      <4>1. Covered(log, epoch, lastSent[s], told, {e}, wire'[s])
        BY <1>7, <3>3, <3>4
      <4>2. /\ log \in Seq(Frames) /\ lastSent[s] \in Nat /\ lastSent'[s] \in Nat /\ told \in Nat
            /\ wire'[s] \in Seq(Frames) /\ {e} \in SUBSET Frames
        BY <1>2, <1>3, <1>4, <2>2, StreamBasics
      <4>3. \A x \in {e} : x.id <= lastSent'[s] \/ x \in {}
        BY <3>5
      <4> QED BY <2>2, <4>1, <4>2, <4>3, SentCovered
    <3>7. Preceded(log, epoch, lastSent'[s], batch[s], Range(batch[s]))
      <4>1. Preceded(log, epoch, lastSent[s], batch[s], Range(batch[s]))
        BY <3>3 DEF NoGap
      <4>2. /\ log \in Seq(Frames) /\ lastSent[s] \in Nat /\ lastSent'[s] \in Nat /\ told \in Nat
            /\ batch[s] \in Seq(Frames) /\ Range(batch[s]) \in SUBSET Frames
        BY <2>2, StreamBasics DEF Range
      <4> QED BY <2>2, <4>1, <4>2, SentCovered
    <3>8. DOMAIN pending[s] = {}
      BY <1>5, <3>2 DEF Sorted
    <3> QED BY <1>1, <2>1, <3>4, <3>6, <3>7, <3>8 DEF NoGap, Preceded
  <2>6. ASSUME NEW t \in Streams \ {s}
        PROVE  StreamInv(t)'
    <3>1. wire'[t] = wire[t]
      BY <1>2, <1>3
    <3> QED BY <1>1, <2>1, <2>2, <3>1, OthersKeep
  <2> QED BY <1>1, <2>3, <2>4, <2>5, <2>6 DEF StreamInv
<1> QED BY <1>8, <1>9

(***************************************************************************)
(* The batch is sent.                                                      *)
(***************************************************************************)
LEMMA Joined ==
  ASSUME NEW a \in Seq(Frames), NEW b \in Seq(Frames)
  PROVE  /\ a \o b \in Seq(Frames)
         /\ DOMAIN (a \o b) = 1..(Len(a) + Len(b))
         /\ \A i \in DOMAIN a : i \in DOMAIN (a \o b) /\ (a \o b)[i] = a[i]
         /\ \A i \in DOMAIN b : Len(a) + i \in DOMAIN (a \o b) /\ (a \o b)[Len(a) + i] = b[i]
<1>1. /\ DOMAIN a = 1..Len(a) /\ DOMAIN b = 1..Len(b) /\ Len(a) \in Nat /\ Len(b) \in Nat
  OBVIOUS
<1> DEFINE c == a \o b
<1>2. /\ c \in Seq(Frames) /\ Len(c) = Len(a) + Len(b)
      /\ \A i \in 1..(Len(a) + Len(b)) : c[i] = IF i <= Len(a) THEN a[i] ELSE b[i - Len(a)]
  BY ConcatProperties
<1> HIDE DEF c
<1>3. DOMAIN c = 1..(Len(a) + Len(b))
  BY <1>2
<1>4. ASSUME NEW i \in DOMAIN a
      PROVE  i \in DOMAIN c /\ c[i] = a[i]
  BY <1>1, <1>2, <1>3
<1>5. ASSUME NEW i \in DOMAIN b
      PROVE  Len(a) + i \in DOMAIN c /\ c[Len(a) + i] = b[i]
  <2>1. Len(a) + i \in 1..(Len(a) + Len(b)) /\ ~(Len(a) + i <= Len(a)) /\ (Len(a) + i) - Len(a) = i
    BY <1>1
  <2>2. c[Len(a) + i] = b[(Len(a) + i) - Len(a)]
    BY <1>2, <2>1
  <2> QED BY <1>3, <2>1, <2>2
<1> QED BY <1>2, <1>3, <1>4, <1>5 DEF c

\* send() of what was read and of what was kept meanwhile.
LEMMA SendKeeps ==
  ASSUME Base, Base', CursorInv, NEW s \in Streams, SendBatch(s)
  PROVE  StoreStill /\ \A t \in Streams : StreamInv(t)'
<1> DEFINE h == batch[s] \o pending[s]
<1>1. StoreStill /\ UNCHANGED <<log, sequence, epoch, told, inOrder, wire>>
  BY DEF SendBatch, StoreStill, workerVars, storeVars, toldVars
<1>2. /\ batch \in [Streams -> Seq(Frames)] /\ pending \in [Streams -> Seq(Frames)]
      /\ StreamTypes
      /\ rpc \in [Reconcilers -> {"idle", "lock", "act", "announce", "list", "send"}]
      /\ Streams \subseteq Reconcilers
  BY DEF Base, TypeOK, StreamTypes, QueueTypes, Reconcilers
<1>3. batch' = [batch EXCEPT ![s] = <<>>] /\ pending' = [pending EXCEPT ![s] = <<>>] /\ rpc[s] = "send"
  BY DEF SendBatch
<1>4. PICK next \in {"second", "beating"} : SendAll(s, h, next)
  BY DEF SendBatch
<1>5. /\ h \in Seq(Frames)
      /\ \A i \in DOMAIN batch[s] : i \in DOMAIN h /\ h[i] = batch[s][i]
      /\ \A i \in DOMAIN pending[s] : Len(batch[s]) + i \in DOMAIN h /\ h[Len(batch[s]) + i] = pending[s][i]
  <2>1. batch[s] \in Seq(Frames) /\ pending[s] \in Seq(Frames)
    BY <1>2
  <2> QED BY <2>1, Joined
<1> HIDE DEF h
<1>6. /\ lastSent' \in [Streams -> Nat] /\ lastSent[s] <= lastSent'[s]
      /\ \A t \in Streams \ {s} : lastSent'[t] = lastSent[t] /\ (fresh'[t] <=> fresh[t]) /\ phase'[t] = phase[t]
      /\ fresh'[s] => fresh[s]
      /\ open(s)' => open(s) /\ phase'[s] = next
      /\ open(s)' => \A k \in DOMAIN h : h[k].id <= lastSent'[s]
  BY <1>2, <1>4, <1>5, SendMoves
<1>7. StreamGenuine(s) /\ Sorted(s) /\ (Watched(s) => NoGap(s))
  BY DEF CursorInv, StreamInv
<1>8. DOMAIN batch'[s] = {} /\ DOMAIN pending'[s] = {} /\ pending'[s] = <<>>
  BY <1>2, <1>3
<1>9. StreamGenuine(s)' /\ Sorted(s)'
  BY <1>1, <1>7, <1>8 DEF StreamGenuine, Genuine, Sorted
<1>10. ASSUME Watched(s)'
       PROVE  NoGap(s)'
  <2>1. open(s)' /\ open(s) /\ phase'[s] # "first"
    BY <1>6, <1>10 DEF Watched
  <2>2. Watched(s) /\ Covered(log, epoch, lastSent[s], told, Kept(s), wire[s])
    BY <1>1, <1>3, <1>6, <1>7, <1>10, <2>1 DEF Watched, NoGap
  <2>3. \A e \in Kept(s) : e.id <= lastSent'[s]
    BY <1>5, <1>6, <2>1 DEF Kept, Range
  <2>4. Kept(s) \in SUBSET Frames /\ Kept(s)' = {}
    BY <2>1, StreamBasics DEF Kept, Range
  <2>5. log \in Seq(Frames) /\ lastSent[s] \in Nat /\ lastSent'[s] \in Nat /\ told \in Nat /\ wire[s] \in Seq(Frames)
    BY <1>6, StreamBasics
  <2>6. Covered(log, epoch, lastSent'[s], told, {}, wire[s])
    BY <1>6, <2>2, <2>3, <2>4, <2>5, SentCovered
  <2> QED BY <1>1, <1>8, <2>4, <2>6 DEF NoGap, Preceded
<1>11. ASSUME NEW t \in Streams \ {s}
       PROVE  StreamInv(t)'
  <2>1. batch'[t] = batch[t] /\ pending'[t] = pending[t]
    BY <1>2, <1>3
  <2>2. rpc'[t] = rpc[t]
    BY <1>2 DEF SendBatch
  <2> QED BY <1>1, <1>6, <2>1, <2>2, OthersKeep
<1> QED BY <1>1, <1>9, <1>10, <1>11 DEF StreamInv

(***************************************************************************)
(* Nothing is skipped.                                                     *)
(***************************************************************************)
LEMMA CursorStart ==
  ASSUME Init
  PROVE  CursorInv
<1>1. log = <<>> /\ DOMAIN log = {} /\ Len(log) = 0 /\ sequence = 0 /\ epoch = 0 /\ told = 0
  BY DEF Init
<1>2. Genuine(NoFrame)
  BY <1>1 DEF Genuine, GenuineIn, NoFrame
<1>3. Numbered /\ WorkersGenuine
  BY <1>1, <1>2 DEF Init, Numbered, WorkersGenuine
<1>4. ASSUME NEW s \in Streams
      PROVE  StreamInv(s)
  <2>1. /\ DOMAIN wire[s] = {} /\ DOMAIN batch[s] = {} /\ DOMAIN pending[s] = {} /\ pending[s] = <<>>
        /\ ~open(s)
    BY DEF Init, open
  <2> QED BY <2>1 DEF StreamInv, StreamGenuine, Sorted, Watched
<1> QED BY <1>3, <1>4 DEF CursorInv

\* Every step preserves it.
LEMMA CursorStep ==
  ASSUME Base, Base', CursorInv, [Next]_vars
  PROVE  CursorInv'
<1>1. CASE \E s \in Streams : \/ Connect(s) \/ Disconnect(s) \/ Deliver(s) \/ PumpBusy(s)
                              \/ ReadLog(s) \/ SendBatch(s) \/ Heartbeat(s)
  <2>1. StoreStill /\ \A t \in Streams : StreamInv(t)'
    BY <1>1, ConnectKeeps, ReadKeeps, DeliverKeeps, SendKeeps
  <2> QED BY <2>1, StoreStillKeeps DEF CursorInv
<1>2. CASE ~ \E s \in Streams : \/ Connect(s) \/ Disconnect(s) \/ Deliver(s) \/ PumpBusy(s)
                                \/ ReadLog(s) \/ SendBatch(s) \/ Heartbeat(s)
  <2>1. Apart
    BY <1>2, ApartSteps DEF CursorInv
  <2>2. \A s \in Streams : StreamInv(s)'
    BY <2>1, ApartKeeps
  <2> QED BY <2>1, <2>2 DEF Apart, CursorInv
<1> QED BY <1>1, <1>2

\* If whatever precedes an event in the log precedes it in the hands of the
\* gateway, the cursor moves over no row that is not sent.
LEMMA SentInOrder ==
  ASSUME Base, Numbered, NEW s \in Streams, NEW events \in Seq(Frames),
         \A i \in DOMAIN events : Genuine(events[i]),
         \A k \in Sent(s, events) : events[k].epoch = epoch,
         \A r \in DOMAIN events : events[r].epoch = epoch =>
           \A k \in RowsBetween(log, lastSent[s], events[r].id) : Earlier(events, log[k], r),
         NEW last \in Sent(s, events), \A k \in Sent(s, events) : k <= last,
         NEW k \in DOMAIN log, log[k].id > lastSent[s], log[k].id <= events[last].id
  PROVE  \E r \in Sent(s, events) : events[r] = log[k]
<1>1. StreamTypes /\ log[k].id \in Nat
  BY StreamBasics DEF Base, TypeOK
<1>2. last \in DOMAIN events /\ last \in Above(s, events) /\ events[last].id >= log[k].id
      /\ \A i \in DOMAIN events : events[i].id \in Nat
  BY <1>1, SentIsAbove, FrameSeq
<1>3. PICK r \in Above(s, events) :
        /\ r <= last /\ events[r].id >= log[k].id
        /\ \A i \in DOMAIN events : events[i].id >= log[k].id => r <= i
  BY <1>1, <1>2, Climb
<1>4. r \in DOMAIN events /\ r \in Nat /\ last \in Nat
  BY <1>2 DEF Above
<1>5. r \in Sent(s, events)
  <2>1. CASE r = last
    BY <2>1
  <2>2. CASE r < last
    BY <1>1, <2>2, SentIsAbove
  <2> QED BY <1>3, <1>4, <2>1, <2>2
<1>6. events[r].epoch = epoch
  BY <1>5
<1>7. ~(log[k].id < events[r].id)
  <2>1. SUFFICES ASSUME log[k].id < events[r].id PROVE FALSE
    OBVIOUS
  <2>2. k \in RowsBetween(log, lastSent[s], events[r].id)
    BY <2>1 DEF RowsBetween
  <2>3. PICK i \in DOMAIN events : i < r /\ events[i] = log[k]
    BY <1>4, <1>6, <2>2 DEF Earlier
  <2>4. i \in Nat /\ r <= i
    BY <1>1, <1>3, <2>3
  <2> QED BY <1>4, <2>3, <2>4
<1>8. log[k].id = events[r].id
  BY <1>1, <1>2, <1>3, <1>4, <1>7
<1>9. log[k] = events[r]
  BY <1>4, <1>6, <1>8 DEF Genuine, GenuineIn
<1> QED BY <1>5, <1>9

\* A live event is the next one.
LEMMA LiveSkipsNothing ==
  ASSUME Base, CursorInv, NEW s \in Streams, Deliver(s), inOrder, fresh'[s],
         NEW k \in DOMAIN log, log[k].id > lastSent[s], log[k].id <= lastSent'[s]
  PROVE  log[k] \in Given(s)
<1> DEFINE e == Head(wire[s])
<1>1. /\ wire[s] \in Seq(Frames) /\ wire[s] # <<>> /\ StreamTypes
      /\ log[k].id \in Nat /\ lastSent[s] \in Nat
  BY StreamBasics DEF Deliver, Base, TypeOK
<1>2. /\ e \in Frames /\ <<e>> \in Seq(Frames) /\ e = wire[s][1] /\ 1 \in DOMAIN wire[s]
      /\ SubSeq(wire[s], 1, 1) = <<e>>
  <2>1. Len(wire[s]) \in Nat \ {0} /\ DOMAIN wire[s] = 1..Len(wire[s]) /\ Head(wire[s]) = wire[s][1]
    BY <1>1
  <2>2. e \in Frames /\ <<e>> \in Seq(Frames)
    BY <1>1, <2>1
  <2>3. 1 \in 1..(Len(wire[s]) + 1) /\ 1 \in (1 - 1)..Len(wire[s])
    BY <2>1
  <2>4. SubSeq(wire[s], 1, 1) \in Seq(Frames)
    BY <1>1, <2>3, SubSeqProperties
  <2>5. Len(SubSeq(wire[s], 1, 1)) = 1 /\ SubSeq(wire[s], 1, 1)[1] = wire[s][1]
    BY <1>1, <2>1, <2>3
  <2>6. /\ Len(SubSeq(wire[s], 1, 1)) = Len(<<e>>) /\ <<e>>[1] = e
        /\ \A i \in 1..Len(SubSeq(wire[s], 1, 1)) : SubSeq(wire[s], 1, 1)[i] = <<e>>[i]
    BY <2>1, <2>5
  <2>7. SubSeq(wire[s], 1, 1) = <<e>>
    BY <2>2, <2>4, <2>6, SeqEqual
  <2> QED BY <2>1, <2>2, <2>7
<1>3. UNCHANGED rpc
  BY DEF Deliver, reconVars
<1>4. Handed(s) = <<e>>
  BY <1>2, <1>3 DEF Handed
<1>5. ~(open(s) /\ Replaying(s))
  <2>1. ~(log[k].id > lastSent[s] /\ log[k].id <= lastSent[s])
    BY <1>1
  <2> QED BY <2>1 DEF Deliver
<1>6. SendAll(s, <<e>>, phase[s])
  BY <1>5 DEF Deliver
<1> HIDE DEF e
<1>7. /\ \/ lastSent' = lastSent
         \/ \E last \in Sent(s, <<e>>) :
              /\ \A i \in Sent(s, <<e>>) : i <= last
              /\ lastSent'[s] = <<e>>[last].id
      /\ \A i \in Sent(s, <<e>>) : <<e>>[i].epoch = epoch
      /\ fresh[s]
  <2>1. <<e>> \in Seq(Frames)
    BY <1>1, <1>2
  <2>2. /\ \/ lastSent' = lastSent
           \/ \E last \in Sent(s, <<e>>) :
                /\ \A i \in Sent(s, <<e>>) : i <= last
                /\ lastSent'[s] = <<e>>[last].id
        /\ fresh'[s] => \A i \in Sent(s, <<e>>) : <<e>>[i].epoch = epoch
        /\ fresh'[s] => fresh[s]
    <3> DEFINE events == <<e>>
               next == phase[s]
    <3>1. StreamTypes /\ events \in Seq(Frames) /\ SendAll(s, events, next)
      BY <1>1, <1>6, <2>1
    <3>2. next \in {"first", "second", "beating", phase[s]}
      OBVIOUS
    <3> HIDE DEF events, next
    <3>3. /\ \/ lastSent' = lastSent
             \/ \E last \in Sent(s, events) :
                  /\ \A i \in Sent(s, events) : i <= last
                  /\ lastSent'[s] = events[last].id
          /\ fresh'[s] => \A i \in Sent(s, events) : events[i].epoch = epoch
          /\ fresh'[s] => fresh[s]
      BY <3>1, <3>2, SendMoves
    <3> QED BY <3>3 DEF events
  <2> QED BY <1>1, <2>2
<1>8. PICK last \in Sent(s, <<e>>) :
        (\A i \in Sent(s, <<e>>) : i <= last) /\ lastSent'[s] = <<e>>[last].id
  BY <1>1, <1>7
<1>9. open(s) /\ phase[s] # "first"
  <2>1. open(s)
    BY <1>1, <1>2, <1>8, SentIsAbove
  <2> QED BY <1>5, <2>1 DEF Replaying
<1>10. Covered(log, epoch, lastSent[s], told, {}, wire[s])
  <2>1. Watched(s)
    BY <1>7, <1>9 DEF Watched
  <2> QED BY <1>9, <2>1 DEF CursorInv, StreamInv, NoGap, Kept
<1>11. Preceded(log, epoch, lastSent[s], <<e>>, {})
  <2>1. log \in Seq(Frames) /\ told \in Nat
    BY StreamBasics
  <2> QED BY <1>1, <1>10, <2>1, ArrivedCovered DEF e
<1>12. \A i \in DOMAIN <<e>> : Genuine(<<e>>[i])
  <2>1. Genuine(e)
    BY <1>2 DEF CursorInv, StreamInv, StreamGenuine
  <2>2. \A i \in DOMAIN <<e>> : <<e>>[i] = e
    OBVIOUS
  <2> QED BY <2>1, <2>2
<1>13. \A r \in DOMAIN <<e>> : <<e>>[r].epoch = epoch =>
         \A i \in RowsBetween(log, lastSent[s], <<e>>[r].id) : Earlier(<<e>>, log[i], r)
  BY <1>11 DEF Preceded
<1>14. \E r \in Sent(s, <<e>>) : <<e>>[r] = log[k]
  BY <1>2, <1>7, <1>8, <1>12, <1>13, SentInOrder DEF CursorInv
<1> QED BY <1>4, <1>14 DEF Given

\* A replay and the events kept during it leave out no row between them.
LEMMA BatchSkipsNothing ==
  ASSUME Base, CursorInv, NEW s \in Streams, SendBatch(s), inOrder, fresh'[s],
         NEW k \in DOMAIN log, log[k].id > lastSent[s], log[k].id <= lastSent'[s]
  PROVE  log[k] \in Given(s)
<1> DEFINE h == batch[s] \o pending[s]
<1>1. /\ batch[s] \in Seq(Frames) /\ pending[s] \in Seq(Frames) /\ StreamTypes
      /\ log[k].id \in Nat /\ lastSent[s] \in Nat
      /\ DOMAIN batch[s] = 1..Len(batch[s]) /\ DOMAIN pending[s] = 1..Len(pending[s])
      /\ Len(batch[s]) \in Nat /\ Len(pending[s]) \in Nat
  BY StreamBasics DEF Base, TypeOK
<1>2. /\ h \in Seq(Frames) /\ DOMAIN h = 1..(Len(batch[s]) + Len(pending[s]))
      /\ \A i \in DOMAIN batch[s] : i \in DOMAIN h /\ h[i] = batch[s][i]
      /\ \A i \in DOMAIN pending[s] : Len(batch[s]) + i \in DOMAIN h /\ h[Len(batch[s]) + i] = pending[s][i]
  BY <1>1, Joined
<1>3. rpc[s] = "send" /\ rpc'[s] # "send"
  <2>1. rpc \in [Reconcilers -> {"idle", "lock", "act", "announce", "list", "send"}] /\ s \in Reconcilers
    BY DEF Base, TypeOK, QueueTypes, Reconcilers
  <2> QED BY <2>1 DEF SendBatch
<1>4. Handed(s) = h
  BY <1>3 DEF Handed
<1>5. PICK next \in {"second", "beating"} : SendAll(s, h, next)
  BY DEF SendBatch
<1> HIDE DEF h
<1>6. /\ \/ lastSent' = lastSent
         \/ \E last \in Sent(s, h) :
              /\ \A i \in Sent(s, h) : i <= last
              /\ lastSent'[s] = h[last].id
      /\ \A i \in Sent(s, h) : h[i].epoch = epoch
      /\ fresh[s]
  <2>1. next \in {"first", "second", "beating", phase[s]}
    OBVIOUS
  <2>2. StreamTypes /\ h \in Seq(Frames)
    BY <1>1, <1>2
  <2>3. /\ \/ lastSent' = lastSent
           \/ \E last \in Sent(s, h) :
                /\ \A i \in Sent(s, h) : i <= last
                /\ lastSent'[s] = h[last].id
        /\ fresh'[s] => \A i \in Sent(s, h) : h[i].epoch = epoch
        /\ fresh'[s] => fresh[s]
    BY <1>5, <2>1, <2>2, SendMoves
  <2> QED BY <2>3
<1>7. PICK last \in Sent(s, h) :
        (\A i \in Sent(s, h) : i <= last) /\ lastSent'[s] = h[last].id
  BY <1>1, <1>6
<1>8. open(s)
  BY <1>1, <1>2, <1>7, SentIsAbove
<1>9. Sorted(s) /\ StreamGenuine(s) /\ NoGap(s)
  <2>1. Watched(s)
    BY <1>3, <1>6, <1>8 DEF Watched
  <2> QED BY <2>1 DEF CursorInv, StreamInv
<1>10. \A i \in DOMAIN h : \/ i \in DOMAIN batch[s] /\ h[i] = batch[s][i]
                           \/ \E j \in DOMAIN pending[s] : i = Len(batch[s]) + j /\ h[i] = pending[s][j]
  <2>1. SUFFICES ASSUME NEW i \in DOMAIN h, ~(i \in DOMAIN batch[s])
                 PROVE  \E j \in DOMAIN pending[s] : i = Len(batch[s]) + j /\ h[i] = pending[s][j]
    BY <1>2
  <2>2. i \in 1..(Len(batch[s]) + Len(pending[s])) /\ ~(i \in 1..Len(batch[s]))
    BY <1>1, <1>2, <2>1
  <2>3. i - Len(batch[s]) \in 1..Len(pending[s]) /\ i = Len(batch[s]) + (i - Len(batch[s]))
    <3>1. \A a, b \in Nat : \A x \in 1..(a + b) : ~(x \in 1..a) => x - a \in 1..b /\ x = a + (x - a)
      OBVIOUS
    <3> QED BY <1>1, <2>2, <3>1
  <2> QED BY <1>1, <1>2, <2>3
<1>11. \A i \in DOMAIN h : Genuine(h[i])
  <2>1. SUFFICES ASSUME NEW i \in DOMAIN h PROVE Genuine(h[i])
    OBVIOUS
  <2>2. (i \in DOMAIN batch[s] /\ h[i] = batch[s][i]) \/ \E j \in DOMAIN pending[s] : h[i] = pending[s][j]
    BY <1>10
  <2> QED BY <1>9, <2>2 DEF StreamGenuine
<1>12. ASSUME NEW r \in DOMAIN h, h[r].epoch = epoch, NEW i \in RowsBetween(log, lastSent[s], h[r].id)
       PROVE  Earlier(h, log[i], r)
  <2>1. log[i].id \in Nat /\ log[i].id < h[r].id
    BY StreamBasics DEF RowsBetween
  <2>2. CASE r \in DOMAIN batch[s] /\ h[r] = batch[s][r]
    <3>1. PICK j \in DOMAIN batch[s] : batch[s][j] = log[i]
      BY <1>9, <1>12, <2>2 DEF NoGap, Preceded, Range
    <3>2. j < r
      <4>1. batch[s][j].id < batch[s][r].id /\ batch[s][j].id \in Nat /\ batch[s][r].id \in Nat
        BY <2>1, <2>2, <3>1, StreamBasics
      <4>2. j \in Nat /\ r \in Nat
        BY <1>1, <2>2
      <4>3. j # r
        BY <4>1
      <4>4. ~(r < j)
        <5>1. r < j => batch[s][r].id < batch[s][j].id
          BY <1>9, <2>2 DEF Sorted
        <5> QED BY <4>1, <5>1
      <4> QED BY <4>2, <4>3, <4>4
    <3> QED BY <1>2, <3>1, <3>2 DEF Earlier
  <2>3. ASSUME NEW q \in DOMAIN pending[s], r = Len(batch[s]) + q, h[r] = pending[s][q]
        PROVE  Earlier(h, log[i], r)
    <3>1. log[i] \in Kept(s)
      BY <1>9, <1>12, <2>3 DEF NoGap, Preceded
    <3>2. CASE log[i] \in Range(batch[s])
      <4>1. PICK j \in DOMAIN batch[s] : batch[s][j] = log[i]
        BY <3>2 DEF Range
      <4>2. j < r
        BY <1>1, <2>3, <4>1
      <4> QED BY <1>2, <4>1, <4>2 DEF Earlier
    <3>3. CASE log[i] \in Range(pending[s])
      <4>1. PICK j \in DOMAIN pending[s] : pending[s][j] = log[i]
        BY <3>3 DEF Range
      <4>2. j \in Nat /\ q \in Nat /\ Len(batch[s]) \in Nat
        BY <1>1, <2>3
      <4>3. j < q
        <5>1. pending[s][j].id < pending[s][q].id /\ pending[s][j].id \in Nat /\ pending[s][q].id \in Nat
          BY <2>1, <2>3, <4>1, StreamBasics
        <5>2. j # q
          BY <5>1
        <5>3. q < j => pending[s][q].id <= pending[s][j].id
          BY <1>9, <2>3 DEF Sorted
        <5> QED BY <4>2, <5>1, <5>2, <5>3
      <4>4. Len(batch[s]) + j < r
        BY <2>3, <4>2, <4>3
      <4>5. Len(batch[s]) + j \in DOMAIN h /\ h[Len(batch[s]) + j] = log[i]
        BY <1>2, <4>1
      <4> QED BY <4>4, <4>5 DEF Earlier
    <3>4. Kept(s) \subseteq Range(batch[s]) \cup Range(pending[s])
      BY DEF Kept
    <3> QED BY <3>1, <3>2, <3>3, <3>4
  <2> QED BY <1>10, <2>2, <2>3
<1>13. \E r \in Sent(s, h) : h[r] = log[k]
  BY <1>2, <1>6, <1>7, <1>11, <1>12, SentInOrder DEF CursorInv
<1> QED BY <1>4, <1>13 DEF Given

\* The hand-over from replay to live events skips none: as long as events are
\* announced in the order of the log, the cursor of a client moves over no row
\* of the log that it is not sent.
THEOREM CursorSkipsNothing == Spec => NothingSkipped
<1> DEFINE Inv == Base /\ CursorInv
           Skips == \A s \in Streams :
                      inOrder /\ fresh'[s] =>
                        \A k \in DOMAIN log :
                          log[k].id > lastSent[s] /\ log[k].id <= lastSent'[s] => log[k] \in Given(s)
<1>1. Init => Inv
  BY BaseStart, CursorStart
<1>2. Inv /\ [Next]_vars => Inv'
  BY BaseStep, CursorStep
<1>3. ASSUME Inv, [Next]_vars
      PROVE  Skips
  <2>1. SUFFICES ASSUME NEW s \in Streams, inOrder, fresh'[s], NEW k \in DOMAIN log,
                        log[k].id > lastSent[s], log[k].id <= lastSent'[s]
                 PROVE  log[k] \in Given(s)
    OBVIOUS
  <2>2. log[k].id \in Nat /\ lastSent[s] \in Nat /\ lastSent'[s] # lastSent[s]
        /\ lastSent \in [Streams -> Nat]
    BY <1>3, <2>1, StreamBasics DEF Base, TypeOK, StreamTypes
  <2>3. CASE \E t \in Streams : Deliver(t)
    <3>1. PICK t \in Streams : Deliver(t)
      BY <2>3
    <3>2. t = s
      <4>1. CASE open(t) /\ Replaying(t)
        BY <2>2, <3>1, <4>1 DEF Deliver
      <4>2. CASE ~(open(t) /\ Replaying(t))
        <5>1. SendAll(t, <<Head(wire[t])>>, phase[t])
          BY <3>1, <4>2 DEF Deliver
        <5>2. <<Head(wire[t])>> \in Seq(Frames)
          <6>1. wire[t] \in Seq(Frames) /\ wire[t] # <<>>
            BY <1>3, <3>1, StreamBasics DEF Deliver
          <6> QED BY <6>1
        <5> QED BY <1>3, <2>2, <5>1, <5>2, SendMoves DEF Base, TypeOK
      <4> QED BY <4>1, <4>2
    <3> QED BY <1>3, <2>1, <3>1, <3>2, LiveSkipsNothing
  <2>4. CASE \E t \in Streams : SendBatch(t)
    <3>1. PICK t \in Streams : SendBatch(t)
      BY <2>4
    <3>2. t = s
      <4>1. PICK next \in {"second", "beating"} : SendAll(t, batch[t] \o pending[t], next)
        BY <3>1 DEF SendBatch
      <4>2. batch[t] \o pending[t] \in Seq(Frames)
        BY <1>3, StreamBasics, Joined
      <4> QED BY <1>3, <2>2, <4>1, <4>2, SendMoves DEF Base, TypeOK
    <3> QED BY <1>3, <2>1, <3>1, <3>2, BatchSkipsNothing
  <2>5. CASE \E t \in Streams : Connect(t)
    <3>1. PICK t \in Streams : Connect(t)
      BY <2>5
    <3>2. lastSent'[s] = 0
      BY <2>2, <3>1 DEF Connect
    <3> QED BY <2>1, <2>2, <3>2
  <2>6. CASE \E t \in Streams : Disconnect(t) \/ PumpBusy(t) \/ ReadLog(t) \/ Heartbeat(t)
    BY <2>2, <2>6 DEF Disconnect, PumpBusy, ReadLog, Heartbeat
  <2>7. CASE ~ \E t \in Streams : \/ Connect(t) \/ Disconnect(t) \/ Deliver(t) \/ PumpBusy(t)
                                  \/ ReadLog(t) \/ SendBatch(t) \/ Heartbeat(t)
    BY <1>3, <2>2, <2>7, ApartSteps DEF Apart, CursorInv
  <2> QED BY <2>3, <2>4, <2>5, <2>6, <2>7
<1> HIDE DEF Inv, Skips
<1>4. Spec => [][Skips]_vars
  BY <1>1, <1>2, <1>3, PTL DEF Spec
<1> QED BY <1>4 DEF Skips, NothingSkipped

=============================================================================
