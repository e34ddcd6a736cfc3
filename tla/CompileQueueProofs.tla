------------------------- MODULE CompileQueueProofs -------------------------
(***************************************************************************)
(* What holds of the compile queue for any number of jobs, clients,        *)
(* workers and reconcilers.                                                *)
(***************************************************************************)
EXTENDS CompileQueue, TotalLemmas, TLAPS

\* Who is in the middle of something knows which job it is about.
GatewayBusy == \A p \in Procs : pc[p] \in Inside => on[p] \in Jobs
ClientBusy  == \A c \in Clients : answer[c] \in {"created", "joined"} => on[c] \in Jobs
WorkerBusy  == \A w \in Workers : wpc[w] # "idle" => won[w] \in Jobs

GatewayInv == GatewayTypes /\ GatewayBusy
ClientInv  == ClientTypes /\ ClientBusy
WorkerInv  == WorkerTypes /\ WorkerBusy
MishapsOK  == mishaps \in 0..MaxMishaps

TypeInv == GatewayInv /\ QueueTypes /\ StoreTypes /\ ClientInv /\ WorkerInv /\ MishapsOK

\* A step that leaves the variables of a part alone preserves the part.
LEMMA Untouched ==
  /\ QueueTypes /\ UNCHANGED queueVars => QueueTypes'
  /\ StoreTypes /\ UNCHANGED <<leases, marker, ledger, terminal, notify>> => StoreTypes'
  /\ ClientInv /\ UNCHANGED <<answer, ticket, on>> => ClientInv'
  /\ WorkerInv /\ UNCHANGED workerVars => WorkerInv'
  /\ MishapsOK /\ UNCHANGED mishaps => MishapsOK'
  /\ GatewayInv /\ UNCHANGED <<lock, pc, on, seen, strip>> => GatewayInv'
  BY DEF QueueTypes, StoreTypes, ClientInv, ClientTypes, ClientBusy, WorkerInv,
         WorkerTypes, WorkerBusy, MishapsOK, queueVars, workerVars, GatewayInv, GatewayTypes,
         GatewayBusy

\* What the code does to a job record leaves it a record.
LEMMA Records ==
  /\ NoRecord \in Record
  /\ \A n \in Nat : [NoRecord EXCEPT !.state = "waiting", !.gen = n,
                                      !.request = TRUE] \in Record
  BY DEF Record, NoRecord, InFlight, Ended, Results

LEMMA Stripped ==
  \A r \in Record : [r EXCEPT !.request = FALSE] \in Record
  BY DEF Record

LEMMA Stalled ==
  \A r \in Record :
    /\ [r EXCEPT !.state = "waiting", !.owner = NoOne, !.stalls = 1] \in Record
    /\ [r EXCEPT !.state = "failed", !.owner = NoOne] \in Record
  BY DEF Record, InFlight, Ended

LEMMA Taken ==
  \A r \in Record, w \in Workers :
    [r EXCEPT !.state = "active", !.owner = w] \in Record
  BY DEF Record, InFlight

LEMMA Finished ==
  \A r \in Record, s \in Ended, v \in {"none"} \cup Results :
    [r EXCEPT !.state = s, !.result = v, !.owner = NoOne] \in Record
  BY DEF Record

LEMMA Frames ==
  /\ NoFrame \in Frame
  /\ \A n \in Nat, v \in {"none"} \cup Results : [gen |-> n, result |-> v] \in Frame
  BY DEF Frame, NoFrame

LEMMA Outside == {"idle", "done", "gone", "dead"} \cap Inside = {}
  BY DEF Inside, SubmitSteps, CancelSteps, ReconcileSteps

LEMMA EnterTypes ==
  ASSUME GatewayInv, QueueTypes, NEW p \in Procs, NEW j \in Jobs,
         NEW step \in Inside, Enter(p, j, step), strip' \in [Procs -> BOOLEAN]
  PROVE  GatewayInv'
  BY DEF GatewayInv, GatewayTypes, GatewayBusy, QueueTypes, Enter

LEMMA StepTypes ==
  ASSUME GatewayInv, NEW p \in Procs, NEW from \in Inside, NEW to \in Inside,
         Step(p, from, to)
  PROVE  GatewayInv'
  BY DEF GatewayInv, GatewayTypes, GatewayBusy, Step

LEMMA LeaveTypes ==
  ASSUME GatewayInv, NEW p \in Procs, NEW to \in {"done", "gone", "idle"},
         Leave(p, to)
  PROVE  GatewayInv'
  BY Records, Outside DEF GatewayInv, GatewayTypes, GatewayBusy, Leave

LEMMA AddTypes ==
  ASSUME QueueTypes, NEW j \in Jobs, Add(j)
  PROVE  QueueTypes'
<1>1. CASE job[j].state # "none"
  BY <1>1 DEF Add, queueVars, QueueTypes
<1>2. CASE job[j].state = "none"
  <2> DEFINE n == lastGen[j] + 1
             r == [NoRecord EXCEPT !.state = "waiting", !.gen = n, !.request = TRUE]
  <2>1. n \in Nat
    BY DEF QueueTypes
  <2>2. r \in Record
    BY <2>1, Records
  <2>3. job' = [job EXCEPT ![j] = r] /\ lastGen' = [lastGen EXCEPT ![j] = n]
    BY <1>2 DEF Add, QueueTypes
  <2> HIDE DEF n, r
  <2> QED BY <2>1, <2>2, <2>3 DEF QueueTypes
<1> QED BY <1>1, <1>2

\* What a client is told; a ticket only with a job.
LEMMA AnswerTypes ==
  ASSUME ClientInv, NEW c \in Clients, NEW gen \in Nat,
         NEW what \in {"created", "joined", "served", "busy", "full", "error", "left",
                       "removed", "cancelling", "ended", "unknown", answer[c]},
         Answer(c, what, gen),
         \A d \in Clients \ {c} : on'[d] = on[d],
         what \in {"created", "joined"} => on'[c] \in Jobs
  PROVE  ClientInv'
  BY DEF ClientInv, ClientTypes, ClientBusy, Answer

LEMMA OnlyOwnJob ==
  ASSUME GatewayInv, NEW p \in Procs, NEW to,
         Leave(p, to)
  PROVE  /\ \A q \in Procs \ {p} : on'[q] = on[q]
         /\ to = "done" => on' = on
  BY DEF GatewayInv, GatewayTypes, Leave

LEMMA SubmitTypes ==
  ASSUME TypeInv, NEW c \in Clients,
         \/ \E j \in Jobs : SubmitBegin(c, j)
         \/ SubmitBusy(c)
         \/ SubmitState(c)
         \/ SubmitServe(c)
         \/ SubmitJoin(c)
         \/ SubmitRefused(c)
         \/ SubmitRemove(c)
         \/ SubmitUnledger(c)
         \/ SubmitReset(c)
         \/ SubmitAdmit(c)
         \/ SubmitMeasure(c)
         \/ SubmitReserve(c)
         \/ SubmitAdd(c)
         \/ SubmitAddFails(c)
         \/ SubmitUndo(c)
  PROVE  TypeInv'
<1>0. GatewayInv /\ QueueTypes /\ StoreTypes /\ ClientInv /\ WorkerInv /\ MishapsOK
  BY DEF TypeInv
<1> USE QueueConstants, <1>0 DEF Procs, queueVars, leaseVars, clientVars, workerVars
<1>1. ASSUME NEW j \in Jobs, SubmitBegin(c, j) PROVE TypeInv'
  <2>1. GatewayInv'
    BY <1>1, EnterTypes DEF SubmitBegin, GatewayInv, GatewayTypes, Inside,
       SubmitSteps, CancelSteps, ReconcileSteps
  <2>2. ClientInv'
    BY <1>1 DEF SubmitBegin, Enter, ClientInv, ClientTypes, ClientBusy, GatewayInv,
       GatewayTypes
  <2>3. QueueTypes' /\ StoreTypes' /\ WorkerInv' /\ MishapsOK'
    BY <1>1, Untouched DEF SubmitBegin
  <2> QED BY <2>1, <2>2, <2>3 DEF TypeInv
<1>2. CASE SubmitBusy(c)
  <2>1. GatewayInv'
    BY <1>2, Outside DEF SubmitBusy, GatewayInv, GatewayTypes, GatewayBusy
  <2>2. ClientInv'
    BY <1>2, AnswerTypes DEF SubmitBusy
  <2>3. QueueTypes' /\ StoreTypes' /\ WorkerInv' /\ MishapsOK'
    BY <1>2, Untouched DEF SubmitBusy
  <2> QED BY <2>1, <2>2, <2>3 DEF TypeInv
<1>3. CASE SubmitState(c)
  <2>1. GatewayInv'
    BY <1>3, StepTypes DEF SubmitState, Inside, SubmitSteps, CancelSteps,
       ReconcileSteps
  <2>2. QueueTypes' /\ StoreTypes' /\ ClientInv' /\ WorkerInv' /\ MishapsOK'
    BY <1>3, Untouched DEF SubmitState, Step
  <2> QED BY <2>1, <2>2 DEF TypeInv
<1>4. CASE SubmitServe(c)
  <2>1. GatewayInv'
    BY <1>4, LeaveTypes DEF SubmitServe, Inside, SubmitSteps, CancelSteps,
       ReconcileSteps
  <2>2. ClientInv'
    BY <1>4, AnswerTypes, OnlyOwnJob DEF SubmitServe, ClientInv, ClientTypes
  <2>3. StoreTypes'
    BY <1>4, Frames DEF SubmitServe, Clear, StoreTypes
  <2>4. QueueTypes' /\ WorkerInv' /\ MishapsOK'
    BY <1>4, Untouched DEF SubmitServe
  <2> QED BY <2>1, <2>2, <2>3, <2>4 DEF TypeInv
<1>5. CASE SubmitJoin(c)
  <2>1. GatewayInv'
    BY <1>5, LeaveTypes, StepTypes DEF SubmitJoin, Inside, SubmitSteps, CancelSteps,
       ReconcileSteps
  <2>2. on[c] \in Jobs /\ job[on[c]].gen \in Nat
    BY <1>5 DEF SubmitJoin, Step, Leave, Inside, SubmitSteps, CancelSteps,
       ReconcileSteps, GatewayInv, GatewayBusy, QueueTypes, Record
  <2>3. ClientInv'
    BY <1>5, AnswerTypes, OnlyOwnJob, Untouched, <2>2 DEF SubmitJoin, Step
  <2>4. StoreTypes'
    BY <1>5, Frames DEF SubmitJoin, Joinable, StoreTypes
  <2>5. QueueTypes' /\ WorkerInv' /\ MishapsOK'
    BY <1>5, Untouched DEF SubmitJoin, Leave, Step
  <2> QED BY <2>1, <2>2, <2>3, <2>4, <2>5 DEF TypeInv
<1>6. CASE SubmitRefused(c)
  <2>1. GatewayInv'
    BY <1>6, LeaveTypes DEF SubmitRefused, Inside, SubmitSteps, CancelSteps,
       ReconcileSteps
  <2>2. ClientInv'
    BY <1>6, AnswerTypes, OnlyOwnJob DEF SubmitRefused, ClientInv, ClientTypes
  <2>3. QueueTypes' /\ StoreTypes' /\ WorkerInv' /\ MishapsOK'
    BY <1>6, Untouched DEF SubmitRefused
  <2> QED BY <2>1, <2>2, <2>3 DEF TypeInv
<1>7. CASE SubmitRemove(c)
  <2>1. GatewayInv'
    BY <1>7, LeaveTypes, StepTypes DEF SubmitRemove, Inside, SubmitSteps,
       CancelSteps, ReconcileSteps
  <2>2. ClientInv'
    BY <1>7, AnswerTypes, OnlyOwnJob, Untouched DEF SubmitRemove, ClientInv,
       ClientTypes, Step
  <2>3. QueueTypes'
    <3>1. job' \in {job, [job EXCEPT ![on[c]] = NoRecord]} /\ lastGen' = lastGen
      BY <1>7 DEF SubmitRemove
    <3>2. NoRecord \in Record
      BY Records
    <3>3. job \in [Jobs -> Record] /\ lastGen \in [Jobs -> Nat]
      BY DEF TypeInv, QueueTypes
    <3> QED BY <3>1, <3>2, <3>3 DEF QueueTypes
  <2>4. StoreTypes' /\ WorkerInv' /\ MishapsOK'
    BY <1>7, Untouched DEF SubmitRemove
  <2> QED BY <2>1, <2>2, <2>3, <2>4 DEF TypeInv
<1>8. CASE SubmitUnledger(c)
  <2>1. GatewayInv'
    BY <1>8, StepTypes DEF SubmitUnledger, Inside, SubmitSteps, CancelSteps,
       ReconcileSteps
  <2>2. StoreTypes'
    BY <1>8, Frames DEF SubmitUnledger, Step, StoreTypes
  <2>3. QueueTypes' /\ ClientInv' /\ WorkerInv' /\ MishapsOK'
    BY <1>8, Untouched DEF SubmitUnledger, Step
  <2> QED BY <2>1, <2>2, <2>3 DEF TypeInv
<1>9. CASE SubmitReset(c)
  <2>1. GatewayInv'
    BY <1>9, StepTypes DEF SubmitReset, Inside, SubmitSteps, CancelSteps,
       ReconcileSteps
  <2>2. StoreTypes'
    BY <1>9, Frames DEF SubmitReset, ForgetEvents, Clear, StoreTypes
  <2>3. QueueTypes' /\ ClientInv' /\ WorkerInv' /\ MishapsOK'
    BY <1>9, Untouched DEF SubmitReset, Step
  <2> QED BY <2>1, <2>2, <2>3 DEF TypeInv
<1>10. CASE SubmitAdmit(c)
  <2>1. GatewayInv'
    BY <1>10, LeaveTypes, StepTypes DEF SubmitAdmit, Inside, SubmitSteps,
       CancelSteps, ReconcileSteps
  <2>2. ClientInv'
    BY <1>10, AnswerTypes, OnlyOwnJob, Untouched DEF SubmitAdmit, ClientInv,
       ClientTypes, Step
  <2>3. leases' \in {leases, [leases EXCEPT ![on[c]] = @ \cup {c}]}
    BY <1>10 DEF SubmitAdmit
  <2>4. marker' \in {marker, [marker EXCEPT ![on[c]] = FALSE]}
    BY <1>10 DEF SubmitAdmit
  <2>5. UNCHANGED <<ledger, terminal, notify>>
    BY <1>10 DEF SubmitAdmit
  <2>6. on[c] \in Jobs
    BY <1>10 DEF SubmitAdmit, Inside, SubmitSteps, CancelSteps, ReconcileSteps,
       GatewayInv, GatewayBusy
  <2>7. leases' \in [Jobs -> SUBSET Clients]
    BY <1>10, <2>3, <2>6 DEF StoreTypes
  <2>8. marker' \in [Jobs -> BOOLEAN]
    BY <1>10, <2>4, <2>6 DEF StoreTypes
  <2>9. StoreTypes'
    BY <1>10, <2>5, <2>7, <2>8 DEF StoreTypes
  <2>10. QueueTypes' /\ WorkerInv' /\ MishapsOK'
    BY <1>10, Untouched DEF SubmitAdmit
  <2> QED BY <2>1, <2>2, <2>3, <2>4, <2>5, <2>6, <2>7, <2>8, <2>9, <2>10 DEF TypeInv
<1>11. CASE SubmitMeasure(c)
  <2>1. GatewayInv'
    BY <1>11, StepTypes DEF SubmitMeasure, Inside, SubmitSteps, CancelSteps,
       ReconcileSteps
  <2>2. QueueTypes'
    BY <1>11, Records, Stripped DEF SubmitMeasure, QueueTypes
  <2>3. StoreTypes'
    BY <1>11, Frames DEF SubmitMeasure, Step, StoreTypes
  <2>4. ClientInv' /\ WorkerInv' /\ MishapsOK'
    BY <1>11, Untouched DEF SubmitMeasure, Step
  <2> QED BY <2>1, <2>2, <2>3, <2>4 DEF TypeInv
<1>15. CASE SubmitReserve(c)
  <2>1. GatewayInv'
    BY <1>15, StepTypes DEF SubmitReserve, Inside, SubmitSteps, CancelSteps,
       ReconcileSteps
  <2>2. StoreTypes'
    BY <1>15, Frames DEF SubmitReserve, Step, StoreTypes
  <2>3. QueueTypes' /\ ClientInv' /\ WorkerInv' /\ MishapsOK'
    BY <1>15, Untouched DEF SubmitReserve, Step
  <2> QED BY <2>1, <2>2, <2>3 DEF TypeInv
<1>12. CASE SubmitAdd(c)
  <2>1. GatewayInv'
    BY <1>12, LeaveTypes DEF SubmitAdd, Inside, SubmitSteps, CancelSteps,
       ReconcileSteps
  <2>2. on[c] \in Jobs
    BY <1>12 DEF SubmitAdd, Inside, SubmitSteps, CancelSteps, ReconcileSteps,
       GatewayInv, GatewayBusy
  <2>3. QueueTypes'
    BY <1>12, AddTypes, <2>2 DEF SubmitAdd
  <2>4. job'[on[c]].gen \in Nat
    BY <1>12, <2>2, <2>3 DEF QueueTypes, Record
  <2>5. ClientInv'
    BY <1>12, AnswerTypes, OnlyOwnJob, <2>2, <2>4 DEF SubmitAdd
  <2>6. StoreTypes' /\ WorkerInv' /\ MishapsOK'
    BY <1>12, Untouched DEF SubmitAdd
  <2> QED BY <2>1, <2>2, <2>3, <2>4, <2>5, <2>6 DEF TypeInv
<1>13. CASE SubmitAddFails(c)
  <2>1. GatewayInv'
    BY <1>13, StepTypes DEF SubmitAddFails, Inside, SubmitSteps, CancelSteps,
       ReconcileSteps
  <2>2. on[c] \in Jobs
    BY <1>13 DEF SubmitAddFails, Step, Inside, SubmitSteps, CancelSteps,
       ReconcileSteps, GatewayInv, GatewayBusy
  <2>3. QueueTypes'
    BY <1>13, AddTypes, Untouched, <2>2 DEF SubmitAddFails
  <2>4. MishapsOK'
    BY <1>13 DEF SubmitAddFails, Mishap, MishapsOK
  <2>5. StoreTypes' /\ ClientInv' /\ WorkerInv'
    BY <1>13, Untouched DEF SubmitAddFails, Step
  <2> QED BY <2>1, <2>2, <2>3, <2>4, <2>5 DEF TypeInv
<1>14. CASE SubmitUndo(c)
  <2>1. GatewayInv'
    BY <1>14, LeaveTypes DEF SubmitUndo, Inside, SubmitSteps, CancelSteps,
       ReconcileSteps
  <2>2. ClientInv'
    BY <1>14, AnswerTypes, OnlyOwnJob DEF SubmitUndo, ClientInv, ClientTypes
  <2>3. StoreTypes'
    BY <1>14, Frames DEF SubmitUndo, Clear, StoreTypes
  <2>4. QueueTypes' /\ WorkerInv' /\ MishapsOK'
    BY <1>14, Untouched DEF SubmitUndo
  <2> QED BY <2>1, <2>2, <2>3, <2>4 DEF TypeInv
<1> QED BY <1>1, <1>2, <1>3, <1>4, <1>5, <1>6, <1>7, <1>8, <1>9, <1>10, <1>11, <1>12, <1>13, <1>14,
          <1>15

LEMMA CancelTypes ==
  ASSUME TypeInv, NEW c \in Clients,
         \/ CancelBegin(c)
         \/ CancelState(c)
         \/ CancelRelease(c)
         \/ CancelLease(c)
         \/ CancelRecheck(c)
         \/ CancelRemove(c)
         \/ CancelPurge(c)
         \/ \E j \in Jobs : LeaseExpires(c, j)
  PROVE  TypeInv'
<1>0. GatewayInv /\ QueueTypes /\ StoreTypes /\ ClientInv /\ WorkerInv /\ MishapsOK
  BY DEF TypeInv
<1> USE QueueConstants, <1>0 DEF Procs, queueVars, leaseVars, clientVars, workerVars
<1>1. CASE CancelBegin(c)
  <2>1. on[c] \in Jobs
    BY <1>1 DEF CancelBegin, ClientInv, ClientBusy
  <2>2. GatewayInv'
    BY <1>1, EnterTypes, <2>1 DEF CancelBegin, GatewayInv, GatewayTypes, Inside,
       SubmitSteps, CancelSteps, ReconcileSteps
  <2>3. ClientInv'
    BY <1>1, <2>1 DEF CancelBegin, Enter, ClientInv, ClientTypes, ClientBusy,
       GatewayInv, GatewayTypes
  <2>4. QueueTypes' /\ StoreTypes' /\ WorkerInv' /\ MishapsOK'
    BY <1>1, Untouched DEF CancelBegin
  <2> QED BY <2>1, <2>2, <2>3, <2>4 DEF TypeInv
<1>2. CASE CancelState(c)
  <2>1. GatewayInv'
    BY <1>2, LeaveTypes, StepTypes DEF CancelState, Inside, SubmitSteps,
       CancelSteps, ReconcileSteps
  <2>2. ClientInv'
    BY <1>2, AnswerTypes, OnlyOwnJob, Untouched DEF CancelState, ClientInv,
       ClientTypes, Step
  <2>3. QueueTypes' /\ StoreTypes' /\ WorkerInv' /\ MishapsOK'
    BY <1>2, Untouched DEF CancelState, Step
  <2> QED BY <2>1, <2>2, <2>3 DEF TypeInv
<1>3. CASE CancelRelease(c)
  <2>1. GatewayInv'
    BY <1>3, LeaveTypes DEF CancelRelease, Inside, SubmitSteps, CancelSteps,
       ReconcileSteps
  <2>2. ClientInv'
    BY <1>3, AnswerTypes, OnlyOwnJob DEF CancelRelease, ClientInv, ClientTypes
  <2>3. StoreTypes'
    BY <1>3 DEF CancelRelease, StoreTypes
  <2>4. QueueTypes' /\ WorkerInv' /\ MishapsOK'
    BY <1>3, Untouched DEF CancelRelease
  <2> QED BY <2>1, <2>2, <2>3, <2>4 DEF TypeInv
<1>4. CASE CancelLease(c)
  <2>1. GatewayInv'
    BY <1>4, LeaveTypes, StepTypes DEF CancelLease, Inside, SubmitSteps,
       CancelSteps, ReconcileSteps
  <2>2. ClientInv'
    BY <1>4, AnswerTypes, OnlyOwnJob DEF CancelLease, ClientInv, ClientTypes,
       ClientBusy, Step
  <2>3. StoreTypes'
    BY <1>4 DEF CancelLease, StoreTypes
  <2>4. QueueTypes' /\ WorkerInv' /\ MishapsOK'
    BY <1>4, Untouched DEF CancelLease
  <2> QED BY <2>1, <2>2, <2>3, <2>4 DEF TypeInv
<1>5. CASE CancelRecheck(c)
  <2>1. GatewayInv'
    BY <1>5, LeaveTypes, StepTypes DEF CancelRecheck, Inside, SubmitSteps,
       CancelSteps, ReconcileSteps
  <2>2. ClientInv'
    BY <1>5, AnswerTypes, OnlyOwnJob, Untouched DEF CancelRecheck, ClientInv,
       ClientTypes, Step
  <2>3. QueueTypes' /\ StoreTypes' /\ WorkerInv' /\ MishapsOK'
    BY <1>5, Untouched DEF CancelRecheck, Step
  <2> QED BY <2>1, <2>2, <2>3 DEF TypeInv
<1>6. CASE CancelRemove(c)
  <2>1. GatewayInv'
    BY <1>6, LeaveTypes, StepTypes DEF CancelRemove, Inside, SubmitSteps,
       CancelSteps, ReconcileSteps
  <2>2. ClientInv'
    BY <1>6, AnswerTypes, OnlyOwnJob, Untouched DEF CancelRemove, ClientInv,
       ClientTypes, Step
  <2>3. QueueTypes'
    <3>1. job' \in {job, [job EXCEPT ![on[c]] = NoRecord]} /\ lastGen' = lastGen
      BY <1>6 DEF CancelRemove
    <3>2. NoRecord \in Record
      BY Records
    <3>3. job \in [Jobs -> Record] /\ lastGen \in [Jobs -> Nat]
      BY DEF TypeInv, QueueTypes
    <3> QED BY <3>1, <3>2, <3>3 DEF QueueTypes
  <2>4. StoreTypes' /\ WorkerInv' /\ MishapsOK'
    BY <1>6, Untouched DEF CancelRemove, Step
  <2> QED BY <2>1, <2>2, <2>3, <2>4 DEF TypeInv
<1>7. CASE CancelPurge(c)
  <2>1. GatewayInv'
    BY <1>7, LeaveTypes DEF CancelPurge, Inside, SubmitSteps, CancelSteps,
       ReconcileSteps
  <2>2. ClientInv'
    BY <1>7, AnswerTypes, OnlyOwnJob DEF CancelPurge, ClientInv, ClientTypes
  <2>3. StoreTypes'
    BY <1>7, Frames DEF CancelPurge, ForgetEvents, Clear, StoreTypes
  <2>4. QueueTypes' /\ WorkerInv' /\ MishapsOK'
    BY <1>7, Untouched DEF CancelPurge
  <2> QED BY <2>1, <2>2, <2>3, <2>4 DEF TypeInv
<1>8. ASSUME NEW j \in Jobs, LeaseExpires(c, j) PROVE TypeInv'
  <2>1. ClientInv'
    BY <1>8 DEF LeaseExpires, Answer, ClientInv, ClientTypes, ClientBusy
  <2>2. StoreTypes'
    BY <1>8 DEF LeaseExpires, StoreTypes
  <2>3. GatewayInv' /\ QueueTypes' /\ WorkerInv' /\ MishapsOK'
    BY <1>8, Untouched DEF LeaseExpires
  <2> QED BY <2>1, <2>2, <2>3 DEF TypeInv
<1> QED BY <1>1, <1>2, <1>3, <1>4, <1>5, <1>6, <1>7, <1>8

LEMMA WorkerStepTypes ==
  ASSUME TypeInv, NEW w \in Workers,
         \/ \E j \in Jobs : Take(w, j)
         \/ Prepare(w)
         \/ PrepareFails(w)
         \/ Poll(w)
         \/ Deadline(w)
         \/ Shutdown(w)
         \/ Decide(w)
         \/ Finish(w)
         \/ Crash(w)
  PROVE  TypeInv'
<1>0. GatewayInv /\ QueueTypes /\ StoreTypes /\ ClientInv /\ WorkerInv /\ MishapsOK
  BY DEF TypeInv
<1> USE QueueConstants, <1>0 DEF Procs, queueVars, leaseVars, clientVars, workerVars
<1>1. ASSUME NEW j \in Jobs, Take(w, j) PROVE TypeInv'
  <2>1. \E rec \in Record : job' = [job EXCEPT ![j] = rec] /\ lastGen' = lastGen
    BY <1>1, Taken DEF Take, QueueTypes
  <2>2. QueueTypes'
    BY <1>1, <2>1 DEF QueueTypes
  <2>3. WorkerInv'
    BY <1>1 DEF Take, WorkerInv, WorkerTypes, WorkerBusy, QueueTypes, Record
  <2>4. GatewayInv' /\ StoreTypes' /\ ClientInv' /\ MishapsOK'
    BY <1>1, Untouched DEF Take
  <2> QED BY <2>1, <2>2, <2>3, <2>4 DEF TypeInv
<1>2. CASE Prepare(w)
  <2>1. StoreTypes'
    BY <1>2, Frames DEF Prepare, StoreTypes, StoreTypes
  <2>2. WorkerInv'
    BY <1>2 DEF Prepare, WorkerInv, WorkerTypes, WorkerBusy
  <2>3. GatewayInv' /\ QueueTypes' /\ ClientInv' /\ MishapsOK'
    BY <1>2, Untouched DEF Prepare
  <2> QED BY <2>1, <2>2, <2>3 DEF TypeInv
<1>3. CASE PrepareFails(w)
  <2>1. WorkerInv'
    BY <1>3 DEF PrepareFails, Return, WorkerInv, WorkerTypes, WorkerBusy
  <2>2. GatewayInv' /\ QueueTypes' /\ StoreTypes' /\ ClientInv' /\ MishapsOK'
    BY <1>3, Untouched DEF PrepareFails, Return
  <2> QED BY <2>1, <2>2 DEF TypeInv
<1>4. CASE Poll(w)
  <2>1. StoreTypes'
    BY <1>4 DEF Poll, StoreTypes
  <2>2. WorkerInv'
    BY <1>4 DEF Poll, WorkerInv, WorkerTypes, WorkerBusy
  <2>3. GatewayInv' /\ QueueTypes' /\ ClientInv' /\ MishapsOK'
    BY <1>4, Untouched DEF Poll
  <2> QED BY <2>1, <2>2, <2>3 DEF TypeInv
<1>5. CASE Deadline(w)
  <2>1. WorkerInv'
    BY <1>5 DEF Deadline, Aborted, WorkerInv, WorkerTypes, WorkerBusy
  <2>2. GatewayInv' /\ QueueTypes' /\ StoreTypes' /\ ClientInv' /\ MishapsOK'
    BY <1>5, Untouched DEF Deadline, Aborted
  <2> QED BY <2>1, <2>2 DEF TypeInv
<1>6. CASE Shutdown(w)
  <2>1. WorkerInv'
    BY <1>6 DEF Shutdown, Aborted, WorkerInv, WorkerTypes, WorkerBusy
  <2>2. MishapsOK'
    BY <1>6 DEF Shutdown, Mishap, MishapsOK
  <2>3. GatewayInv' /\ QueueTypes' /\ StoreTypes' /\ ClientInv'
    BY <1>6, Untouched DEF Shutdown, Aborted
  <2> QED BY <2>1, <2>2, <2>3 DEF TypeInv
<1>7. CASE Decide(w)
  <2>1. WorkerInv'
    BY <1>7 DEF Decide, Return, WorkerInv, WorkerTypes, WorkerBusy, Results
  <2>2. GatewayInv' /\ QueueTypes' /\ StoreTypes' /\ ClientInv' /\ MishapsOK'
    BY <1>7, Untouched DEF Decide, Return
  <2> QED BY <2>1, <2>2 DEF TypeInv
<1>8. CASE Finish(w)
  <2>1. WorkerInv'
    BY <1>8 DEF Finish, Rest, WorkerInv, WorkerTypes, WorkerBusy
  <2>2. won[w] \in Jobs /\ ReturnValue(w) \in {"none"} \cup Results
    BY <1>8 DEF Finish, ReturnValue, WorkerInv, WorkerTypes, WorkerBusy
  <2>3. \E rec \in Record : job' \in {job, [job EXCEPT ![won[w]] = rec]} /\ lastGen' = lastGen
    <3>1. CASE OwnsJob(w)
      <4> DEFINE rec == [job[won[w]] EXCEPT
                           !.state  = IF ret[w] = "fail" THEN "failed" ELSE "completed",
                           !.result = ReturnValue(w), !.owner = NoOne]
      <4>1. job' = [job EXCEPT ![won[w]] = rec] /\ lastGen' = lastGen
        BY <1>8, <3>1 DEF Finish
      <4>2. job[won[w]] \in Record
        BY <2>2 DEF QueueTypes
      <4>3. rec \in Record
        BY <2>2, <4>2, Finished DEF Ended
      <4> QED BY <4>1, <4>3
    <3>2. CASE ~OwnsJob(w)
      <4>1. job' = job /\ lastGen' = lastGen
        BY <1>8, <3>2 DEF Finish
      <4> QED BY <2>2, <4>1 DEF QueueTypes
    <3> QED BY <3>1, <3>2
  <2>4. QueueTypes'
    BY <1>8, <2>3 DEF QueueTypes
  <2>5. StoreTypes'
    BY <1>8, <2>2 DEF Finish, StoreTypes
  <2>6. GatewayInv' /\ ClientInv' /\ MishapsOK'
    BY <1>8, Untouched DEF Finish
  <2> QED BY <2>1, <2>2, <2>3, <2>4, <2>5, <2>6 DEF TypeInv
<1>9. CASE Crash(w)
  <2>1. WorkerInv'
    BY <1>9 DEF Crash, Rest, WorkerInv, WorkerTypes, WorkerBusy
  <2>2. MishapsOK'
    BY <1>9 DEF Crash, Mishap, MishapsOK
  <2>3. GatewayInv' /\ QueueTypes' /\ StoreTypes' /\ ClientInv'
    BY <1>9, Untouched DEF Crash
  <2> QED BY <2>1, <2>2, <2>3 DEF TypeInv
<1> QED BY <1>1, <1>2, <1>3, <1>4, <1>5, <1>6, <1>7, <1>8, <1>9

LEMMA ReconcileTypes ==
  ASSUME TypeInv, NEW r \in Reconcilers,
         \/ \E j \in Jobs : ReconcileBegin(r, j)
         \/ ReconcileState(r)
         \/ ReconcileAppend(r)
         \/ ReconcileStrip(r)
  PROVE  TypeInv'
<1>0. GatewayInv /\ QueueTypes /\ StoreTypes /\ ClientInv /\ WorkerInv /\ MishapsOK
  BY DEF TypeInv
<1> USE QueueConstants, <1>0 DEF Procs, queueVars, leaseVars, clientVars, workerVars
<1>1. ASSUME NEW j \in Jobs, ReconcileBegin(r, j) PROVE TypeInv'
  <2>1. "rstate" \in Inside /\ r \in Procs
    BY <1>1 DEF Inside, SubmitSteps, CancelSteps, ReconcileSteps
  <2>2. strip' \in [Procs -> BOOLEAN]
    BY <1>1 DEF ReconcileBegin, GatewayInv, GatewayTypes
  <2>3. GatewayInv'
    BY <1>1, EnterTypes, <2>1, <2>2 DEF ReconcileBegin
  <2>4. StoreTypes'
    BY <1>1 DEF ReconcileBegin, StoreTypes
  <2>5. ClientInv'
    BY <1>1 DEF ReconcileBegin, Enter, ClientInv, ClientTypes, ClientBusy,
       GatewayInv, GatewayTypes
  <2>6. QueueTypes' /\ WorkerInv' /\ MishapsOK'
    BY <1>1, Untouched DEF ReconcileBegin
  <2> QED BY <2>1, <2>2, <2>3, <2>4, <2>5, <2>6 DEF TypeInv
<1>2. CASE ReconcileState(r)
  <2>1. GatewayInv'
    BY <1>2, LeaveTypes, StepTypes DEF ReconcileState, Inside, SubmitSteps,
       CancelSteps, ReconcileSteps
  <2>2. StoreTypes'
    BY <1>2, Frames DEF ReconcileState, Step, StoreTypes
  <2>3. ClientInv'
    BY <1>2, OnlyOwnJob DEF ReconcileState, Step, ClientInv, ClientTypes, ClientBusy
  <2>4. QueueTypes' /\ WorkerInv' /\ MishapsOK'
    BY <1>2, Untouched DEF ReconcileState
  <2> QED BY <2>1, <2>2, <2>3, <2>4 DEF TypeInv
<1>3. CASE ReconcileAppend(r)
  <2>1. GatewayInv'
    BY <1>3, LeaveTypes, StepTypes DEF ReconcileAppend, Inside, SubmitSteps,
       CancelSteps, ReconcileSteps
  <2>2. seen[r].gen \in Nat /\ seen[r].result \in {"none"} \cup Results
    BY <1>3 DEF GatewayInv, GatewayTypes, Record
  <2>3. StoreTypes'
    BY <1>3, Frames, <2>2 DEF ReconcileAppend, Publish, StoreTypes, Results
  <2>4. ClientInv'
    BY <1>3, OnlyOwnJob DEF ReconcileAppend, Step, ClientInv, ClientTypes,
       ClientBusy
  <2>5. QueueTypes' /\ WorkerInv' /\ MishapsOK'
    BY <1>3, Untouched DEF ReconcileAppend
  <2> QED BY <2>1, <2>2, <2>3, <2>4, <2>5 DEF TypeInv
<1>4. CASE ReconcileStrip(r)
  <2>1. GatewayInv'
    BY <1>4, LeaveTypes DEF ReconcileStrip, Inside, SubmitSteps, CancelSteps,
       ReconcileSteps
  <2>2. QueueTypes'
    BY <1>4, Stripped DEF ReconcileStrip, QueueTypes
  <2>3. StoreTypes'
    BY <1>4 DEF ReconcileStrip, StoreTypes
  <2>4. ClientInv'
    BY <1>4, OnlyOwnJob DEF ReconcileStrip, ClientInv, ClientTypes, ClientBusy
  <2>5. WorkerInv' /\ MishapsOK'
    BY <1>4, Untouched DEF ReconcileStrip
  <2> QED BY <2>1, <2>2, <2>3, <2>4, <2>5 DEF TypeInv
<1> QED BY <1>1, <1>2, <1>3, <1>4

LEMMA OtherTypes ==
  ASSUME TypeInv,
         \/ \E j \in Jobs : Stall(j)
         \/ \E j \in Jobs : NotifyLost(j)
         \/ \E p \in Procs : Die(p)
         \/ LockExpires
  PROVE  TypeInv'
<1>0. GatewayInv /\ QueueTypes /\ StoreTypes /\ ClientInv /\ WorkerInv /\ MishapsOK
  BY DEF TypeInv
<1> USE QueueConstants, <1>0 DEF Procs, queueVars, leaseVars, clientVars, workerVars
<1>1. ASSUME NEW j \in Jobs, Stall(j) PROVE TypeInv'
  <2>1. job[j] \in Record
    BY <1>1 DEF QueueTypes
  <2>2. /\ [job[j] EXCEPT !.state = "waiting", !.owner = NoOne, !.stalls = 1] \in Record
        /\ [job[j] EXCEPT !.state = "failed", !.owner = NoOne] \in Record
    BY <2>1, Stalled
  <2>3. QueueTypes'
    <3>1. CASE job[j].stalls = 0
      <4>1. job' = [job EXCEPT ![j] = [job[j] EXCEPT !.state = "waiting",
                                                     !.owner = NoOne, !.stalls = 1]]
        BY <1>1, <3>1 DEF Stall
      <4>2. job \in [Jobs -> Record] /\ lastGen' = lastGen /\ lastGen \in [Jobs -> Nat]
        BY <1>1 DEF Stall, QueueTypes
      <4> QED BY <4>1, <4>2, <2>2 DEF QueueTypes
    <3>2. CASE job[j].stalls # 0
      <4>1. job' = [job EXCEPT ![j] = [job[j] EXCEPT !.state = "failed",
                                                     !.owner = NoOne]]
        BY <1>1, <3>2 DEF Stall
      <4>2. job \in [Jobs -> Record] /\ lastGen' = lastGen /\ lastGen \in [Jobs -> Nat]
        BY <1>1 DEF Stall, QueueTypes
      <4> QED BY <4>1, <4>2, <2>2 DEF QueueTypes
    <3> QED BY <3>1, <3>2
  <2>4. StoreTypes'
    BY <1>1 DEF Stall, StoreTypes
  <2>5. mishaps' \in {mishaps, mishaps + 1} /\ (mishaps' # mishaps => mishaps < MaxMishaps)
    BY <1>1 DEF Stall, Mishap
  <2>6. MishapsOK'
    BY <1>1, <2>5 DEF MishapsOK
  <2>7. GatewayInv' /\ ClientInv' /\ WorkerInv'
    BY <1>1, Untouched DEF Stall
  <2> QED BY <2>1, <2>2, <2>3, <2>4, <2>5, <2>6, <2>7 DEF TypeInv
<1>2. ASSUME NEW j \in Jobs, NotifyLost(j) PROVE TypeInv'
  <2>1. StoreTypes'
    BY <1>2 DEF NotifyLost, StoreTypes
  <2>2. MishapsOK'
    BY <1>2 DEF NotifyLost, Mishap, MishapsOK
  <2>3. GatewayInv' /\ QueueTypes' /\ ClientInv' /\ WorkerInv'
    BY <1>2, Untouched DEF NotifyLost
  <2> QED BY <2>1, <2>2, <2>3 DEF TypeInv
<1>3. ASSUME NEW p \in Procs, Die(p) PROVE TypeInv'
  <2>1. GatewayInv'
    BY <1>3, Outside DEF Die, GatewayInv, GatewayTypes, GatewayBusy
  <2>2. MishapsOK'
    BY <1>3 DEF Die, Mishap, MishapsOK
  <2>3. QueueTypes' /\ StoreTypes' /\ ClientInv' /\ WorkerInv'
    BY <1>3, Untouched DEF Die
  <2> QED BY <2>1, <2>2, <2>3 DEF TypeInv
<1>4. CASE LockExpires
  <2>1. GatewayInv'
    BY <1>4, Outside DEF LockExpires, GatewayInv, GatewayTypes, GatewayBusy
  <2>2. MishapsOK'
    BY <1>4 DEF LockExpires, Mishap, MishapsOK
  <2>3. QueueTypes' /\ StoreTypes' /\ ClientInv' /\ WorkerInv'
    BY <1>4, Untouched DEF LockExpires
  <2> QED BY <2>1, <2>2, <2>3 DEF TypeInv
<1> QED BY <1>1, <1>2, <1>3, <1>4

LEMMA TypeInit == Init => TypeInv
<1> SUFFICES ASSUME Init PROVE TypeInv
  OBVIOUS
<1>1. GatewayInv
  BY Records, Outside DEF Init, GatewayInv, GatewayTypes, GatewayBusy
<1>2. QueueTypes /\ StoreTypes
  BY Records, Frames DEF Init, QueueTypes, StoreTypes
<1>3. ClientInv /\ WorkerInv
  BY DEF Init, ClientInv, ClientTypes, ClientBusy, WorkerInv, WorkerTypes, WorkerBusy
<1>4. MishapsOK
  BY QueueConstants DEF Init, MishapsOK
<1> QED BY <1>1, <1>2, <1>3, <1>4 DEF TypeInv

LEMMA TypeNext == TypeInv /\ [Next]_vars => TypeInv'
<1> SUFFICES ASSUME TypeInv, [Next]_vars PROVE TypeInv'
  OBVIOUS
<1>1. CASE UNCHANGED vars
  BY <1>1, Untouched DEF vars, TypeInv, queueVars, workerVars
<1>2. CASE Next
  BY <1>2, SubmitTypes, CancelTypes, WorkerStepTypes, ReconcileTypes, OtherTypes
  DEF Next
<1> QED BY <1>1, <1>2

\* Every variable keeps to the values the code can produce, for any number of
\* jobs, clients and workers; and whoever is in the middle of something knows
\* which job it is about.
THEOREM TypeCorrect == Spec => []TypeOK
<1>1. Spec => []TypeInv
  BY TypeInit, TypeNext, PTL DEF Spec
<1>2. TypeInv => TypeOK
  BY DEF TypeInv, TypeOK, GatewayInv, ClientInv, WorkerInv, MishapsOK
<1> QED BY <1>1, <1>2, PTL

(***************************************************************************)
(* Mutual exclusion.  It rests on the one thing the code does not check:   *)
(* that the lock's TTL outlasts its holder.                                *)
(***************************************************************************)
LEMMA EnterExcludes ==
  ASSUME GatewayInv, MutualExclusion, NEW p \in Procs, NEW j, NEW step,
         Enter(p, j, step)
  PROVE  MutualExclusion'
  BY QueueConstants DEF GatewayInv, GatewayTypes, MutualExclusion, Enter, LockFree

LEMMA StepExcludes ==
  ASSUME GatewayInv, MutualExclusion, NEW p \in Procs, NEW from \in Inside, NEW to,
         Step(p, from, to)
  PROVE  MutualExclusion'
  BY DEF GatewayInv, GatewayTypes, MutualExclusion, Step

LEMMA LeaveExcludes ==
  ASSUME GatewayInv, MutualExclusion, NEW p \in Procs, pc[p] \in Inside,
         NEW to \in {"done", "gone", "idle"}, Leave(p, to)
  PROVE  MutualExclusion'
  BY Outside DEF GatewayInv, GatewayTypes, MutualExclusion, Leave

LEMMA ExclusionNext ==
  ASSUME ~LockMayExpire, GatewayInv, MutualExclusion, [Next]_vars
  PROVE  MutualExclusion'
<1> USE QueueConstants DEF Procs
<1>1. ASSUME NEW c \in Clients, NEW j \in Jobs, SubmitBegin(c, j)
      PROVE  MutualExclusion'
  BY <1>1, EnterExcludes DEF SubmitBegin
<1>2. ASSUME NEW c \in Clients, CancelBegin(c)
      PROVE  MutualExclusion'
  BY <1>2, EnterExcludes DEF CancelBegin
<1>3. ASSUME NEW r \in Reconcilers, NEW j \in Jobs, ReconcileBegin(r, j)
      PROVE  MutualExclusion'
  BY <1>3, EnterExcludes DEF ReconcileBegin
<1>4. ASSUME NEW c \in Clients, SubmitBusy(c)
      PROVE  MutualExclusion'
  BY <1>4, Outside DEF SubmitBusy, GatewayInv, GatewayTypes, MutualExclusion
<1>5. ASSUME NEW c \in Clients,
             \/ SubmitState(c) \/ SubmitUnledger(c) \/ SubmitReset(c)
             \/ SubmitMeasure(c) \/ SubmitReserve(c) \/ SubmitAddFails(c)
      PROVE  MutualExclusion'
  BY <1>5, StepExcludes
  DEF SubmitState, SubmitUnledger, SubmitReset, SubmitMeasure, SubmitReserve,
      SubmitAddFails,      Inside, SubmitSteps
<1>6. ASSUME NEW c \in Clients,
             \/ SubmitServe(c) \/ SubmitRefused(c) \/ SubmitAdd(c) \/ SubmitUndo(c)
             \/ CancelRelease(c) \/ CancelPurge(c)
      PROVE  MutualExclusion'
  BY <1>6, LeaveExcludes
  DEF SubmitServe, SubmitRefused, SubmitAdd, SubmitUndo, CancelRelease, CancelPurge,
      Inside, SubmitSteps, CancelSteps
<1>7. ASSUME NEW c \in Clients,
             SubmitJoin(c) \/ SubmitRemove(c) \/ SubmitAdmit(c)
      PROVE  MutualExclusion'
  BY <1>7, StepExcludes, LeaveExcludes
  DEF SubmitJoin, SubmitRemove, SubmitAdmit, Inside, SubmitSteps
<1>8. ASSUME NEW c \in Clients,
             \/ CancelState(c) \/ CancelLease(c) \/ CancelRecheck(c) \/ CancelRemove(c)
      PROVE  MutualExclusion'
  BY <1>8, StepExcludes, LeaveExcludes
  DEF CancelState, CancelLease, CancelRecheck, CancelRemove, Inside, CancelSteps
<1>9. ASSUME NEW r \in Reconcilers,
             ReconcileState(r) \/ ReconcileAppend(r) \/ ReconcileStrip(r)
      PROVE  MutualExclusion'
  BY <1>9, StepExcludes, LeaveExcludes
  DEF ReconcileState, ReconcileAppend, ReconcileStrip, Inside, ReconcileSteps
<1>10. ASSUME NEW p \in Procs, Die(p)
       PROVE  MutualExclusion'
  BY <1>10, Outside DEF Die, GatewayInv, GatewayTypes, MutualExclusion
<1>11. CASE LockExpires
  BY <1>11, Outside DEF LockExpires, GatewayInv, GatewayTypes, MutualExclusion
<1>12. ASSUME UNCHANGED <<lock, pc>>
       PROVE  MutualExclusion'
  BY <1>12 DEF MutualExclusion
<1>13. ASSUME NEW c \in Clients, NEW j \in Jobs, LeaseExpires(c, j)
       PROVE  UNCHANGED <<lock, pc>>
  BY <1>13 DEF LeaseExpires
<1>14. ASSUME NEW w \in Workers,
              \/ \E j \in Jobs : Take(w, j)
              \/ Prepare(w) \/ PrepareFails(w) \/ Poll(w) \/ Deadline(w)
              \/ Shutdown(w) \/ Decide(w) \/ Finish(w) \/ Crash(w)
       PROVE  UNCHANGED <<lock, pc>>
  BY <1>14 DEF Take, Prepare, PrepareFails, Return, Poll, Deadline, Aborted,
               Shutdown, Decide, Finish, Crash
<1>15. ASSUME NEW j \in Jobs, Stall(j) \/ NotifyLost(j)
       PROVE  UNCHANGED <<lock, pc>>
  BY <1>15 DEF Stall, NotifyLost
<1>16. CASE UNCHANGED vars
  BY <1>12, <1>16 DEF vars
<1> QED
  BY <1>1, <1>2, <1>3, <1>4, <1>5, <1>6, <1>7, <1>8, <1>9, <1>10, <1>11, <1>12,
     <1>13, <1>14, <1>15, <1>16 DEF Next

\* If a lock never expires under a holder that is still at work, two gateway
\* handlers or reconcilers are never inside the critical section together
\* (RedisCompileQueueLock.run).
THEOREM LockExcludes == ~LockMayExpire => (Spec => []MutualExclusion)
<1> SUFFICES ASSUME ~LockMayExpire PROVE Spec => []MutualExclusion
  OBVIOUS
<1> DEFINE Inv == TypeInv /\ MutualExclusion
<1>1. Init => Inv
  BY TypeInit, Outside DEF Init, MutualExclusion
<1>2. Inv /\ [Next]_vars => Inv'
  BY TypeNext, ExclusionNext DEF TypeInv
<1>3. Inv => MutualExclusion
  OBVIOUS
<1> QED BY <1>1, <1>2, <1>3, PTL DEF Spec

(***************************************************************************)
(* The request-byte ledger.                                                *)
(***************************************************************************)
\* Steps at which the holder of the lock knows that its job has no record.
Gone == {"unledger", "reset", "admit", "measure", "reserve", "add", "undo", "cpurge"}

NoRecordNoRequest == \A j \in Jobs : job[j].state = "none" => ~job[j].request

HolderKnows ==
  \A c \in Clients :
    /\ pc[c] \in Gone => job[on[c]].state = "none"
    /\ pc[c] = "state" /\ seen[c].state = "none" => job[on[c]].state = "none"
    /\ pc[c] = "add" => ledger[on[c]] = RequestBytes[on[c]]

RowInv == StoredRequestHasRow /\ NoRecordNoRequest /\ HolderKnows

\* Workers and BullMQ neither create nor remove a record, nor touch a request.
LEMMA RowWorkers ==
  ASSUME RowInv, \A j \in Jobs : /\ job'[j].request = job[j].request
                                 /\ (job'[j].state = "none") = (job[j].state = "none"),
         \A c \in Clients : pc[c] \in Gone \cup {"state"} => on[c] \in Jobs,
         UNCHANGED <<ledger, pc, on, seen>>
  PROVE  RowInv'
  BY DEF RowInv, StoredRequestHasRow, NoRecordNoRequest, HolderKnows, Gone

LEMMA OneInside ==
  ASSUME MutualExclusion, NEW p \in Procs, pc[p] \in Inside
  PROVE  \A q \in Procs \ {p} : pc[q] \notin Inside
  BY DEF MutualExclusion

LEMMA GoneInside ==
  /\ Gone \cup {"state"} \subseteq Inside
  /\ {"idle", "done", "gone", "dead", "serve", "join", "refused", "remove"} \cap Gone = {}
  BY DEF Gone, Inside, SubmitSteps, CancelSteps, ReconcileSteps

LEMMA RowNext ==
  ASSUME ~LockMayExpire, ~AddMayBeLost, TypeInv, MutualExclusion, RowInv, [Next]_vars
  PROVE  RowInv'
<1>0. /\ \A c \in Clients : pc[c] \in Gone \cup {"state"} => on[c] \in Jobs
      /\ job \in [Jobs -> Record] /\ ledger \in [Jobs -> Nat]
  BY GoneInside DEF TypeInv, GatewayInv, GatewayBusy, QueueTypes, StoreTypes, Procs
<1> USE QueueConstants, <1>0 DEF Procs, queueVars, leaseVars, clientVars, workerVars
<1>1. ASSUME NEW c \in Clients, NEW j \in Jobs, SubmitBegin(c, j)
      PROVE  RowInv'
  BY <1>1
  DEF SubmitBegin, Enter, LockFree,
      RowInv, StoredRequestHasRow, NoRecordNoRequest, HolderKnows, Gone, MutualExclusion,
      TypeInv, GatewayInv, GatewayTypes, Record, Inside, SubmitSteps, CancelSteps, ReconcileSteps
<1>2. ASSUME NEW c \in Clients, SubmitState(c)
      PROVE  RowInv'
  BY <1>2
  DEF SubmitState, Step,
      RowInv, StoredRequestHasRow, NoRecordNoRequest, HolderKnows, Gone, MutualExclusion,
      TypeInv, GatewayInv, GatewayTypes, Record, Inside, SubmitSteps, CancelSteps, ReconcileSteps
<1>3. ASSUME NEW c \in Clients, CancelBegin(c)
      PROVE  RowInv'
  BY <1>3
  DEF CancelBegin, Enter, LockFree,
      RowInv, StoredRequestHasRow, NoRecordNoRequest, HolderKnows, Gone, MutualExclusion,
      TypeInv, GatewayInv, GatewayTypes, Record, Inside, SubmitSteps, CancelSteps, ReconcileSteps
<1>4. ASSUME NEW c \in Clients, \/ SubmitBusy(c) \/ SubmitServe(c) \/ SubmitRefused(c)
      PROVE  RowInv'
  BY <1>4
  DEF SubmitBusy, SubmitServe, SubmitRefused, Leave,
      RowInv, StoredRequestHasRow, NoRecordNoRequest, HolderKnows, Gone, MutualExclusion,
      TypeInv, GatewayInv, GatewayTypes, Record, Inside, SubmitSteps, CancelSteps, ReconcileSteps
<1>5. ASSUME NEW c \in Clients, SubmitJoin(c)
      PROVE  RowInv'
  BY <1>5
  DEF SubmitJoin, Step, Leave,
      RowInv, StoredRequestHasRow, NoRecordNoRequest, HolderKnows, Gone, MutualExclusion,
      TypeInv, GatewayInv, GatewayTypes, Record, Inside, SubmitSteps, CancelSteps, ReconcileSteps
<1>6. ASSUME NEW c \in Clients, SubmitRemove(c)
      PROVE  RowInv'
  <2>1. CASE job[on[c]].state = "active"
    BY <1>6, <2>1 DEF SubmitRemove, Leave,
         RowInv, StoredRequestHasRow, NoRecordNoRequest, HolderKnows, Gone, MutualExclusion,
         TypeInv, GatewayInv, GatewayTypes, Record, Inside, SubmitSteps, CancelSteps, ReconcileSteps
  <2>2. CASE job[on[c]].state # "active"
    <3>1. /\ pc[c] = "remove" /\ pc' = [pc EXCEPT ![c] = "unledger"]
          /\ job' = [job EXCEPT ![on[c]] = NoRecord] /\ UNCHANGED <<ledger, on, seen>>
      BY <1>6, <2>2 DEF SubmitRemove, Step
    <3>2. on[c] \in Jobs
      BY <3>1 DEF TypeInv, GatewayInv, GatewayBusy, Inside, SubmitSteps
    <3>3. \A d \in Clients \ {c} : pc[d] \notin Gone \cup {"state"}
      BY <3>1, OneInside, GoneInside DEF Inside, SubmitSteps
    <3> QED BY <3>1, <3>2, <3>3
         DEF RowInv, StoredRequestHasRow, NoRecordNoRequest, HolderKnows, Gone, NoRecord,
             TypeInv, GatewayInv, GatewayTypes
  <2> QED BY <2>1, <2>2
<1>7. ASSUME NEW c \in Clients, SubmitUnledger(c)
      PROVE  RowInv'
  BY <1>7
  DEF SubmitUnledger, Step,
      RowInv, StoredRequestHasRow, NoRecordNoRequest, HolderKnows, Gone, MutualExclusion,
      TypeInv, GatewayInv, GatewayTypes, Record, Inside, SubmitSteps, CancelSteps, ReconcileSteps
<1>8. ASSUME NEW c \in Clients, SubmitReset(c)
      PROVE  RowInv'
  BY <1>8
  DEF SubmitReset, Step,
      RowInv, StoredRequestHasRow, NoRecordNoRequest, HolderKnows, Gone, MutualExclusion,
      TypeInv, GatewayInv, GatewayTypes, Record, Inside, SubmitSteps, CancelSteps, ReconcileSteps
<1>9. ASSUME NEW c \in Clients, SubmitAdmit(c)
      PROVE  RowInv'
  BY <1>9
  DEF SubmitAdmit, Step, Leave,
      RowInv, StoredRequestHasRow, NoRecordNoRequest, HolderKnows, Gone, MutualExclusion,
      TypeInv, GatewayInv, GatewayTypes, Record, Inside, SubmitSteps, CancelSteps, ReconcileSteps
<1>10. ASSUME NEW c \in Clients, SubmitMeasure(c)
      PROVE  RowInv'
  <2> DEFINE j == on[c]
             rows == [i \in Jobs |-> IF Stale(i) THEN 0 ELSE ledger[i]]
             kept == IF Fits(ledger, j) THEN ledger ELSE rows
  <2>1. /\ pc[c] = "measure" /\ j \in Jobs /\ job[j].state = "none"
        /\ UNCHANGED <<on, seen>>
    BY <1>10 DEF SubmitMeasure, Step, RowInv, HolderKnows, Gone
  <2>2. /\ pc' \in {[pc EXCEPT ![c] = "reserve"], [pc EXCEPT ![c] = "undo"]}
        /\ ledger' = kept
    BY <1>10 DEF SubmitMeasure, Step, TypeInv, GatewayInv, GatewayTypes
  <2>3. \A d \in Clients \ {c} : pc[d] \notin Gone \cup {"state"}
    BY <2>1, OneInside, GoneInside DEF Inside, SubmitSteps
  <2>4. \A i \in Jobs :
          /\ job'[i].state = job[i].state
          /\ job'[i].request => job[i].request
          /\ job'[i].request /\ ~Fits(ledger, j) => ~(ledger[i] > 0 /\ job[i].state \in Ended)
    BY <1>10 DEF SubmitMeasure, Record
  <2>5. \A i \in Jobs : job'[i].request => kept[i] = RequestBytes[i]
    <3> SUFFICES ASSUME NEW i \in Jobs, job'[i].request, ~Fits(ledger, j)
                 PROVE  rows[i] = RequestBytes[i]
      BY <2>4 DEF RowInv, StoredRequestHasRow
    <3>1. job[i].request /\ ledger[i] = RequestBytes[i] /\ ledger[i] > 0
      BY <2>4 DEF RowInv, StoredRequestHasRow
    <3>2. job[i].state \in InFlight
      BY <2>4, <3>1 DEF RowInv, NoRecordNoRequest, Record
    <3> QED BY <3>1, <3>2 DEF Stale
  <2>6. \A i \in Jobs : job'[i].request => ledger'[i] = RequestBytes[i]
    BY <2>2, <2>5
  <2> QED BY <2>1, <2>2, <2>3, <2>4, <2>6
       DEF RowInv, StoredRequestHasRow, NoRecordNoRequest, HolderKnows, Gone,
           TypeInv, GatewayInv, GatewayTypes
<1>30. ASSUME NEW c \in Clients, SubmitReserve(c)
      PROVE  RowInv'
  <2>1. /\ pc[c] = "reserve" /\ on[c] \in Jobs /\ job[on[c]].state = "none"
        /\ UNCHANGED <<on, seen, job>>
        /\ pc' = [pc EXCEPT ![c] = "add"]
        /\ ledger' = [ledger EXCEPT ![on[c]] = RequestBytes[on[c]]]
    BY <1>30 DEF SubmitReserve, Step, RowInv, HolderKnows, Gone
  <2>2. \A d \in Clients \ {c} : pc[d] \notin Gone \cup {"state"}
    BY <2>1, OneInside, GoneInside DEF Inside, SubmitSteps
  <2>3. ledger'[on[c]] = RequestBytes[on[c]]
        /\ \A i \in Jobs : job[i].request => ledger'[i] = RequestBytes[i]
    BY <2>1 DEF RowInv, StoredRequestHasRow, TypeInv, StoreTypes
  <2> QED BY <2>1, <2>2, <2>3
       DEF RowInv, StoredRequestHasRow, NoRecordNoRequest, HolderKnows, Gone,
           TypeInv, GatewayInv, GatewayTypes
<1>11. ASSUME NEW c \in Clients, SubmitAdd(c)
      PROVE  RowInv'
  <2>1. /\ pc[c] = "add" /\ on[c] \in Jobs /\ job[on[c]].state = "none"
        /\ ledger[on[c]] = RequestBytes[on[c]]
    BY <1>11 DEF SubmitAdd, RowInv, HolderKnows, Gone
  <2>2. /\ pc' = [pc EXCEPT ![c] = "done"] /\ UNCHANGED <<ledger, on>>
        /\ \E rec : rec.state = "waiting" /\ job' = [job EXCEPT ![on[c]] = rec]
    <3>1. /\ pc' = [pc EXCEPT ![c] = "done"] /\ UNCHANGED <<ledger, on>>
          /\ job' = [job EXCEPT ![on[c]] =
                      [NoRecord EXCEPT !.state = "waiting", !.gen = lastGen[on[c]] + 1,
                                       !.request = TRUE]]
      BY <1>11, <2>1 DEF SubmitAdd, Add, Leave
    <3>2. \A n : [NoRecord EXCEPT !.state = "waiting", !.gen = n, !.request = TRUE].state = "waiting"
      BY DEF NoRecord
    <3> QED BY <3>1, <3>2
  <2>3. \A d \in Clients \ {c} : pc[d] \notin Gone \cup {"state"}
    BY <2>1, OneInside, GoneInside DEF Inside, SubmitSteps
  <2> QED BY <2>1, <2>2, <2>3
       DEF RowInv, StoredRequestHasRow, NoRecordNoRequest, HolderKnows, Gone,
           TypeInv, GatewayInv, GatewayTypes
<1>12. ASSUME NEW c \in Clients, SubmitAddFails(c)
      PROVE  RowInv'
  BY <1>12
  DEF SubmitAddFails, Step,
      RowInv, StoredRequestHasRow, NoRecordNoRequest, HolderKnows, Gone, MutualExclusion,
      TypeInv, GatewayInv, GatewayTypes, Record, Inside, SubmitSteps, CancelSteps, ReconcileSteps
<1>13. ASSUME NEW c \in Clients, SubmitUndo(c)
      PROVE  RowInv'
  BY <1>13
  DEF SubmitUndo, Leave,
      RowInv, StoredRequestHasRow, NoRecordNoRequest, HolderKnows, Gone, MutualExclusion,
      TypeInv, GatewayInv, GatewayTypes, Record, Inside, SubmitSteps, CancelSteps, ReconcileSteps
<1>14. ASSUME NEW c \in Clients, CancelState(c) \/ CancelRecheck(c)
      PROVE  RowInv'
  BY <1>14
  DEF CancelState, CancelRecheck, Step, Leave,
      RowInv, StoredRequestHasRow, NoRecordNoRequest, HolderKnows, Gone, MutualExclusion,
      TypeInv, GatewayInv, GatewayTypes, Record, Inside, SubmitSteps, CancelSteps, ReconcileSteps
<1>15. ASSUME NEW c \in Clients, CancelRelease(c)
      PROVE  RowInv'
  BY <1>15
  DEF CancelRelease, Leave,
      RowInv, StoredRequestHasRow, NoRecordNoRequest, HolderKnows, Gone, MutualExclusion,
      TypeInv, GatewayInv, GatewayTypes, Record, Inside, SubmitSteps, CancelSteps, ReconcileSteps
<1>16. ASSUME NEW c \in Clients, CancelLease(c)
      PROVE  RowInv'
  <2>1. /\ pc[c] = "ccancel" /\ UNCHANGED <<job, ledger>>
        /\ \A d \in Clients \ {c} : pc'[d] = pc[d] /\ on'[d] = on[d] /\ seen'[d] = seen[d]
        /\ pc'[c] \in {"crecheck", "gone"}
    BY <1>16 DEF CancelLease, Step, Leave, TypeInv, GatewayInv, GatewayTypes
  <2> QED BY <2>1 DEF RowInv, StoredRequestHasRow, NoRecordNoRequest, HolderKnows, Gone
<1>17. ASSUME NEW c \in Clients, CancelRemove(c)
      PROVE  RowInv'
  <2>1. CASE job[on[c]].state = "active"
    BY <1>17, <2>1 DEF CancelRemove, Leave,
         RowInv, StoredRequestHasRow, NoRecordNoRequest, HolderKnows, Gone, MutualExclusion,
         TypeInv, GatewayInv, GatewayTypes, Record, Inside, SubmitSteps, CancelSteps, ReconcileSteps
  <2>2. CASE job[on[c]].state # "active"
    <3>1. /\ pc[c] = "cremove" /\ pc' = [pc EXCEPT ![c] = "cpurge"]
          /\ job' = [job EXCEPT ![on[c]] = NoRecord] /\ UNCHANGED <<ledger, on, seen>>
      BY <1>17, <2>2 DEF CancelRemove, Step
    <3>2. on[c] \in Jobs
      BY <3>1 DEF TypeInv, GatewayInv, GatewayBusy, Inside, CancelSteps
    <3>3. \A d \in Clients \ {c} : pc[d] \notin Gone \cup {"state"}
      BY <3>1, OneInside, GoneInside DEF Inside, CancelSteps
    <3> QED BY <3>1, <3>2, <3>3
         DEF RowInv, StoredRequestHasRow, NoRecordNoRequest, HolderKnows, Gone, NoRecord,
             TypeInv, GatewayInv, GatewayTypes
  <2> QED BY <2>1, <2>2
<1>18. ASSUME NEW c \in Clients, CancelPurge(c)
      PROVE  RowInv'
  BY <1>18
  DEF CancelPurge, Leave,
      RowInv, StoredRequestHasRow, NoRecordNoRequest, HolderKnows, Gone, MutualExclusion,
      TypeInv, GatewayInv, GatewayTypes, Record, Inside, SubmitSteps, CancelSteps, ReconcileSteps
<1>19. ASSUME NEW r \in Reconcilers, NEW j \in Jobs, ReconcileBegin(r, j)
      PROVE  RowInv'
  BY <1>19
  DEF ReconcileBegin, Enter, LockFree,
      RowInv, StoredRequestHasRow, NoRecordNoRequest, HolderKnows, Gone, MutualExclusion,
      TypeInv, GatewayInv, GatewayTypes, Record, Inside, SubmitSteps, CancelSteps, ReconcileSteps
<1>20. ASSUME NEW r \in Reconcilers, ReconcileState(r) \/ ReconcileAppend(r)
      PROVE  RowInv'
  BY <1>20
  DEF ReconcileState, ReconcileAppend, Step, Leave,
      RowInv, StoredRequestHasRow, NoRecordNoRequest, HolderKnows, Gone, MutualExclusion,
      TypeInv, GatewayInv, GatewayTypes, Record, Inside, SubmitSteps, CancelSteps, ReconcileSteps
<1>21. ASSUME NEW r \in Reconcilers, ReconcileStrip(r)
      PROVE  RowInv'
  <2>1. \A c \in Clients : pc[c] \notin Gone \cup {"state"} /\ pc'[c] = pc[c]
    BY <1>21, OneInside, GoneInside
    DEF ReconcileStrip, Leave, Inside, ReconcileSteps, TypeInv, GatewayInv, GatewayTypes
  <2>2. CASE UNCHANGED <<job, ledger>>
    BY <2>1, <2>2 DEF RowInv, StoredRequestHasRow, NoRecordNoRequest, HolderKnows, Gone
  <2>3. CASE /\ job' = [job EXCEPT ![on[r]].request = FALSE]
             /\ ledger' = [ledger EXCEPT ![on[r]] = 0]
    <3>1. \A i \in Jobs : /\ job'[i].state = job[i].state
                          /\ job'[i].request => job[i].request /\ ledger'[i] = ledger[i]
      BY <2>3 DEF Record
    <3> QED BY <2>1, <3>1 DEF RowInv, StoredRequestHasRow, NoRecordNoRequest, HolderKnows, Gone
  <2> QED BY <1>21, <2>2, <2>3 DEF ReconcileStrip
<1>22. ASSUME NEW w \in Workers, NEW j \in Jobs, Take(w, j)
      PROVE  RowInv'
  <2>1. \A i \in Jobs : /\ job'[i].request = job[i].request
                        /\ (job'[i].state = "none") = (job[i].state = "none")
    BY <1>22 DEF Take, Record
  <2> QED BY <1>22, <2>1, RowWorkers DEF Take
<1>23. ASSUME NEW w \in Workers, Finish(w)
      PROVE  RowInv'
  <2>1. \A i \in Jobs : /\ job'[i].request = job[i].request
                        /\ (job'[i].state = "none") = (job[i].state = "none")
    BY <1>23 DEF Finish, OwnsJob, Record
  <2> QED BY <1>23, <2>1, RowWorkers DEF Finish, OwnsJob
<1>24. ASSUME NEW w \in Workers, 
             \/ Prepare(w) \/ PrepareFails(w) \/ Poll(w) \/ Deadline(w)
             \/ Shutdown(w) \/ Decide(w) \/ Crash(w)
      PROVE  RowInv'
  BY <1>24, RowWorkers
  DEF Prepare, PrepareFails, Return, Poll, Deadline, Aborted, Shutdown, Decide, Crash
<1>25. ASSUME NEW j \in Jobs, Stall(j)
      PROVE  RowInv'
  <2>1. job[j].state = "active" /\ UNCHANGED <<ledger, pc, on, seen>>
    BY <1>25 DEF Stall, Recovers
  <2>2. \A i \in Jobs : /\ job'[i].request = job[i].request
                        /\ (job'[i].state = "none") = (job[i].state = "none")
    <3>1. CASE job[j].stalls = 0
      BY <1>25, <2>1, <3>1 DEF Stall, Record
    <3>2. CASE job[j].stalls # 0
      BY <1>25, <2>1, <3>2 DEF Stall, Record
    <3> QED BY <3>1, <3>2
  <2> QED BY <2>1, <2>2, RowWorkers
<1>26. ASSUME NEW j \in Jobs, NotifyLost(j) \/ \E c \in Clients : LeaseExpires(c, j)
      PROVE  RowInv'
  BY <1>26, RowWorkers DEF NotifyLost, LeaseExpires
<1>27. ASSUME NEW p \in Procs, Die(p)
      PROVE  RowInv'
  BY <1>27
  DEF Die,
      RowInv, StoredRequestHasRow, NoRecordNoRequest, HolderKnows, Gone, MutualExclusion,
      TypeInv, GatewayInv, GatewayTypes, Record, Inside, SubmitSteps, CancelSteps, ReconcileSteps
<1>28. ASSUME LockExpires
      PROVE  RowInv'
  BY <1>28
  DEF LockExpires,
      RowInv, StoredRequestHasRow, NoRecordNoRequest, HolderKnows, Gone, MutualExclusion,
      TypeInv, GatewayInv, GatewayTypes, Record, Inside, SubmitSteps, CancelSteps, ReconcileSteps
<1>29. ASSUME UNCHANGED vars
      PROVE  RowInv'
  BY <1>29, RowWorkers DEF vars
<1> QED
  BY <1>1, <1>2, <1>3, <1>4, <1>5, <1>6, <1>7, <1>8, <1>9, <1>10, <1>11, <1>12, <1>13, <1>14, <1>15, <1>16, <1>17, <1>18, <1>19, <1>20, <1>21, <1>22, <1>23, <1>24, <1>25, <1>26, <1>27, <1>28, <1>29, <1>30
  DEF Next

\* If the lock outlasts its holder and Queue.add() never takes effect when it
\* reports an error, every compile request stored in Redis has its row in the
\* byte ledger, through deaths, replacements, cancellations and the ledger's
\* own reconciliation (DistributedCompileQueue.submit, cancelRequest and
\* reconcileRequestByteLedger; releaseCompileRequestStorage).
THEOREM RowsCoverRequests ==
  ~LockMayExpire /\ ~AddMayBeLost => (Spec => []StoredRequestHasRow)
<1> SUFFICES ASSUME ~LockMayExpire, ~AddMayBeLost
             PROVE  Spec => []StoredRequestHasRow
  OBVIOUS
<1> DEFINE Inv == TypeInv /\ MutualExclusion /\ RowInv
<1>1. Init => Inv
  <2>1. Init => RowInv
    BY DEF Init, RowInv, StoredRequestHasRow, NoRecordNoRequest, HolderKnows, NoRecord, Gone,
           Procs
  <2> QED BY <2>1, TypeInit, Outside DEF Init, MutualExclusion
<1>2. Inv /\ [Next]_vars => Inv'
  BY TypeNext, ExclusionNext, RowNext DEF TypeInv
<1>3. Inv => StoredRequestHasRow
  BY DEF RowInv
<1> QED BY <1>1, <1>2, <1>3, PTL DEF Spec

(***************************************************************************)
(* The byte budget.  Who has measured the ledger still finds room for its  *)
(* request when it writes the row: meanwhile others only drop rows.        *)
(***************************************************************************)
LedgerBounded == Total(ledger, Jobs) <= MaxBytes

Measured ==
  \A c \in Clients : pc[c] = "reserve" => RequestBytes[on[c]] + Total(ledger, Jobs) <= MaxBytes

BudgetInv == LedgerBounded /\ Measured

\* Rows are dropped or stay as they are.
LEMMA RowsDropped ==
  ASSUME TypeInv, NEW rows, \A j \in Jobs : rows[j] \in {0, ledger[j]}
  PROVE  Rows(rows, Jobs) /\ Total(rows, Jobs) <= Total(ledger, Jobs)
                          /\ Total(rows, Jobs) \in Nat /\ Total(ledger, Jobs) \in Nat
<1>1. \A j \in Jobs : ledger[j] \in Nat
  BY DEF TypeInv, StoreTypes
<1>2. Rows(ledger, Jobs) /\ Rows(rows, Jobs)
  BY <1>1, QueueConstants DEF Rows
<1>3. \A j \in Jobs : rows[j] \in Nat /\ rows[j] <= ledger[j]
  BY <1>1
<1> QED BY <1>2, <1>3, TotalMonotone, TotalIsNat

\* The measurement leaves no more rows than there were, and goes on to the
\* reservation only when the request fits beside them.
LEMMA MeasureKeeps ==
  ASSUME TypeInv, BudgetInv, NEW c \in Clients, SubmitMeasure(c)
  PROVE  BudgetInv'
<1> DEFINE rows == [i \in Jobs |-> IF Stale(i) THEN 0 ELSE ledger[i]]
           kept == IF Fits(ledger, on[c]) THEN ledger ELSE rows
<1>1. \A d \in Clients : pc[d] = "reserve" => on[d] \in Jobs
  BY DEF TypeInv, GatewayInv, GatewayBusy, Inside, SubmitSteps, Procs
<1>2. \A i \in Jobs : kept[i] \in {0, ledger[i]}
  BY DEF TypeInv, StoreTypes
<1>3. /\ ledger' = kept /\ UNCHANGED on
      /\ pc' = [pc EXCEPT ![c] = IF Fits(kept, on[c]) THEN "reserve" ELSE "undo"]
  BY DEF SubmitMeasure, Step
<1> HIDE DEF kept
<1>4. /\ Total(ledger', Jobs) <= Total(ledger, Jobs)
      /\ Total(ledger', Jobs) \in Nat /\ Total(ledger, Jobs) \in Nat
  BY <1>2, <1>3, RowsDropped
<1>5. MaxBytes \in Nat
  BY QueueConstants
<1>6. LedgerBounded'
  BY <1>4, <1>5 DEF BudgetInv, LedgerBounded
<1>7. ASSUME NEW d \in Clients, pc'[d] = "reserve"
      PROVE  RequestBytes[on'[d]] + Total(ledger', Jobs) <= MaxBytes
  <2>1. CASE d = c
    <3>1. Fits(kept, on[c])
      BY <1>3, <1>7, <2>1 DEF TypeInv, GatewayInv, GatewayTypes, Procs
    <3> QED BY <1>3, <2>1, <3>1 DEF Fits
  <2>2. CASE d # c
    <3>1. pc[d] = "reserve" /\ on'[d] = on[d]
      BY <1>3, <1>7, <2>2
    <3>2. RequestBytes[on[d]] \in Nat
      BY <1>1, <3>1, QueueConstants
    <3>3. RequestBytes[on[d]] + Total(ledger, Jobs) <= MaxBytes
      BY <3>1 DEF BudgetInv, Measured
    <3>4. RequestBytes[on[d]] + Total(ledger', Jobs) <= MaxBytes
      BY <1>4, <1>5, <3>2, <3>3
    <3> QED BY <3>1, <3>4
  <2> QED BY <2>1, <2>2
<1> QED BY <1>6, <1>7 DEF BudgetInv, Measured

\* The reservation adds a row for which there is room, and its section is the
\* only one.
LEMMA ReserveKeeps ==
  ASSUME TypeInv, MutualExclusion, BudgetInv, NEW c \in Clients, SubmitReserve(c)
  PROVE  BudgetInv'
<1> DEFINE j == on[c]
<1>1. /\ pc[c] = "reserve" /\ pc' = [pc EXCEPT ![c] = "add"]
      /\ ledger' = [ledger EXCEPT ![j] = RequestBytes[j]]
  BY DEF SubmitReserve, Step
<1>2. j \in Jobs /\ ledger \in [Jobs -> Nat] /\ MaxBytes \in Nat
  BY <1>1, QueueConstants DEF TypeInv, StoreTypes, GatewayInv, GatewayBusy, Inside, SubmitSteps, Procs
<1>3. RequestBytes[j] \in Nat
  BY <1>2, QueueConstants
<1>4. RequestBytes[j] + Total(ledger, Jobs) <= MaxBytes
  BY <1>1 DEF BudgetInv, Measured
<1> HIDE DEF j
<1>5. /\ \A i \in Jobs : ledger[i] \in Nat /\ ledger'[i] \in Nat
      /\ \A i \in Jobs \ {j} : ledger[i] = ledger'[i]
      /\ ledger'[j] = RequestBytes[j]
  BY <1>1, <1>2, <1>3
<1>6. Rows(ledger, Jobs) /\ Rows(ledger', Jobs)
  BY <1>5, QueueConstants DEF Rows
<1>7. \A i \in Jobs \ {j} : ledger[i] = ledger'[i]
  BY <1>5
<1>8. Total(ledger', Jobs) = Total(ledger, Jobs) - ledger[j] + ledger'[j]
  BY <1>2, <1>6, <1>7, TotalChanged
<1>9. Total(ledger, Jobs) \in Nat /\ ledger[j] \in Nat
  BY <1>2, <1>6, TotalIsNat
<1>10. Total(ledger', Jobs) <= MaxBytes
  BY <1>2, <1>3, <1>4, <1>5, <1>8, <1>9
<1>11. \A d \in Clients : pc'[d] # "reserve"
  <2>1. \A d \in Clients \ {c} : pc[d] # "reserve"
    BY <1>1, OneInside DEF Inside, SubmitSteps, Procs
  <2>2. pc'[c] = "add"
    BY <1>1 DEF TypeInv, GatewayInv, GatewayTypes, Procs
  <2> QED BY <1>1, <2>1, <2>2
<1> QED BY <1>10, <1>11 DEF BudgetInv, LedgerBounded, Measured

\* No step but the reservation adds bytes.
LEMMA LedgerShrinks ==
  ASSUME TypeInv, [Next]_vars, ~\E c \in Clients : SubmitMeasure(c) \/ SubmitReserve(c)
  PROVE  \A j \in Jobs : ledger'[j] \in {0, ledger[j]}
<1>1. ledger \in [Jobs -> Nat]
  BY DEF TypeInv, StoreTypes
<1>2. SUFFICES ledger' = ledger \/ \E j : ledger' = [ledger EXCEPT ![j] = 0]
  BY <1>1
<1>3. ASSUME NEW c \in Clients, NEW j \in Jobs, SubmitBegin(c, j) \/ LeaseExpires(c, j)
      PROVE  ledger' = ledger
  BY <1>3 DEF SubmitBegin, LeaseExpires
<1>4. ASSUME NEW c \in Clients,
             \/ SubmitBusy(c) \/ SubmitState(c) \/ SubmitServe(c) \/ SubmitJoin(c)
             \/ SubmitRefused(c) \/ SubmitRemove(c) \/ SubmitReset(c) \/ SubmitAdmit(c)
             \/ SubmitAdd(c) \/ SubmitAddFails(c)
      PROVE  ledger' = ledger
  BY <1>4 DEF SubmitBusy, SubmitState, SubmitServe, SubmitJoin, SubmitRefused, SubmitRemove,
              SubmitReset, SubmitAdmit, SubmitAdd, SubmitAddFails
<1>5. ASSUME NEW c \in Clients,
             \/ CancelBegin(c) \/ CancelState(c) \/ CancelRelease(c) \/ CancelLease(c)
             \/ CancelRecheck(c) \/ CancelRemove(c)
      PROVE  ledger' = ledger
  BY <1>5 DEF CancelBegin, CancelState, CancelRelease, CancelLease, CancelRecheck, CancelRemove
<1>6. ASSUME NEW c \in Clients, SubmitUnledger(c) \/ SubmitUndo(c) \/ CancelPurge(c)
      PROVE  \E j : ledger' = [ledger EXCEPT ![j] = 0]
  BY <1>6 DEF SubmitUnledger, SubmitUndo, CancelPurge
<1>7. ASSUME NEW w \in Workers,
             \/ \E j \in Jobs : Take(w, j)
             \/ Prepare(w) \/ PrepareFails(w) \/ Poll(w) \/ Deadline(w) \/ Shutdown(w)
             \/ Decide(w) \/ Finish(w) \/ Crash(w)
      PROVE  ledger' = ledger
  <2>1. CASE \E j \in Jobs : Take(w, j)
    BY <2>1 DEF Take
  <2>2. CASE Prepare(w) \/ PrepareFails(w) \/ Poll(w)
    BY <2>2 DEF Prepare, PrepareFails, Poll, Return
  <2>3. CASE Deadline(w) \/ Shutdown(w)
    BY <2>3 DEF Deadline, Shutdown, Aborted
  <2>4. CASE Decide(w)
    BY <2>4 DEF Decide, Return
  <2>5. CASE Finish(w)
    BY <2>5 DEF Finish
  <2>6. CASE Crash(w)
    BY <2>6 DEF Crash
  <2> QED BY <1>7, <2>1, <2>2, <2>3, <2>4, <2>5, <2>6
<1>8. ASSUME NEW r \in Reconcilers,
             (\E j \in Jobs : ReconcileBegin(r, j)) \/ ReconcileState(r) \/ ReconcileAppend(r)
      PROVE  ledger' = ledger
  BY <1>8 DEF ReconcileBegin, ReconcileState, ReconcileAppend
<1>9. ASSUME NEW r \in Reconcilers, ReconcileStrip(r)
      PROVE  ledger' = ledger \/ \E j : ledger' = [ledger EXCEPT ![j] = 0]
  BY <1>9 DEF ReconcileStrip
<1>10. ASSUME \/ \E j \in Jobs : Stall(j) \/ NotifyLost(j)
              \/ \E p \in Procs : Die(p)
              \/ LockExpires
              \/ UNCHANGED vars
       PROVE  ledger' = ledger
  BY <1>10 DEF Stall, NotifyLost, Die, LockExpires, vars
<1> QED BY <1>3, <1>4, <1>5, <1>6, <1>7, <1>8, <1>9, <1>10 DEF Next

\* Only the measurement leads to the reservation.
LEMMA OnlyMeasured ==
  ASSUME TypeInv, [Next]_vars, ~\E c \in Clients : SubmitMeasure(c)
  PROVE  \A c \in Clients : pc'[c] = "reserve" => pc[c] = "reserve" /\ on'[c] = on[c]
<1> DEFINE Apart == \A d \in Clients : pc'[d] = "reserve" => pc[d] = "reserve" /\ on'[d] = on[d]
           Moves(p, step) == /\ pc' = [pc EXCEPT ![p] = step] /\ step # "reserve"
                             /\ \A q \in Procs \ {p} : on'[q] = on[q]
<1>0. /\ pc \in [Procs -> Inside \cup {"idle", "done", "gone", "dead"}]
      /\ on \in [Procs -> Jobs \cup {NoOne}]
  BY DEF TypeInv, GatewayInv, GatewayTypes
<1>1. ASSUME NEW p \in Procs, \E step : Moves(p, step) PROVE Apart
  <2>1. PICK step : Moves(p, step)
    BY <1>1
  <2>2. pc'[p] # "reserve"
    BY <1>0, <2>1
  <2>3. \A d \in Clients \ {p} : pc'[d] = pc[d] /\ on'[d] = on[d]
    BY <1>0, <2>1 DEF Procs
  <2> QED BY <2>2, <2>3
<1>2. UNCHANGED <<pc, on>> => Apart
  OBVIOUS
<1>3. ASSUME NEW p \in Procs, NEW step, step # "reserve",
             Leave(p, step) \/ (\E from : Step(p, from, step)) \/ \E j : Enter(p, j, step)
      PROVE  Apart
  <2>1. Moves(p, step)
    <3>1. CASE Leave(p, step)
      BY <1>0, <1>3, <3>1 DEF Leave
    <3>2. CASE \E from : Step(p, from, step)
      BY <1>3, <3>2 DEF Step
    <3>3. CASE \E j : Enter(p, j, step)
      BY <1>0, <1>3, <3>3 DEF Enter
    <3> QED BY <1>3, <3>1, <3>2, <3>3
  <2> QED BY <1>1, <2>1
<1> HIDE DEF Apart
<1>4. ASSUME NEW c \in Clients,
             \/ \E j \in Jobs : SubmitBegin(c, j) \/ LeaseExpires(c, j)
             \/ SubmitBusy(c) \/ SubmitState(c) \/ SubmitServe(c) \/ SubmitJoin(c)
      PROVE  Apart
  <2>1. ASSUME NEW j \in Jobs, SubmitBegin(c, j) PROVE Apart
    BY <1>3, <2>1 DEF SubmitBegin, Procs
  <2>2. ASSUME NEW j \in Jobs, LeaseExpires(c, j) PROVE Apart
    BY <1>2, <2>2 DEF LeaseExpires
  <2>3. CASE SubmitBusy(c)
    BY <1>1, <2>3 DEF SubmitBusy, Procs
  <2>4. CASE SubmitState(c)
    BY <1>3, <2>4 DEF SubmitState, Procs
  <2>5. CASE SubmitServe(c)
    BY <1>3, <2>5 DEF SubmitServe, Procs
  <2>6. CASE SubmitJoin(c)
    BY <1>3, <2>6 DEF SubmitJoin, Procs
  <2> QED BY <1>4, <2>1, <2>2, <2>3, <2>4, <2>5, <2>6
<1>5. ASSUME NEW c \in Clients,
             \/ SubmitRefused(c) \/ SubmitRemove(c) \/ SubmitUnledger(c) \/ SubmitReset(c)
             \/ SubmitAdmit(c) \/ SubmitReserve(c) \/ SubmitAdd(c) \/ SubmitAddFails(c)
             \/ SubmitUndo(c)
      PROVE  Apart
  <2>1. CASE SubmitRefused(c) \/ SubmitRemove(c) \/ SubmitUnledger(c)
    BY <1>3, <2>1 DEF SubmitRefused, SubmitRemove, SubmitUnledger, Procs
  <2>2. CASE SubmitReset(c) \/ SubmitReserve(c) \/ SubmitAddFails(c)
    BY <1>3, <2>2 DEF SubmitReset, SubmitReserve, SubmitAddFails, Procs
  <2>3. CASE SubmitAdmit(c)
    BY <1>3, <2>3 DEF SubmitAdmit, Procs
  <2>4. CASE SubmitAdd(c) \/ SubmitUndo(c)
    BY <1>3, <2>4 DEF SubmitAdd, SubmitUndo, Procs
  <2> QED BY <1>5, <2>1, <2>2, <2>3, <2>4
<1>6. ASSUME NEW c \in Clients,
             \/ CancelBegin(c) \/ CancelState(c) \/ CancelRelease(c) \/ CancelLease(c)
             \/ CancelRecheck(c) \/ CancelRemove(c) \/ CancelPurge(c)
      PROVE  Apart
  <2>1. CASE CancelBegin(c)
    BY <1>3, <2>1 DEF CancelBegin, Procs
  <2>2. CASE CancelState(c) \/ CancelRecheck(c)
    BY <1>3, <2>2 DEF CancelState, CancelRecheck, Procs
  <2>3. CASE CancelRelease(c) \/ CancelLease(c)
    BY <1>3, <2>3 DEF CancelRelease, CancelLease, Procs
  <2>4. CASE CancelRemove(c) \/ CancelPurge(c)
    BY <1>3, <2>4 DEF CancelRemove, CancelPurge, Procs
  <2> QED BY <1>6, <2>1, <2>2, <2>3, <2>4
<1>7. ASSUME NEW w \in Workers,
             \/ \E j \in Jobs : Take(w, j)
             \/ Prepare(w) \/ PrepareFails(w) \/ Poll(w) \/ Deadline(w) \/ Shutdown(w)
             \/ Decide(w) \/ Finish(w) \/ Crash(w)
      PROVE  Apart
  <2>1. UNCHANGED <<pc, on>>
    BY <1>7 DEF Take, Prepare, PrepareFails, Poll, Return, Deadline, Shutdown, Aborted, Decide,
                Finish, Crash
  <2> QED BY <1>2, <2>1
<1>8. ASSUME NEW r \in Reconcilers,
             \/ \E j \in Jobs : ReconcileBegin(r, j)
             \/ ReconcileState(r) \/ ReconcileAppend(r) \/ ReconcileStrip(r)
      PROVE  Apart
  <2>1. CASE \E j \in Jobs : ReconcileBegin(r, j)
    BY <1>3, <2>1 DEF ReconcileBegin, Procs
  <2>2. CASE ReconcileState(r)
    BY <1>3, <2>2 DEF ReconcileState, Procs
  <2>3. CASE ReconcileAppend(r) \/ ReconcileStrip(r)
    BY <1>1, <1>2, <1>3, <2>3 DEF ReconcileAppend, ReconcileStrip, Procs
  <2> QED BY <1>8, <2>1, <2>2, <2>3
<1>9. ASSUME NEW p \in Procs, Die(p) PROVE Apart
  <2> DEFINE end == IF p \in Reconcilers /\ lock # p THEN "idle" ELSE "dead"
  <2>1. pc' = [pc EXCEPT ![p] = end] /\ UNCHANGED on
    BY <1>9 DEF Die
  <2>2. end # "reserve"
    OBVIOUS
  <2> HIDE DEF end
  <2> QED BY <1>1, <2>1, <2>2
<1>10. ASSUME LockExpires PROVE Apart
  <2>1. CASE UNCHANGED pc
    BY <1>2, <1>10, <2>1 DEF LockExpires
  <2>2. CASE lock \in Procs /\ pc' = [pc EXCEPT ![lock] = "idle"]
    <3>1. UNCHANGED on
      BY <1>10 DEF LockExpires
    <3>2. \E step : /\ pc' = [pc EXCEPT ![lock] = step] /\ step # "reserve"
                    /\ \A q \in Procs \ {lock} : on'[q] = on[q]
      BY <2>2, <3>1
    <3> QED BY <1>1, <2>2, <3>2
  <2>3. UNCHANGED pc \/ (lock \in Procs /\ pc' = [pc EXCEPT ![lock] = "idle"])
    BY <1>10 DEF LockExpires, Procs
  <2> QED BY <2>1, <2>2, <2>3
<1>11. ASSUME (\E j \in Jobs : Stall(j) \/ NotifyLost(j)) \/ UNCHANGED vars
       PROVE  Apart
  BY <1>2, <1>11 DEF Stall, NotifyLost, vars
<1>12. Apart
  BY <1>4, <1>5, <1>6, <1>7, <1>8, <1>9, <1>10, <1>11 DEF Next
<1> QED BY <1>12 DEF Apart

\* While the lock outlasts its holder, the ledger never says more than
\* maxQueuedRequestBytes, whatever handlers die between the sum and the row and
\* whatever Queue.add() does (the reservation in DistributedCompileQueue.submit).
THEOREM LedgerWithinBudget == ~LockMayExpire => (Spec => []LedgerBounded)
<1> SUFFICES ASSUME ~LockMayExpire PROVE Spec => []LedgerBounded
  OBVIOUS
<1>1. Init => BudgetInv
  <2>1. SUFFICES ASSUME Init PROVE BudgetInv
    OBVIOUS
  <2>2. Total(ledger, Jobs) = 0
    BY <2>1, TotalNothing DEF Init
  <2>3. \A c \in Clients : pc[c] # "reserve"
    BY <2>1 DEF Init, Procs
  <2> QED BY <2>2, <2>3, QueueConstants DEF BudgetInv, LedgerBounded, Measured
<1>2. TypeInv /\ MutualExclusion /\ BudgetInv /\ [Next]_vars => BudgetInv'
  <2>1. SUFFICES ASSUME TypeInv, MutualExclusion, BudgetInv, [Next]_vars,
                        ~\E c \in Clients : SubmitMeasure(c) \/ SubmitReserve(c)
                 PROVE  BudgetInv'
    BY MeasureKeeps, ReserveKeeps
  <2>2. \A j \in Jobs : ledger'[j] \in {0, ledger[j]}
    BY <2>1, LedgerShrinks
  <2>3. /\ Total(ledger', Jobs) <= Total(ledger, Jobs)
        /\ Total(ledger', Jobs) \in Nat /\ Total(ledger, Jobs) \in Nat
    BY <2>1, <2>2, RowsDropped
  <2>4. MaxBytes \in Nat
    BY QueueConstants
  <2>5. LedgerBounded'
    BY <2>1, <2>3, <2>4 DEF BudgetInv, LedgerBounded
  <2>6. ASSUME NEW c \in Clients, pc'[c] = "reserve"
        PROVE  RequestBytes[on'[c]] + Total(ledger', Jobs) <= MaxBytes
    <3>1. pc[c] = "reserve" /\ on'[c] = on[c]
      BY <2>1, <2>6, OnlyMeasured
    <3>2. RequestBytes[on[c]] \in Nat
      BY <2>1, <3>1, QueueConstants DEF TypeInv, GatewayInv, GatewayBusy, Inside, SubmitSteps, Procs
    <3>3. RequestBytes[on[c]] + Total(ledger, Jobs) <= MaxBytes
      BY <2>1, <3>1 DEF BudgetInv, Measured
    <3>4. RequestBytes[on[c]] + Total(ledger', Jobs) <= MaxBytes
      BY <2>3, <2>4, <3>2, <3>3
    <3> QED BY <3>1, <3>4
  <2> QED BY <2>5, <2>6 DEF BudgetInv, Measured
<1>3. BudgetInv => LedgerBounded
  BY DEF BudgetInv
<1>4. Spec => [](TypeInv /\ MutualExclusion)
  <2>1. Spec => []TypeInv
    BY TypeInit, TypeNext, PTL DEF Spec
  <2> QED BY <2>1, LockExcludes, PTL
<1> QED BY <1>1, <1>2, <1>3, <1>4, PTL DEF Spec

\* If the lock outlasts its holder and Queue.add() never takes effect when it
\* reports an error, the requests stored in Redis keep to the byte budget,
\* whatever is interrupted between the reservation and its release.
THEOREM BytesAreBounded ==
  ~LockMayExpire /\ ~AddMayBeLost => (Spec => []StoredBytesBounded)
<1> SUFFICES ASSUME ~LockMayExpire, ~AddMayBeLost
             PROVE  Spec => []StoredBytesBounded
  OBVIOUS
<1>1. TypeInv /\ LedgerBounded /\ StoredRequestHasRow => StoredBytesBounded
  <2>1. SUFFICES ASSUME TypeInv, LedgerBounded, StoredRequestHasRow
                 PROVE  StoredBytesBounded
    OBVIOUS
  <2> DEFINE S == {j \in Jobs : job[j].request}
  <2>2. \A j \in Jobs : ledger[j] \in Nat /\ RequestBytes[j] \in Nat
    BY <2>1, QueueConstants DEF TypeInv, StoreTypes
  <2>3. Rows(ledger, Jobs) /\ Rows(RequestBytes, S)
    BY <2>2, QueueConstants, FS_Subset DEF Rows
  <2>4. S \subseteq Jobs /\ \A j \in S : RequestBytes[j] \in Nat /\ RequestBytes[j] <= ledger[j]
    BY <2>1, <2>2 DEF StoredRequestHasRow
  <2>5. Total(RequestBytes, S) <= Total(ledger, Jobs)
    BY <2>3, <2>4, TotalMonotone
  <2>6. Total(RequestBytes, S) \in Nat /\ Total(ledger, Jobs) \in Nat /\ MaxBytes \in Nat
    BY <2>3, TotalIsNat, QueueConstants
  <2> QED BY <2>1, <2>5, <2>6 DEF LedgerBounded, StoredBytesBounded
<1>2. Spec => []TypeInv
  BY TypeInit, TypeNext, PTL DEF Spec
<1>3. Spec => []StoredRequestHasRow
  BY RowsCoverRequests
<1> QED BY <1>1, <1>2, <1>3, LedgerWithinBudget, PTL


(***************************************************************************)
(* The terminal frame.                                                     *)
(***************************************************************************)
\* Every generation has a number, and only a finished one has a result.
RecordsNumbered ==
  \A j \in Jobs : /\ job[j].state = "none" <=> job[j].gen = 0
                  /\ job[j].result # "none" => job[j].state \in Ended

FramesNumbered == \A j \in Jobs : terminal[j] # NoFrame => terminal[j].gen # 0

\* The steps before a job is added know that it has no record, and those after
\* its events were forgotten that it has no frame.
Fresh == {"admit", "measure", "reserve", "add"}
GoneForFrames == {"unledger", "reset", "cpurge"}
ClientsKnow ==
  \A c \in Clients :
    /\ pc[c] \in GoneForFrames => job[on[c]].state = "none"
    /\ pc[c] = "state" /\ seen[c].state = "none" => job[on[c]].state = "none"
    /\ pc[c] \in Fresh => terminal[on[c]] = NoFrame

\* What a reconciler has read still holds of the record it is about.
Reads(r) ==
  LET rec == job[on[r]]
  IN  /\ rec.state # "none" /\ rec.gen = seen[r].gen
      /\ seen[r].result # "none" => rec.state \in Ended /\ rec.result = seen[r].result

ReconcilersKnow ==
  \A r \in Reconcilers :
    /\ pc[r] = "rstate" /\ seen[r].state # "none" => Reads(r)
    /\ pc[r] \in {"rcompleted", "rfailed"} => Reads(r) /\ job[on[r]].state \in Ended

FrameInv ==
  FrameIsTruthful /\ RecordsNumbered /\ FramesNumbered /\ ClientsKnow /\ ReconcilersKnow

\* Workers and BullMQ leave generations and finished records alone.
LEMMA FrameWorkers ==
  ASSUME FrameInv, UNCHANGED <<terminal, pc, on, seen>>,
         \A p \in Procs : pc[p] \in Inside => on[p] \in Jobs,
         \A j \in Jobs :
           /\ job'[j].gen = job[j].gen
           /\ (job'[j].state = "none") = (job[j].state = "none")
           /\ job'[j].result # "none" => job'[j].state \in Ended
           /\ job[j].state \in Ended =>
                job'[j].state = job[j].state /\ job'[j].result = job[j].result
  PROVE  FrameInv'
<1>1. FrameIsTruthful'
  BY DEF FrameInv, FrameIsTruthful
<1>2. RecordsNumbered' /\ FramesNumbered'
  BY DEF FrameInv, RecordsNumbered, FramesNumbered
<1>3. ClientsKnow'
  BY DEF FrameInv, ClientsKnow, GoneForFrames, Fresh, Procs, Inside, SubmitSteps, CancelSteps
<1>4. ReconcilersKnow'
  BY DEF FrameInv, ReconcilersKnow, Reads, Procs, Inside, ReconcileSteps
<1> QED BY <1>1, <1>2, <1>3, <1>4 DEF FrameInv

\* A step of a client that leaves records and frames alone.
LEMMA FrameClientStep ==
  ASSUME FrameInv, TypeInv, NEW c \in Clients, UNCHANGED <<job, terminal>>,
         \A q \in Procs \ {c} : pc'[q] = pc[q] /\ on'[q] = on[q] /\ seen'[q] = seen[q],
         pc'[c] \in GoneForFrames => job[on'[c]].state = "none",
         pc'[c] = "state" /\ seen'[c].state = "none" => job[on'[c]].state = "none",
         pc'[c] \in Fresh => terminal[on'[c]] = NoFrame
  PROVE  FrameInv'
<1>1. FrameIsTruthful' /\ RecordsNumbered' /\ FramesNumbered'
  BY DEF FrameInv, FrameIsTruthful, RecordsNumbered, FramesNumbered
<1>2. ClientsKnow'
  BY DEF FrameInv, ClientsKnow, Procs
<1>3. ReconcilersKnow'
  BY QueueConstants DEF FrameInv, ReconcilersKnow, Reads, Procs
<1> QED BY <1>1, <1>2, <1>3 DEF FrameInv

\* Nobody but the holder of the lock has anything to know.
LEMMA FrameAlone ==
  ASSUME MutualExclusion, NEW p \in Procs, pc[p] \in Inside,
         \A q \in Procs \ {p} : pc'[q] = pc[q]
  PROVE  /\ \A c \in Clients \ {p} :
              pc'[c] \notin GoneForFrames \cup Fresh \cup {"state"}
         /\ \A r \in Reconcilers \ {p} : pc'[r] \notin {"rstate", "rcompleted", "rfailed"}
  BY OneInside DEF Procs, Inside, SubmitSteps, CancelSteps, ReconcileSteps, GoneForFrames, Fresh

LEMMA FrameNext ==
  ASSUME ~LockMayExpire, TypeInv, MutualExclusion, FrameInv, [Next]_vars
  PROVE  FrameInv'
<1>0. /\ \A p \in Procs : pc[p] \in Inside => on[p] \in Jobs
      /\ job \in [Jobs -> Record]
      /\ pc \in [Procs -> Inside \cup {"idle", "done", "gone", "dead"}]
      /\ on \in [Procs -> Jobs \cup {NoOne}] /\ seen \in [Procs -> Record]
  BY DEF TypeInv, GatewayInv, GatewayBusy, GatewayTypes, QueueTypes
<1> USE QueueConstants, <1>0 DEF Procs, queueVars, leaseVars, clientVars, workerVars
<1>1. ASSUME NEW c \in Clients, NEW j \in Jobs, SubmitBegin(c, j)
      PROVE  FrameInv'
  BY <1>1, FrameClientStep
  DEF SubmitBegin, Enter, GoneForFrames, Fresh
<1>2. ASSUME NEW c \in Clients, SubmitState(c)
      PROVE  FrameInv'
  BY <1>2, FrameClientStep
  DEF SubmitState, Step, GoneForFrames, Fresh, FrameInv, ClientsKnow
<1>3. ASSUME NEW c \in Clients, CancelBegin(c)
      PROVE  FrameInv'
  BY <1>3, FrameClientStep
  DEF CancelBegin, Enter, GoneForFrames, Fresh
<1>4. ASSUME NEW c \in Clients, \/ SubmitBusy(c) \/ SubmitServe(c) \/ SubmitRefused(c) \/ SubmitUndo(c)
      PROVE  FrameInv'
  BY <1>4, FrameClientStep
  DEF SubmitBusy, SubmitServe, SubmitRefused, SubmitUndo, Leave, GoneForFrames, Fresh
<1>5. ASSUME NEW c \in Clients, SubmitJoin(c)
      PROVE  FrameInv'
  BY <1>5, FrameClientStep
  DEF SubmitJoin, Step, Leave, GoneForFrames, Fresh
<1>6. ASSUME NEW c \in Clients, SubmitUnledger(c) \/ SubmitAdmit(c)
      PROVE  FrameInv'
  BY <1>6, FrameClientStep
  DEF SubmitUnledger, SubmitAdmit, Step, Leave, GoneForFrames, Fresh, FrameInv, ClientsKnow
<1>7. ASSUME NEW c \in Clients, CancelState(c) \/ CancelRecheck(c)
      PROVE  FrameInv'
  BY <1>7, FrameClientStep
  DEF CancelState, CancelRecheck, Step, Leave, GoneForFrames, Fresh
<1>8. ASSUME NEW c \in Clients, CancelRelease(c) \/ CancelLease(c)
      PROVE  FrameInv'
  BY <1>8, FrameClientStep
  DEF CancelRelease, CancelLease, Step, Leave, GoneForFrames, Fresh
<1>9. ASSUME NEW c \in Clients, SubmitRemove(c)
      PROVE  FrameInv'
  <2>1. CASE job[on[c]].state = "active"
    BY <1>9, <2>1, FrameClientStep DEF SubmitRemove, Leave, GoneForFrames, Fresh
  <2>2. CASE job[on[c]].state # "active"
    <3>1. /\ pc[c] = "remove" /\ pc' = [pc EXCEPT ![c] = "unledger"]
          /\ job' = [job EXCEPT ![on[c]] = NoRecord] /\ UNCHANGED <<terminal, on, seen>>
      BY <1>9, <2>2 DEF SubmitRemove, Step
    <3>2. on[c] \in Jobs /\ pc[c] \in Inside
      BY <3>1 DEF Inside, SubmitSteps, CancelSteps
    <3>3. /\ \A d \in Clients \ {c} : pc'[d] \notin GoneForFrames \cup Fresh \cup {"state"}
          /\ \A r \in Reconcilers : pc'[r] \notin {"rstate", "rcompleted", "rfailed"}
      BY <3>1, <3>2, FrameAlone
    <3>4. FrameIsTruthful' /\ RecordsNumbered' /\ FramesNumbered'
      BY <3>1, <3>2 DEF FrameInv, FrameIsTruthful, RecordsNumbered, FramesNumbered, NoRecord
    <3>5. ClientsKnow' /\ ReconcilersKnow'
      BY <3>1, <3>2, <3>3 DEF ClientsKnow, ReconcilersKnow, NoRecord, Fresh
    <3> QED BY <3>4, <3>5 DEF FrameInv
  <2> QED BY <2>1, <2>2
<1>10. ASSUME NEW c \in Clients, CancelRemove(c)
      PROVE  FrameInv'
  <2>1. CASE job[on[c]].state = "active"
    BY <1>10, <2>1, FrameClientStep DEF CancelRemove, Leave, GoneForFrames, Fresh
  <2>2. CASE job[on[c]].state # "active"
    <3>1. /\ pc[c] = "cremove" /\ pc' = [pc EXCEPT ![c] = "cpurge"]
          /\ job' = [job EXCEPT ![on[c]] = NoRecord] /\ UNCHANGED <<terminal, on, seen>>
      BY <1>10, <2>2 DEF CancelRemove, Step
    <3>2. on[c] \in Jobs /\ pc[c] \in Inside
      BY <3>1 DEF Inside, SubmitSteps, CancelSteps
    <3>3. /\ \A d \in Clients \ {c} : pc'[d] \notin GoneForFrames \cup Fresh \cup {"state"}
          /\ \A r \in Reconcilers : pc'[r] \notin {"rstate", "rcompleted", "rfailed"}
      BY <3>1, <3>2, FrameAlone
    <3>4. FrameIsTruthful' /\ RecordsNumbered' /\ FramesNumbered'
      BY <3>1, <3>2 DEF FrameInv, FrameIsTruthful, RecordsNumbered, FramesNumbered, NoRecord
    <3>5. ClientsKnow' /\ ReconcilersKnow'
      BY <3>1, <3>2, <3>3 DEF ClientsKnow, ReconcilersKnow, NoRecord, Fresh
    <3> QED BY <3>4, <3>5 DEF FrameInv
  <2> QED BY <2>1, <2>2
<1>11. ASSUME NEW c \in Clients, SubmitReset(c)
      PROVE  FrameInv'
  <2>1. /\ pc[c] = "reset" /\ pc' = [pc EXCEPT ![c] = "admit"]
        /\ terminal' = [terminal EXCEPT ![on[c]] = NoFrame] /\ UNCHANGED <<job, on, seen>>
    BY <1>11 DEF SubmitReset, Step, ForgetEvents
  <2>2. on[c] \in Jobs /\ pc[c] \in Inside
    BY <2>1 DEF Inside, SubmitSteps
  <2>3. /\ \A d \in Clients \ {c} : pc'[d] \notin GoneForFrames \cup Fresh \cup {"state"}
        /\ \A r \in Reconcilers : pc'[r] \notin {"rstate", "rcompleted", "rfailed"}
    BY <2>1, <2>2, FrameAlone
  <2>4. FrameIsTruthful' /\ RecordsNumbered' /\ FramesNumbered'
    BY <2>1, <2>2 DEF FrameInv, FrameIsTruthful, RecordsNumbered, FramesNumbered, TypeInv, StoreTypes
  <2>5. ClientsKnow' /\ ReconcilersKnow'
    BY <2>1, <2>2, <2>3 DEF ClientsKnow, ReconcilersKnow, GoneForFrames, TypeInv, StoreTypes
  <2> QED BY <2>4, <2>5 DEF FrameInv
<1>12. ASSUME NEW c \in Clients, CancelPurge(c)
      PROVE  FrameInv'
  <2>1. /\ pc[c] = "cpurge" /\ pc'[c] = "gone"
        /\ \A q \in Procs \ {c} : pc'[q] = pc[q]
        /\ terminal' = [terminal EXCEPT ![on[c]] = NoFrame] /\ UNCHANGED job
    BY <1>12 DEF CancelPurge, Leave, ForgetEvents
  <2>2. on[c] \in Jobs /\ pc[c] \in Inside
    BY <2>1 DEF Inside, CancelSteps
  <2>3. /\ \A d \in Clients \ {c} : pc'[d] \notin GoneForFrames \cup Fresh \cup {"state"}
        /\ \A r \in Reconcilers : pc'[r] \notin {"rstate", "rcompleted", "rfailed"}
    BY <2>1, <2>2, FrameAlone
  <2>4. FrameIsTruthful' /\ RecordsNumbered' /\ FramesNumbered'
    BY <2>1, <2>2 DEF FrameInv, FrameIsTruthful, RecordsNumbered, FramesNumbered, TypeInv, StoreTypes
  <2>5. ClientsKnow' /\ ReconcilersKnow'
    BY <2>1, <2>2, <2>3 DEF ClientsKnow, ReconcilersKnow, GoneForFrames, Fresh
  <2> QED BY <2>4, <2>5 DEF FrameInv
<1>13. ASSUME NEW c \in Clients, SubmitMeasure(c) \/ SubmitReserve(c)
      PROVE  FrameInv'
  <2>1. /\ pc[c] \in {"measure", "reserve"}
        /\ \E step \in {"reserve", "add", "undo"} : pc' = [pc EXCEPT ![c] = step]
        /\ UNCHANGED <<terminal, on, seen>>
    BY <1>13 DEF SubmitMeasure, SubmitReserve, Step
  <2>2. \A i \in Jobs : /\ job'[i].state = job[i].state /\ job'[i].gen = job[i].gen
                        /\ job'[i].result = job[i].result
    BY <1>13 DEF SubmitMeasure, SubmitReserve, queueVars, Record
  <2>3. /\ \A d \in Clients \ {c} : pc'[d] \notin GoneForFrames \cup Fresh \cup {"state"}
        /\ \A r \in Reconcilers : pc'[r] \notin {"rstate", "rcompleted", "rfailed"}
    BY <2>1, FrameAlone DEF Inside, SubmitSteps
  <2>4. FrameIsTruthful' /\ RecordsNumbered' /\ FramesNumbered'
    BY <2>1, <2>2 DEF FrameInv, FrameIsTruthful, RecordsNumbered, FramesNumbered
  <2>5. ClientsKnow' /\ ReconcilersKnow'
    BY <2>1, <2>3 DEF FrameInv, ClientsKnow, ReconcilersKnow, GoneForFrames, Fresh
  <2> QED BY <2>4, <2>5 DEF FrameInv
<1>14. ASSUME NEW c \in Clients, SubmitAdd(c) \/ SubmitAddFails(c)
      PROVE  FrameInv'
  <2>1. /\ pc[c] = "add" /\ pc'[c] \in {"done", "undo"}
        /\ \A q \in Procs \ {c} : pc'[q] = pc[q]
        /\ UNCHANGED terminal
        /\ Add(on[c]) \/ UNCHANGED queueVars
    BY <1>14 DEF SubmitAdd, SubmitAddFails, Step, Leave
  <2>2. on[c] \in Jobs /\ terminal[on[c]] = NoFrame
    BY <2>1 DEF Inside, SubmitSteps, FrameInv, ClientsKnow, Fresh
  <2>3. \/ UNCHANGED job
        \/ \E rec : /\ job' = [job EXCEPT ![on[c]] = rec]
                    /\ rec.state = "waiting" /\ rec.gen # 0 /\ rec.result = "none"
    <3>1. \A n : /\ [NoRecord EXCEPT !.state = "waiting", !.gen = n, !.request = TRUE].state = "waiting"
                /\ [NoRecord EXCEPT !.state = "waiting", !.gen = n, !.request = TRUE].gen = n
                /\ [NoRecord EXCEPT !.state = "waiting", !.gen = n, !.request = TRUE].result = "none"
      BY DEF NoRecord
    <3>2. lastGen[on[c]] + 1 # 0
      BY <2>2 DEF TypeInv, QueueTypes
    <3>3. \/ UNCHANGED job
          \/ job' = [job EXCEPT ![on[c]] =
                       [NoRecord EXCEPT !.state = "waiting", !.gen = lastGen[on[c]] + 1,
                                        !.request = TRUE]]
      BY <2>1 DEF Add
    <3>4. CASE UNCHANGED job
      BY <3>4
    <3>5. CASE ~UNCHANGED job
      <4> DEFINE rec == [NoRecord EXCEPT !.state = "waiting", !.gen = lastGen[on[c]] + 1,
                                         !.request = TRUE]
      <4>1. rec.state = "waiting" /\ rec.gen # 0 /\ rec.result = "none"
        BY <3>1, <3>2
      <4>2. job' = [job EXCEPT ![on[c]] = rec]
        BY <3>3, <3>5
      <4> HIDE DEF rec
      <4> QED BY <4>1, <4>2
    <3> QED BY <3>4, <3>5
  <2>4. /\ \A d \in Clients \ {c} : pc'[d] \notin GoneForFrames \cup Fresh \cup {"state"}
        /\ \A r \in Reconcilers : pc'[r] \notin {"rstate", "rcompleted", "rfailed"}
    BY <2>1, FrameAlone DEF Inside, SubmitSteps
  <2>5. FrameIsTruthful' /\ RecordsNumbered' /\ FramesNumbered'
    <3>1. CASE UNCHANGED job
      BY <2>1, <3>1 DEF FrameInv, FrameIsTruthful, RecordsNumbered, FramesNumbered
    <3>2. ASSUME NEW rec, job' = [job EXCEPT ![on[c]] = rec],
                 rec.state = "waiting", rec.gen # 0, rec.result = "none"
          PROVE  FrameIsTruthful' /\ RecordsNumbered' /\ FramesNumbered'
      BY <2>1, <2>2, <3>2
      DEF FrameInv, FrameIsTruthful, RecordsNumbered, FramesNumbered
    <3> QED BY <2>3, <3>1, <3>2
  <2>6. ClientsKnow' /\ ReconcilersKnow'
    BY <2>1, <2>4 DEF ClientsKnow, ReconcilersKnow, GoneForFrames, Fresh
  <2> QED BY <2>5, <2>6 DEF FrameInv
<1>15. ASSUME NEW r \in Reconcilers, NEW j \in Jobs, ReconcileBegin(r, j)
      PROVE  FrameInv'
  <2>1. /\ pc' = [pc EXCEPT ![r] = "rstate"] /\ seen' = [seen EXCEPT ![r] = job[j]]
        /\ on' = [on EXCEPT ![r] = j] /\ UNCHANGED <<job, terminal>>
    BY <1>15 DEF ReconcileBegin, Enter
  <2>2. FrameIsTruthful' /\ RecordsNumbered' /\ FramesNumbered' /\ ClientsKnow'
    BY <2>1 DEF FrameInv, FrameIsTruthful, RecordsNumbered, FramesNumbered, ClientsKnow
  <2>3. ReconcilersKnow'
    BY <2>1 DEF FrameInv, RecordsNumbered, ReconcilersKnow, Reads
  <2> QED BY <2>2, <2>3 DEF FrameInv
<1>16. ASSUME NEW r \in Reconcilers, ReconcileState(r)
      PROVE  FrameInv'
  <2>1. /\ pc[r] = "rstate" /\ pc'[r] \in {"rcompleted", "rfailed", "idle"} /\ UNCHANGED job
        /\ \A q \in Procs \ {r} : pc'[q] = pc[q] /\ on'[q] = on[q] /\ seen'[q] = seen[q]
        /\ pc'[r] # "idle" => /\ UNCHANGED <<terminal, on, seen>>
                              /\ job[on[r]].state \in Ended /\ seen[r].state # "none"
        /\ terminal' \in {terminal, [terminal EXCEPT ![on[r]] = NoFrame]}
    BY <1>16 DEF ReconcileState, Step, Leave, IsOutcome
  <2>2. on[r] \in Jobs /\ pc[r] \in Inside
    BY <2>1 DEF Inside, ReconcileSteps
  <2>3. /\ \A d \in Clients : pc'[d] \notin GoneForFrames \cup Fresh \cup {"state"}
        /\ \A q \in Reconcilers \ {r} : pc'[q] \notin {"rstate", "rcompleted", "rfailed"}
    BY <2>1, <2>2, FrameAlone
  <2>4. FrameIsTruthful' /\ RecordsNumbered' /\ FramesNumbered'
    BY <2>1, <2>2 DEF FrameInv, FrameIsTruthful, RecordsNumbered, FramesNumbered, TypeInv, StoreTypes
  <2>5. ClientsKnow' /\ ReconcilersKnow'
    BY <2>1, <2>3 DEF FrameInv, ClientsKnow, ReconcilersKnow, Reads
  <2> QED BY <2>4, <2>5 DEF FrameInv
<1>17. ASSUME NEW r \in Reconcilers, ReconcileAppend(r)
      PROVE  FrameInv'
  <2> DEFINE frame == [gen |-> seen[r].gen,
                       result |-> IF pc[r] = "rcompleted" /\ seen[r].result # "none"
                                  THEN seen[r].result ELSE "internal"]
  <2>1. /\ pc[r] \in {"rcompleted", "rfailed"} /\ pc'[r] \in {"rstrip", "idle"} /\ UNCHANGED job
        /\ \A q \in Procs \ {r} : pc'[q] = pc[q]
        /\ terminal' = terminal \/ terminal' = [terminal EXCEPT ![on[r]] = frame]
    BY <1>17 DEF ReconcileAppend, Step, Leave, Publish
  <2>2. on[r] \in Jobs /\ pc[r] \in Inside
    BY <2>1 DEF Inside, ReconcileSteps
  <2>3. /\ job[on[r]].state \in Ended /\ frame.gen = job[on[r]].gen /\ frame.gen # 0
        /\ frame.result \in {job[on[r]].result, "internal"}
    BY <2>1, <2>2 DEF FrameInv, ReconcilersKnow, Reads, RecordsNumbered, Ended
  <2>4. /\ \A d \in Clients : pc'[d] \notin GoneForFrames \cup Fresh \cup {"state"}
        /\ \A q \in Reconcilers \ {r} : pc'[q] \notin {"rstate", "rcompleted", "rfailed"}
    BY <2>1, <2>2, FrameAlone
  <2> HIDE DEF frame
  <2>5. FrameIsTruthful' /\ RecordsNumbered' /\ FramesNumbered'
    BY <2>1, <2>2, <2>3 DEF FrameInv, FrameIsTruthful, RecordsNumbered, FramesNumbered, TypeInv, StoreTypes
  <2>6. ClientsKnow' /\ ReconcilersKnow'
    BY <2>1, <2>4 DEF ClientsKnow, ReconcilersKnow
  <2> QED BY <2>5, <2>6 DEF FrameInv
<1>18. ASSUME NEW r \in Reconcilers, ReconcileStrip(r)
      PROVE  FrameInv'
  <2>1. /\ pc[r] = "rstrip" /\ pc'[r] = "idle" /\ UNCHANGED terminal
        /\ \A q \in Procs \ {r} : pc'[q] = pc[q]
        /\ job' \in {job, [job EXCEPT ![on[r]].request = FALSE]}
    BY <1>18 DEF ReconcileStrip, Leave
  <2>2. \A i \in Jobs : /\ job'[i].state = job[i].state /\ job'[i].gen = job[i].gen
                        /\ job'[i].result = job[i].result
    BY <2>1 DEF Record
  <2>3. /\ \A d \in Clients : pc'[d] \notin GoneForFrames \cup Fresh \cup {"state"}
        /\ \A q \in Reconcilers \ {r} : pc'[q] \notin {"rstate", "rcompleted", "rfailed"}
    BY <2>1, FrameAlone DEF Inside, ReconcileSteps
  <2>4. FrameIsTruthful' /\ RecordsNumbered' /\ FramesNumbered'
    BY <2>1, <2>2 DEF FrameInv, FrameIsTruthful, RecordsNumbered, FramesNumbered
  <2>5. ClientsKnow' /\ ReconcilersKnow'
    BY <2>1, <2>3 DEF ClientsKnow, ReconcilersKnow
  <2> QED BY <2>4, <2>5 DEF FrameInv
<1>19. ASSUME NEW w \in Workers, NEW j \in Jobs, Take(w, j)
      PROVE  FrameInv'
  <2>1. job[j].state = "waiting" /\ UNCHANGED <<terminal, pc, on, seen>>
    BY <1>19 DEF Take
  <2>2. \A i \in Jobs : /\ job'[i].gen = job[i].gen /\ job'[i].result = job[i].result
                        /\ IF i = j THEN job'[i].state = "active" ELSE job'[i].state = job[i].state
    BY <1>19 DEF Take, Record
  <2> QED BY <2>1, <2>2, FrameWorkers DEF FrameInv, RecordsNumbered, Ended
<1>20. ASSUME NEW w \in Workers, Finish(w)
      PROVE  FrameInv'
  <2>1. UNCHANGED <<terminal, pc, on, seen>> /\ (UNCHANGED job \/ OwnsJob(w))
    BY <1>20 DEF Finish
  <2>2. CASE UNCHANGED job
    BY <2>1, <2>2, FrameWorkers DEF FrameInv, RecordsNumbered
  <2>3. CASE OwnsJob(w)
    <3>1. job[won[w]].state = "active"
      BY <2>3 DEF OwnsJob
    <3>2. \A i \in Jobs : /\ job'[i].gen = job[i].gen
                          /\ i # won[w] => job'[i] = job[i]
                          /\ i = won[w] => job'[i].state \in Ended
      BY <1>20, <2>3 DEF Finish, Record, Ended
    <3> QED BY <2>1, <3>1, <3>2, FrameWorkers DEF FrameInv, RecordsNumbered, Ended
  <2> QED BY <2>1, <2>2, <2>3
<1>21. ASSUME NEW j \in Jobs, Stall(j)
      PROVE  FrameInv'
  <2>1. job[j].state = "active" /\ UNCHANGED <<terminal, pc, on, seen>>
    BY <1>21 DEF Stall, Recovers
  <2>2. \A i \in Jobs : /\ job'[i].gen = job[i].gen /\ job'[i].result = job[i].result
                        /\ IF i = j THEN job'[i].state \in {"waiting", "failed"}
                                    ELSE job'[i].state = job[i].state
    <3>1. CASE job[j].stalls = 0
      BY <1>21, <2>1, <3>1 DEF Stall, Record
    <3>2. CASE job[j].stalls # 0
      BY <1>21, <2>1, <3>2 DEF Stall, Record
    <3> QED BY <3>1, <3>2
  <2> QED BY <2>1, <2>2, FrameWorkers DEF FrameInv, RecordsNumbered, Ended
<1>22. ASSUME NEW w \in Workers, Prepare(w)
      PROVE  FrameInv'
  <2>1. /\ lock = NoOne /\ UNCHANGED <<job, pc, on, seen>>
        /\ terminal' = [terminal EXCEPT ![won[w]] = NoFrame]
    BY <1>22 DEF Prepare
  <2>2. \A p \in Procs : pc[p] \notin Inside
    BY <2>1 DEF MutualExclusion
  <2>3. FrameIsTruthful' /\ RecordsNumbered' /\ FramesNumbered'
    BY <2>1 DEF FrameInv, FrameIsTruthful, RecordsNumbered, FramesNumbered, TypeInv, StoreTypes
  <2>4. ClientsKnow' /\ ReconcilersKnow'
    BY <2>1, <2>2 DEF ClientsKnow, ReconcilersKnow, GoneForFrames, Fresh, Inside, SubmitSteps,
                      CancelSteps, ReconcileSteps
  <2> QED BY <2>3, <2>4 DEF FrameInv
<1>23. ASSUME NEW w \in Workers, 
             \/ PrepareFails(w) \/ Poll(w) \/ Deadline(w)
             \/ Shutdown(w) \/ Decide(w) \/ Crash(w)
      PROVE  FrameInv'
  BY <1>23, FrameWorkers
  DEF PrepareFails, Return, Poll, Deadline, Aborted, Shutdown, Decide, Crash, FrameInv, RecordsNumbered
<1>24. ASSUME NEW j \in Jobs, NotifyLost(j) \/ \E c \in Clients : LeaseExpires(c, j)
      PROVE  FrameInv'
  BY <1>24, FrameWorkers DEF NotifyLost, LeaseExpires, FrameInv, RecordsNumbered
<1>25. ASSUME NEW p \in Procs, Die(p)
      PROVE  FrameInv'
  <2>1. /\ UNCHANGED <<job, terminal, on, seen>>
        /\ \A q \in Procs : pc'[q] \in {pc[q], "dead", "idle"}
    BY <1>25 DEF Die
  <2>2. FrameIsTruthful' /\ RecordsNumbered' /\ FramesNumbered'
    BY <2>1 DEF FrameInv, FrameIsTruthful, RecordsNumbered, FramesNumbered
  <2>3. ClientsKnow' /\ ReconcilersKnow'
    BY <2>1 DEF FrameInv, ClientsKnow, ReconcilersKnow, Reads, GoneForFrames, Fresh
  <2> QED BY <2>2, <2>3 DEF FrameInv
<1>26. ASSUME LockExpires
      PROVE  FrameInv'
  <2>1. /\ UNCHANGED <<job, terminal, on, seen>>
        /\ \A q \in Procs : pc'[q] \in {pc[q], "dead", "idle"}
    BY <1>26 DEF LockExpires
  <2>2. FrameIsTruthful' /\ RecordsNumbered' /\ FramesNumbered'
    BY <2>1 DEF FrameInv, FrameIsTruthful, RecordsNumbered, FramesNumbered
  <2>3. ClientsKnow' /\ ReconcilersKnow'
    BY <2>1 DEF FrameInv, ClientsKnow, ReconcilersKnow, Reads, GoneForFrames, Fresh
  <2> QED BY <2>2, <2>3 DEF FrameInv
<1>27. ASSUME UNCHANGED vars
      PROVE  FrameInv'
  BY <1>27, FrameWorkers DEF vars, FrameInv, RecordsNumbered
<1> QED
  BY <1>1, <1>2, <1>3, <1>4, <1>5, <1>6, <1>7, <1>8, <1>9, <1>10, <1>11, <1>12, <1>13, <1>14, <1>15, <1>16, <1>17, <1>18, <1>19, <1>20, <1>21, <1>22, <1>23, <1>24, <1>25, <1>26, <1>27
  DEF Next

LEMMA FrameInit == Init => FrameInv
  BY DEF Init, FrameInv, FrameIsTruthful, RecordsNumbered, FramesNumbered, ClientsKnow,
         ReconcilersKnow, Procs, NoRecord, GoneForFrames, Fresh

LEMMA FrameAlways == ~LockMayExpire => (Spec => [](TypeInv /\ MutualExclusion /\ FrameInv))
<1> SUFFICES ASSUME ~LockMayExpire
             PROVE  Spec => [](TypeInv /\ MutualExclusion /\ FrameInv)
  OBVIOUS
<1> DEFINE Inv == TypeInv /\ MutualExclusion /\ FrameInv
<1>1. Init => Inv
  BY TypeInit, FrameInit, Outside DEF Init, MutualExclusion
<1>2. Inv /\ [Next]_vars => Inv'
  BY TypeNext, ExclusionNext, FrameNext DEF TypeInv
<1> QED BY <1>1, <1>2, PTL DEF Spec

\* If the lock outlasts its holder, a done frame in the event stream belongs to
\* the generation whose record is stored and claims no more than that record
\* does, whatever is replaced, cancelled, stalled or retried meanwhile
\* (CompileTerminalCoordinator.reconcile, prepareInFlight).
THEOREM FramesAreTruthful == ~LockMayExpire => (Spec => []FrameIsTruthful)
<1>1. FrameInv => FrameIsTruthful
  BY DEF FrameInv
<1> QED BY <1>1, FrameAlways, PTL

FrameKept ==
  \A j \in Jobs :
    terminal[j] # NoFrame /\ job'[j].gen = terminal[j].gen => terminal'[j] = terminal[j]

LEMMA FrameStep ==
  ASSUME TypeInv, FrameInv, [Next]_vars
  PROVE  FrameKept
<1>0. InFlight \cap Ended = {} /\ "none" \notin InFlight
  BY DEF InFlight, Ended
<1>1. ASSUME NEW j \in Jobs, terminal' = [terminal EXCEPT ![j] = NoFrame], UNCHANGED job,
             job[j].state \in InFlight \cup {"none"}
      PROVE  FrameKept
  BY <1>0, <1>1 DEF FrameKept, FrameInv, FrameIsTruthful, RecordsNumbered, FramesNumbered
<1>2. ASSUME UNCHANGED terminal PROVE FrameKept
  BY <1>2 DEF FrameKept
<1>3. ASSUME NEW c \in Clients, SubmitReset(c)
      PROVE  FrameKept
  <2>1. on[c] \in Jobs /\ job[on[c]].state = "none"
    BY <1>3 DEF SubmitReset, Step, FrameInv, ClientsKnow, GoneForFrames, TypeInv, GatewayInv,
                GatewayBusy, Procs, Inside, SubmitSteps
  <2> QED BY <1>1, <1>3, <2>1 DEF SubmitReset, ForgetEvents, queueVars
<1>4. ASSUME NEW c \in Clients, CancelPurge(c)
      PROVE  FrameKept
  <2>1. on[c] \in Jobs /\ job[on[c]].state = "none"
    BY <1>4 DEF CancelPurge, FrameInv, ClientsKnow, GoneForFrames, TypeInv, GatewayInv,
                GatewayBusy, Procs, Inside, CancelSteps
  <2> QED BY <1>1, <1>4, <2>1 DEF CancelPurge, ForgetEvents, queueVars
<1>5. ASSUME NEW w \in Workers, Prepare(w)
      PROVE  FrameKept
  <2>1. won[w] \in Jobs
    BY <1>5 DEF Prepare, TypeInv, WorkerInv, WorkerBusy
  <2> QED BY <1>1, <1>5, <2>1 DEF Prepare, queueVars
<1>6. ASSUME NEW r \in Reconcilers, ReconcileState(r)
      PROVE  FrameKept
  <2>1. on[r] \in Jobs
    BY <1>6 DEF ReconcileState, TypeInv, GatewayInv, GatewayBusy, Procs, Inside, ReconcileSteps
  <2>2. \/ UNCHANGED terminal
        \/ /\ terminal' = [terminal EXCEPT ![on[r]] = NoFrame] /\ UNCHANGED job
           /\ job[on[r]].state \in InFlight
    BY <1>6 DEF ReconcileState, queueVars
  <2> QED BY <1>1, <1>2, <2>1, <2>2
<1>7. ASSUME NEW r \in Reconcilers, ReconcileAppend(r)
      PROVE  FrameKept
  BY <1>7 DEF ReconcileAppend, Publish, FrameKept, TypeInv, StoreTypes
<1>8. ASSUME NEW c \in Clients,
             \/ \E j \in Jobs : SubmitBegin(c, j) \/ LeaseExpires(c, j)
             \/ SubmitBusy(c) \/ SubmitState(c) \/ SubmitServe(c) \/ SubmitJoin(c)
             \/ SubmitRefused(c) \/ SubmitRemove(c) \/ SubmitUnledger(c) \/ SubmitAdmit(c)
             \/ SubmitMeasure(c) \/ SubmitReserve(c) \/ SubmitAdd(c) \/ SubmitAddFails(c)
             \/ SubmitUndo(c)
      PROVE  UNCHANGED terminal
  BY <1>8 DEF SubmitBegin, LeaseExpires, SubmitBusy, SubmitState, SubmitServe, SubmitJoin,
    SubmitRefused, SubmitRemove, SubmitUnledger, SubmitAdmit, SubmitMeasure, SubmitReserve,
    SubmitAdd, SubmitAddFails, SubmitUndo
<1>9. ASSUME NEW c \in Clients,
             \/ CancelBegin(c) \/ CancelState(c) \/ CancelRelease(c) \/ CancelLease(c)
             \/ CancelRecheck(c) \/ CancelRemove(c)
      PROVE  UNCHANGED terminal
  BY <1>9 DEF CancelBegin, CancelState, CancelRelease, CancelLease, CancelRecheck, CancelRemove
<1>10. ASSUME NEW w \in Workers,
              \/ \E j \in Jobs : Take(w, j)
              \/ PrepareFails(w) \/ Poll(w) \/ Deadline(w) \/ Shutdown(w) \/ Decide(w)
              \/ Finish(w) \/ Crash(w)
       PROVE  UNCHANGED terminal
  BY <1>10 DEF Take, PrepareFails, Poll, Deadline, Shutdown, Aborted, Decide, Finish, Crash
<1>11. ASSUME NEW r \in Reconcilers, ReconcileStrip(r) \/ \E j \in Jobs : ReconcileBegin(r, j)
       PROVE  UNCHANGED terminal
  BY <1>11 DEF ReconcileBegin, ReconcileStrip
<1>12. ASSUME \/ \E j \in Jobs : Stall(j) \/ NotifyLost(j)
              \/ \E p \in Procs : Die(p)
              \/ LockExpires \/ UNCHANGED vars
       PROVE  UNCHANGED terminal
  BY <1>12 DEF Stall, NotifyLost, Die, LockExpires, vars
<1> QED
  BY <1>2, <1>3, <1>4, <1>5, <1>6, <1>7, <1>8, <1>9, <1>10, <1>11, <1>12 DEF Next

\* ... and while that record stays, the frame is neither changed nor withdrawn.
THEOREM FramesAreFinal == ~LockMayExpire => (Spec => FrameIsFinal)
<1> SUFFICES ASSUME ~LockMayExpire PROVE Spec => FrameIsFinal
  OBVIOUS
<1>1. TypeInv /\ MutualExclusion /\ FrameInv /\ [Next]_vars => [FrameKept]_vars
  BY FrameStep
<1> QED BY <1>1, FrameAlways, PTL DEF Spec, FrameIsFinal, FrameKept

(***************************************************************************)
(* The lives of a job ID.                                                  *)
(***************************************************************************)
LEMMA LivesVars ==
  UNCHANGED <<lastGen, LifeState, LifeLost, LifeOutcome, LifeSaid>> <=> UNCHANGED Lives!vars
  BY DEF Lives!vars

\* What a reader sees of an ID.
SameLife(j) ==
  /\ job'[j].state = job[j].state /\ job'[j].result = job[j].result
  /\ job'[j].stalls = job[j].stalls
  /\ job[j].state # "none" => terminal'[j].result = terminal[j].result

LEMMA NoLifeMoves ==
  ASSUME UNCHANGED lastGen, \A j \in Jobs : SameLife(j)
  PROVE  UNCHANGED Lives!vars
<1>1. UNCHANGED LifeState /\ UNCHANGED LifeOutcome
  BY DEF SameLife, LifeState, LifeOutcome
<1>2. UNCHANGED LifeLost
  BY DEF SameLife, LifeLost
<1>3. UNCHANGED LifeSaid
  BY DEF SameLife, LifeSaid
<1> QED BY <1>1, <1>2, <1>3, LivesVars

\* Of the other IDs nothing is to be seen.
LEMMA OneLifeMoves ==
  ASSUME NEW j \in Jobs, \A i \in Jobs \ {j} : SameLife(i)
  PROVE  /\ LifeState' = [LifeState EXCEPT ![j] = LifeState'[j]]
         /\ LifeLost' = [LifeLost EXCEPT ![j] = LifeLost'[j]]
         /\ LifeOutcome' = [LifeOutcome EXCEPT ![j] = LifeOutcome'[j]]
         /\ LifeSaid' = [LifeSaid EXCEPT ![j] = LifeSaid'[j]]
<1>1. LifeState' = [LifeState EXCEPT ![j] = LifeState'[j]]
  BY DEF SameLife, LifeState
<1>2. LifeLost' = [LifeLost EXCEPT ![j] = LifeLost'[j]]
  BY DEF SameLife, LifeLost
<1>3. LifeOutcome' = [LifeOutcome EXCEPT ![j] = LifeOutcome'[j]]
  BY DEF SameLife, LifeOutcome
<1>4. LifeSaid' = [LifeSaid EXCEPT ![j] = LifeSaid'[j]]
  BY DEF SameLife, LifeSaid
<1> QED BY <1>1, <1>2, <1>3, <1>4

\* ... and what stays the same of this one stays the same.
LEMMA LifePartStays ==
  ASSUME NEW j \in Jobs, \A i \in Jobs \ {j} : SameLife(i)
  PROVE  /\ LifeLost'[j] = LifeLost[j] => LifeLost' = LifeLost
         /\ LifeOutcome'[j] = LifeOutcome[j] => LifeOutcome' = LifeOutcome
         /\ LifeSaid'[j] = LifeSaid[j] => LifeSaid' = LifeSaid
<1>1. LifeLost'[j] = LifeLost[j] => LifeLost' = LifeLost
  <2> LifeLost = [LifeLost EXCEPT ![j] = LifeLost[j]]
    BY DEF LifeLost
  <2> QED BY OneLifeMoves
<1>2. LifeOutcome'[j] = LifeOutcome[j] => LifeOutcome' = LifeOutcome
  <2> LifeOutcome = [LifeOutcome EXCEPT ![j] = LifeOutcome[j]]
    BY DEF LifeOutcome
  <2> QED BY OneLifeMoves
<1>3. LifeSaid'[j] = LifeSaid[j] => LifeSaid' = LifeSaid
  <2> LifeSaid = [LifeSaid EXCEPT ![j] = LifeSaid[j]]
    BY DEF LifeSaid
  <2> QED BY OneLifeMoves
<1> QED BY <1>1, <1>2, <1>3

LEMMA LifeBegins ==
  ASSUME TypeInv, FrameInv, NEW j \in Jobs, Add(j), terminal[j] = NoFrame, UNCHANGED terminal
  PROVE  [Lives!Next]_(Lives!vars)
<1>1. CASE job[j].state # "none"
  <2>1. UNCHANGED <<job, lastGen>>
    BY <1>1 DEF Add, queueVars
  <2> QED BY <2>1, NoLifeMoves DEF SameLife
<1>2. CASE job[j].state = "none"
  <2>1. /\ lastGen' = [lastGen EXCEPT ![j] = @ + 1]
        /\ \A i \in Jobs \ {j} : job'[i] = job[i]
        /\ job'[j].state = "waiting" /\ job'[j].stalls = 0 /\ job'[j].result = "none"
    BY <1>2 DEF Add, NoRecord, TypeInv, QueueTypes
  <2>2. \A i \in Jobs \ {j} : SameLife(i)
    BY <2>1 DEF SameLife
  <2>3. job[j].result = "none" /\ terminal[j].result = "none"
    BY <1>2 DEF FrameInv, RecordsNumbered, NoFrame, Ended
  <2>4. LifeState[j] = "none" /\ LifeState'[j] = "waiting"
    BY <1>2, <2>1 DEF LifeState, Ended
  <2>5. LifeLost'[j] = LifeLost[j]
    BY <1>2, <2>1 DEF LifeLost
  <2>6. LifeOutcome'[j] = LifeOutcome[j] /\ LifeSaid'[j] = LifeSaid[j]
    BY <1>2, <2>1, <2>3 DEF LifeOutcome, LifeSaid
  <2>7. UNCHANGED <<LifeLost, LifeOutcome, LifeSaid>>
    BY <2>2, <2>5, <2>6, LifePartStays
  <2>8. LifeState' = [LifeState EXCEPT ![j] = "waiting"]
    BY <2>2, <2>4, OneLifeMoves
  <2>9. Lives!Begin(j)
    BY <2>1, <2>4, <2>7, <2>8 DEF Lives!Begin
  <2> QED BY <2>9 DEF Lives!Next
<1> QED BY <1>1, <1>2

LEMMA LifeEnds ==
  ASSUME TypeInv, FrameInv, NEW j \in Jobs, job[j].state # "active",
         job' = [job EXCEPT ![j] = NoRecord], UNCHANGED <<lastGen, terminal>>
  PROVE  [Lives!Next]_(Lives!vars)
<1>1. /\ \A i \in Jobs \ {j} : job'[i] = job[i]
      /\ job'[j].state = "none" /\ job'[j].stalls = 0 /\ job'[j].result = "none"
  BY DEF NoRecord, TypeInv, QueueTypes
<1>2. \A i \in Jobs \ {j} : SameLife(i)
  BY <1>1 DEF SameLife
<1>3. LifeState'[j] = "none" /\ LifeOutcome'[j] = "none" /\ LifeSaid'[j] = "none"
  BY <1>1 DEF LifeState, LifeOutcome, LifeSaid, Ended
<1>4. LifeLost'[j] = FALSE
  BY <1>1 DEF LifeLost
<1>5. LifeState' = [LifeState EXCEPT ![j] = "none"] /\ LifeLost' = [LifeLost EXCEPT ![j] = FALSE]
  BY <1>2, <1>3, <1>4, OneLifeMoves
<1>6. LifeOutcome' = [LifeOutcome EXCEPT ![j] = "none"] /\ LifeSaid' = [LifeSaid EXCEPT ![j] = "none"]
  BY <1>2, <1>3, OneLifeMoves
<1>7. CASE job[j].state # "none"
  <2>1. job[j].state \in {"waiting"} \cup Ended
    BY <1>7 DEF TypeInv, QueueTypes, Record, InFlight
  <2>2. LifeState[j] \in {"waiting", "over"}
    BY <2>1 DEF LifeState
  <2>3. Lives!End(j)
    BY <1>5, <1>6, <2>2 DEF Lives!End
  <2> QED BY <2>3 DEF Lives!Next
<1>8. CASE job[j].state = "none"
  <2>1. LifeState[j] = "none" /\ LifeOutcome[j] = "none" /\ LifeSaid[j] = "none"
    BY <1>8 DEF LifeState, LifeOutcome, LifeSaid, Ended, FrameInv, RecordsNumbered
  <2>2. LifeLost[j] = FALSE
    BY <1>8 DEF LifeLost
  <2>3. UNCHANGED <<LifeState, LifeLost, LifeOutcome, LifeSaid>>
    BY <1>5, <1>6, <2>1, <2>2 DEF LifeState, LifeLost, LifeOutcome, LifeSaid
  <2> QED BY <2>3, LivesVars
<1> QED BY <1>7, <1>8

\* The record of an ID moves on, and nothing is said.
LEMMA LifeMoves ==
  ASSUME TypeInv, FrameInv, NEW j \in Jobs, UNCHANGED <<lastGen, terminal>>,
         \A i \in Jobs \ {j} : SameLife(i), job[j].state # "none", job'[j].state # "none"
  PROVE  LifeSaid' = LifeSaid
<1>1. LifeSaid'[j] = LifeSaid[j]
  BY DEF LifeSaid
<1> QED BY <1>1, LifePartStays

LEMMA LifeTaken ==
  ASSUME TypeInv, FrameInv, NEW w \in Workers, NEW j \in Jobs, Take(w, j)
  PROVE  [Lives!Next]_(Lives!vars)
<1>1. /\ job[j].state = "waiting" /\ job'[j].state = "active"
      /\ job'[j].stalls = job[j].stalls /\ job'[j].result = job[j].result
      /\ \A i \in Jobs \ {j} : job'[i] = job[i]
      /\ UNCHANGED <<lastGen, terminal>>
  BY DEF Take, TypeInv, QueueTypes, Record
<1>2. \A i \in Jobs \ {j} : SameLife(i)
  BY <1>1 DEF SameLife
<1>3. LifeSaid' = LifeSaid
  BY <1>1, <1>2, LifeMoves
<1>4. LifeState[j] = "waiting" /\ LifeState'[j] = "active" /\ LifeOutcome'[j] = LifeOutcome[j]
  BY <1>1 DEF LifeState, LifeOutcome, Ended
<1>5. LifeLost'[j] = LifeLost[j]
  BY <1>1 DEF LifeLost
<1>6. LifeState' = [LifeState EXCEPT ![j] = "active"] /\ UNCHANGED <<LifeLost, LifeOutcome>>
  BY <1>2, <1>4, <1>5, OneLifeMoves, LifePartStays
<1>7. Lives!Try(j)
  BY <1>1, <1>3, <1>4, <1>6 DEF Lives!Try
<1> QED BY <1>7 DEF Lives!Next

\* A try comes to its outcome.
LEMMA LifeSettles ==
  ASSUME TypeInv, FrameInv, NEW j \in Jobs, NEW r \in {"none"} \cup Results,
         UNCHANGED <<lastGen, terminal>>, \A i \in Jobs \ {j} : job'[i] = job[i],
         job[j].state = "active", job'[j].state \in Ended,
         job'[j].result = r, job'[j].stalls = job[j].stalls
  PROVE  [Lives!Next]_(Lives!vars)
<1>2. \A i \in Jobs \ {j} : SameLife(i)
  BY DEF SameLife
<1>3. LifeSaid' = LifeSaid
  BY <1>2, LifeMoves DEF Ended
<1>4. LifeState[j] = "active" /\ LifeState'[j] = "over" /\ LifeOutcome'[j] = r
  BY DEF LifeState, LifeOutcome, Ended
<1>5. LifeLost'[j] = LifeLost[j]
  BY DEF LifeLost, Ended
<1>6. LifeState' = [LifeState EXCEPT ![j] = "over"] /\ LifeOutcome' = [LifeOutcome EXCEPT ![j] = r]
  BY <1>2, <1>4, OneLifeMoves
<1>7. UNCHANGED LifeLost
  BY <1>2, <1>5, LifePartStays
<1>8. Lives!Settle(j, r)
  BY <1>3, <1>4, <1>6, <1>7 DEF Lives!Settle
<1> QED BY <1>8 DEF Lives!Next

LEMMA LifeFinishes ==
  ASSUME TypeInv, FrameInv, NEW w \in Workers, Finish(w)
  PROVE  [Lives!Next]_(Lives!vars)
<1> DEFINE j == won[w]
<1>1. j \in Jobs /\ ReturnValue(w) \in {"none"} \cup Results
  BY DEF Finish, ReturnValue, TypeInv, WorkerInv, WorkerTypes, WorkerBusy
<1>2. CASE OwnsJob(w)
  <2>1. /\ job' = [job EXCEPT ![j].state  = IF ret[w] = "fail" THEN "failed" ELSE "completed",
                              ![j].result = ReturnValue(w), ![j].owner  = NoOne]
        /\ job[j].state = "active" /\ UNCHANGED <<lastGen, terminal>>
    BY <1>2 DEF Finish, OwnsJob
  <2>2. /\ job'[j].state \in Ended /\ job'[j].result = ReturnValue(w)
        /\ job'[j].stalls = job[j].stalls /\ \A i \in Jobs \ {j} : job'[i] = job[i]
    BY <1>1, <2>1 DEF TypeInv, QueueTypes, Record, Ended
  <2> QED BY <1>1, <2>1, <2>2, LifeSettles
<1>3. CASE ~OwnsJob(w)
  <2>1. UNCHANGED <<job, lastGen, terminal>>
    BY <1>3 DEF Finish
  <2> QED BY <2>1, NoLifeMoves DEF SameLife
<1> QED BY <1>2, <1>3

LEMMA LifeStalls ==
  ASSUME TypeInv, FrameInv, NEW j \in Jobs, Stall(j)
  PROVE  [Lives!Next]_(Lives!vars)
<1>1. job[j].state = "active" /\ job[j].result = "none" /\ UNCHANGED <<lastGen, terminal>>
  BY DEF Stall, Recovers, FrameInv, RecordsNumbered, Ended
<1>2. CASE job[j].stalls # 0
  <2>1. /\ job'[j].state = "failed" /\ job'[j].result = "none" /\ job'[j].stalls = job[j].stalls
        /\ \A i \in Jobs \ {j} : job'[i] = job[i]
    BY <1>1, <1>2 DEF Stall, TypeInv, QueueTypes, Record
  <2> QED BY <1>1, <2>1, LifeSettles DEF Ended
<1>3. CASE job[j].stalls = 0
  <2>1. /\ job'[j].state = "waiting" /\ job'[j].result = "none" /\ job'[j].stalls = 1
        /\ \A i \in Jobs \ {j} : job'[i] = job[i]
    BY <1>1, <1>3 DEF Stall, TypeInv, QueueTypes, Record
  <2>2. \A i \in Jobs \ {j} : SameLife(i)
    BY <1>1, <2>1 DEF SameLife
  <2>3. LifeSaid' = LifeSaid
    BY <1>1, <2>1, <2>2, LifeMoves
  <2>4. LifeState[j] = "active" /\ LifeState'[j] = "waiting" /\ LifeOutcome'[j] = LifeOutcome[j]
    BY <1>1, <2>1 DEF LifeState, LifeOutcome, Ended
  <2>5. ~LifeLost[j] /\ LifeLost'[j] = TRUE
    <3>1. job[j].stalls # 1
      BY <1>3
    <3> QED BY <2>1, <3>1 DEF LifeLost
  <2>6. LifeState' = [LifeState EXCEPT ![j] = "waiting"] /\ UNCHANGED LifeOutcome
    BY <2>2, <2>4, OneLifeMoves, LifePartStays
  <2>7. LifeLost' = [LifeLost EXCEPT ![j] = TRUE]
    BY <2>2, <2>5, OneLifeMoves
  <2>8. Lives!Lose(j)
    BY <1>1, <2>3, <2>4, <2>5, <2>6, <2>7 DEF Lives!Lose
  <2> QED BY <2>8 DEF Lives!Next
<1> QED BY <1>2, <1>3

\* The frame is written of the record that is stored, once.
LEMMA LifeSays ==
  ASSUME TypeInv, FrameInv, NEW r \in Reconcilers, ReconcileAppend(r)
  PROVE  [Lives!Next]_(Lives!vars)
<1> DEFINE j == on[r]
           value == IF pc[r] = "rcompleted" /\ seen[r].result # "none"
                    THEN seen[r].result ELSE "internal"
<1>1. /\ pc[r] \in {"rcompleted", "rfailed"} /\ UNCHANGED <<job, lastGen>>
      /\ Publish(j, [gen |-> seen[r].gen, result |-> value])
  BY DEF ReconcileAppend, queueVars
<1>2. j \in Jobs /\ job[j].state \in Ended /\ seen[r] \in Record
      /\ (seen[r].result # "none" => job[j].result = seen[r].result)
  BY <1>1 DEF FrameInv, ReconcilersKnow, Reads, TypeInv, GatewayInv, GatewayTypes, GatewayBusy,
              Procs, Inside, ReconcileSteps
<1>3. value \in {job[j].result, "internal"} \ {"none"} /\ value \in Results
  BY <1>2 DEF Record, Results
<1> HIDE DEF j, value
<1>4. CASE terminal[j] # NoFrame
  BY <1>1, <1>4, NoLifeMoves DEF Publish, SameLife
<1>5. CASE terminal[j] = NoFrame
  <2>1. /\ terminal'[j].result = value /\ \A i \in Jobs \ {j} : terminal'[i] = terminal[i]
        /\ terminal[j].result = "none"
    BY <1>1, <1>2, <1>5 DEF Publish, NoFrame, TypeInv, StoreTypes
  <2>2. \A i \in Jobs \ {j} : SameLife(i)
    BY <1>1, <2>1 DEF SameLife
  <2>3. UNCHANGED <<LifeState, LifeLost, LifeOutcome>>
    BY <1>1 DEF LifeState, LifeLost, LifeOutcome
  <2>4. LifeState[j] = "over" /\ LifeSaid[j] = "none" /\ LifeSaid'[j] = value /\ LifeOutcome[j] = job[j].result
    BY <1>1, <1>2, <2>1 DEF LifeState, LifeSaid, LifeOutcome, Ended
  <2>5. LifeSaid' = [LifeSaid EXCEPT ![j] = value]
    BY <1>2, <2>2, <2>4, OneLifeMoves
  <2>6. Lives!Say(j, value)
    BY <1>1, <1>3, <2>3, <2>4, <2>5 DEF Lives!Say
  <2> QED BY <1>2, <1>3, <2>6 DEF Lives!Next
<1> QED BY <1>4, <1>5

\* Frames that go are of no record, or of one in flight, which has none.
LEMMA LifeForgets ==
  ASSUME TypeInv, FrameInv, NEW j \in Jobs, terminal' = [terminal EXCEPT ![j] = NoFrame],
         UNCHANGED <<job, lastGen>>, job[j].state \in InFlight \cup {"none"}
  PROVE  UNCHANGED Lives!vars
<1>1. job[j].state # "none" => terminal[j] = NoFrame
  BY DEF FrameInv, FrameIsTruthful, InFlight, Ended
<1>2. \A i \in Jobs : SameLife(i)
  BY <1>1 DEF SameLife, TypeInv, StoreTypes
<1> QED BY <1>2, NoLifeMoves

LEMMA LivesNext ==
  ASSUME TypeInv, FrameInv, [Next]_vars
  PROVE  [Lives!Next]_(Lives!vars)
<1>1. ASSUME UNCHANGED <<queueVars, terminal>> PROVE UNCHANGED Lives!vars
  BY <1>1, NoLifeMoves DEF queueVars, SameLife
<1>2. ASSUME NEW c \in Clients,
             \/ \E j \in Jobs : SubmitBegin(c, j) \/ LeaseExpires(c, j)
             \/ SubmitBusy(c) \/ SubmitState(c) \/ SubmitServe(c) \/ SubmitJoin(c)
             \/ SubmitRefused(c) \/ SubmitUnledger(c) \/ SubmitAdmit(c)
             \/ SubmitReserve(c) \/ SubmitUndo(c)
      PROVE  UNCHANGED <<queueVars, terminal>>
  BY <1>2 DEF SubmitBegin, LeaseExpires, SubmitBusy, SubmitState, SubmitServe, SubmitJoin,
    SubmitRefused, SubmitUnledger, SubmitAdmit, SubmitReserve, SubmitUndo
<1>3. ASSUME NEW c \in Clients,
             \/ CancelBegin(c) \/ CancelState(c) \/ CancelRelease(c) \/ CancelLease(c)
             \/ CancelRecheck(c)
      PROVE  UNCHANGED <<queueVars, terminal>>
  BY <1>3 DEF CancelBegin, CancelState, CancelRelease, CancelLease, CancelRecheck
<1>4. ASSUME NEW w \in Workers,
              \/ PrepareFails(w) \/ Poll(w) \/ Deadline(w) \/ Shutdown(w) \/ Decide(w)
              \/ Crash(w)
      PROVE  UNCHANGED <<queueVars, terminal>>
  BY <1>4 DEF PrepareFails, Return, Poll, Deadline, Shutdown, Aborted, Decide, Crash, queueVars
<1>5. ASSUME \/ \E r \in Reconcilers, j \in Jobs : ReconcileBegin(r, j)
             \/ \E j \in Jobs : NotifyLost(j)
             \/ \E p \in Procs : Die(p)
             \/ LockExpires \/ UNCHANGED vars
      PROVE  UNCHANGED <<queueVars, terminal>>
  BY <1>5 DEF ReconcileBegin, NotifyLost, Die, LockExpires, vars, queueVars
<1>6. ASSUME NEW c \in Clients, pc[c] \in Inside PROVE on[c] \in Jobs
  BY <1>6 DEF TypeInv, GatewayInv, GatewayBusy, Procs
<1>7. ASSUME NEW c \in Clients, SubmitRemove(c) \/ CancelRemove(c)
      PROVE  [Lives!Next]_(Lives!vars)
  <2>1. on[c] \in Jobs
    BY <1>6, <1>7 DEF SubmitRemove, CancelRemove, Inside, SubmitSteps, CancelSteps
  <2>2. /\ UNCHANGED <<lastGen, terminal>>
        /\ \/ UNCHANGED job
           \/ job[on[c]].state # "active" /\ job' = [job EXCEPT ![on[c]] = NoRecord]
    BY <1>7 DEF SubmitRemove, CancelRemove
  <2>3. CASE UNCHANGED job
    BY <1>1, <2>2, <2>3 DEF queueVars
  <2> QED BY <2>1, <2>2, <2>3, LifeEnds
<1>8. ASSUME NEW c \in Clients, SubmitReset(c) \/ CancelPurge(c)
      PROVE  UNCHANGED Lives!vars
  <2>1. pc[c] \in GoneForFrames /\ pc[c] \in Inside
    BY <1>8 DEF SubmitReset, CancelPurge, Step, GoneForFrames, Inside, SubmitSteps, CancelSteps
  <2>2. on[c] \in Jobs /\ job[on[c]].state = "none"
    BY <1>6, <2>1 DEF FrameInv, ClientsKnow
  <2>3. terminal' = [terminal EXCEPT ![on[c]] = NoFrame] /\ UNCHANGED <<job, lastGen>>
    BY <1>8 DEF SubmitReset, CancelPurge, ForgetEvents, queueVars
  <2> QED BY <2>2, <2>3, LifeForgets
<1>9. ASSUME NEW c \in Clients, SubmitMeasure(c)
      PROVE  UNCHANGED Lives!vars
  <2>1. /\ UNCHANGED <<lastGen, terminal>>
        /\ \A i \in Jobs : job'[i] \in {job[i], [job[i] EXCEPT !.request = FALSE]}
    BY <1>9 DEF SubmitMeasure
  <2>2. \A i \in Jobs : SameLife(i)
    BY <2>1 DEF SameLife, TypeInv, QueueTypes, Record
  <2> QED BY <2>1, <2>2, NoLifeMoves
<1>10. ASSUME NEW c \in Clients, SubmitAdd(c) \/ SubmitAddFails(c)
       PROVE  [Lives!Next]_(Lives!vars)
  <2>1. /\ pc[c] = "add" /\ UNCHANGED terminal
        /\ Add(on[c]) \/ UNCHANGED queueVars
    BY <1>10 DEF SubmitAdd, SubmitAddFails, Step
  <2>2. on[c] \in Jobs /\ terminal[on[c]] = NoFrame
    BY <1>6, <2>1 DEF FrameInv, ClientsKnow, Fresh, Inside, SubmitSteps
  <2>3. CASE UNCHANGED queueVars
    BY <1>1, <2>1, <2>3
  <2> QED BY <2>1, <2>2, <2>3, LifeBegins
<1>11. ASSUME NEW w \in Workers, Prepare(w)
       PROVE  UNCHANGED Lives!vars
  <2>1. won[w] \in Jobs
    BY <1>11 DEF Prepare, TypeInv, WorkerInv, WorkerBusy
  <2>2. /\ job[won[w]].state \in InFlight /\ UNCHANGED <<job, lastGen>>
        /\ terminal' = [terminal EXCEPT ![won[w]] = NoFrame]
    BY <1>11 DEF Prepare, queueVars
  <2> QED BY <2>1, <2>2, LifeForgets
<1>12. ASSUME NEW r \in Reconcilers, ReconcileState(r)
       PROVE  UNCHANGED Lives!vars
  <2>1. on[r] \in Jobs
    BY <1>12 DEF ReconcileState, TypeInv, GatewayInv, GatewayBusy, Procs, Inside, ReconcileSteps
  <2>2. /\ UNCHANGED <<job, lastGen>>
        /\ \/ UNCHANGED terminal
           \/ /\ terminal' = [terminal EXCEPT ![on[r]] = NoFrame]
              /\ job[on[r]].state \in InFlight
    BY <1>12 DEF ReconcileState, queueVars
  <2>3. CASE UNCHANGED terminal
    BY <1>1, <2>2, <2>3 DEF queueVars
  <2> QED BY <2>1, <2>2, <2>3, LifeForgets
<1>13. ASSUME NEW r \in Reconcilers, ReconcileStrip(r)
       PROVE  UNCHANGED Lives!vars
  <2>1. on[r] \in Jobs
    BY <1>13 DEF ReconcileStrip, TypeInv, GatewayInv, GatewayBusy, Procs, Inside, ReconcileSteps
  <2>2. /\ UNCHANGED <<lastGen, terminal>>
        /\ job' \in {job, [job EXCEPT ![on[r]].request = FALSE]}
    BY <1>13 DEF ReconcileStrip
  <2>3. \A i \in Jobs : SameLife(i)
    BY <2>1, <2>2 DEF SameLife, TypeInv, QueueTypes, Record
  <2> QED BY <2>2, <2>3, NoLifeMoves
<1>14. ASSUME \E r \in Reconcilers : ReconcileAppend(r) PROVE [Lives!Next]_(Lives!vars)
  BY <1>14, LifeSays
<1>15. ASSUME \E w \in Workers : Finish(w) \/ \E j \in Jobs : Take(w, j)
       PROVE  [Lives!Next]_(Lives!vars)
  BY <1>15, LifeFinishes, LifeTaken
<1>16. ASSUME \E j \in Jobs : Stall(j) PROVE [Lives!Next]_(Lives!vars)
  BY <1>16, LifeStalls
<1> QED
  BY <1>1, <1>2, <1>3, <1>4, <1>5, <1>7, <1>8, <1>9, <1>10, <1>11, <1>12, <1>13, <1>14, <1>15,
     <1>16 DEF Next

\* The distributed queue implements JobLives as long as the lock outlasts its
\* holder: one published outcome a life, whoever submits, cancels, stalls, comes
\* late or reconciles meanwhile (distributed-queue.ts, queue-terminal.ts).
THEOREM QueueKeepsLives == ~LockMayExpire => (Spec => KeepsLives)
<1> SUFFICES ASSUME ~LockMayExpire PROVE Spec => KeepsLives
  OBVIOUS
<1>1. Init => Lives!Init
  <2>1. SUFFICES ASSUME Init PROVE Lives!Init
    OBVIOUS
  <2>2. \A j \in Jobs : /\ lastGen[j] = 0 /\ job[j].state = "none" /\ job[j].result = "none"
                         /\ (job[j].state # "none" /\ job[j].stalls = 1) = FALSE
    BY <2>1 DEF Init, NoRecord
  <2>3. LifeState = [j \in Jobs |-> "none"] /\ LifeLost = [j \in Jobs |-> FALSE]
    BY <2>2 DEF LifeState, LifeLost, Ended
  <2>4. LifeOutcome = [j \in Jobs |-> "none"] /\ LifeSaid = [j \in Jobs |-> "none"]
    BY <2>2 DEF LifeOutcome, LifeSaid
  <2> QED BY <2>1, <2>3, <2>4 DEF Init, Lives!Init
<1>2. TypeInv /\ MutualExclusion /\ FrameInv /\ [Next]_vars => [Lives!Next]_(Lives!vars)
  BY LivesNext
<1> QED BY <1>1, <1>2, FrameAlways, PTL DEF Spec, KeepsLives, Lives!Spec

(***************************************************************************)
(* Who is attached to a job.                                               *)
(***************************************************************************)
\* The client has a ticket for the generation that is in flight.
Attached(c) ==
  /\ ticket[c] # 0
  /\ job[on[c]].state \in InFlight
  /\ job[on[c]].gen = ticket[c]

\* Tickets and records carry generations that were added; who submits has none.
TicketsKnown ==
  /\ \A c \in Clients : ticket[c] # 0 => on[c] \in Jobs /\ ticket[c] <= lastGen[on[c]]
  /\ \A c \in Clients : pc[c] \in SubmitSteps \cup {"idle", "gone"} => ticket[c] = 0
  /\ \A j \in Jobs : job[j].gen <= lastGen[j]

\* From the reservation of a lease on, the submitter's is there, and nobody
\* else has a ticket for what it is about to add, or has added unawares.
Reserved == {"measure", "reserve", "add", "undo"}
LeasesKnown ==
  \A c \in Clients :
    /\ pc[c] \in Fresh => job[on[c]].state = "none"
    /\ pc[c] = "serve" => job[on[c]].state \in Ended
    /\ pc[c] \in Reserved => c \in leases[on[c]] /\ ~marker[on[c]]
    /\ pc[c] = "undo" =>
         \A d \in Clients : ticket[d] # 0 /\ on[d] = on[c] => job[on[c]].gen # ticket[d]

\* A worker that was told to stop the generation it owns finds it marked.
AbortsKnown ==
  \A w \in Workers :
    /\ abort[w] # "none" => wpc[w] \in {"running", "returning"}
    /\ abort[w] = "cancel" /\ OwnsJob(w) => marker[won[w]]

ConsumerInv == ConsumerKeepsJob /\ TicketsKnown /\ LeasesKnown /\ AbortsKnown

\* The steps of ConsumerInv's clients that are not at one of them.
LEMMA ConsumerSteps ==
  /\ Fresh \cup Reserved \cup {"serve"} \subseteq SubmitSteps
  /\ SubmitSteps \subseteq Inside
  /\ (SubmitSteps \cup {"idle", "gone"}) \cap (CancelSteps \cup {"done", "dead"}) = {}
BY DEF Fresh, Reserved, SubmitSteps, CancelSteps, Inside

\* A step of a client that leaves the records alone: what it takes from the
\* leases and puts into the marker is nobody else's.
LEMMA ConsumerClientStep ==
  ASSUME TypeInv, ConsumerInv, NEW c \in Clients, UNCHANGED <<queueVars, workerVars>>,
         \A d \in Clients \ {c} :
           /\ pc'[d] = pc[d] /\ on'[d] = on[d] /\ ticket'[d] = ticket[d]
           /\ Attached(d) => d \in leases'[on[d]] /\ ~marker'[on[d]]
           /\ pc[d] \in Reserved => d \in leases'[on[d]] /\ ~marker'[on[d]],
         ticket'[c] # 0 =>
           /\ on'[c] \in Jobs /\ ticket'[c] <= lastGen[on'[c]]
           /\ job[on'[c]].state \in InFlight /\ job[on'[c]].gen = ticket'[c] =>
                c \in leases'[on'[c]] /\ ~marker'[on'[c]],
         \A d \in Clients : pc[d] = "undo" /\ d # c /\ on[d] = on'[c] /\ ticket'[c] # 0 =>
           job[on[d]].gen # ticket'[c],
         \A w \in Workers : abort[w] = "cancel" /\ OwnsJob(w) => marker'[won[w]],
         pc'[c] \in SubmitSteps \cup {"idle", "gone"} => ticket'[c] = 0,
         pc'[c] \in Fresh => job[on'[c]].state = "none",
         pc'[c] = "serve" => job[on'[c]].state \in Ended,
         pc'[c] \in Reserved => c \in leases'[on'[c]] /\ ~marker'[on'[c]],
         pc'[c] = "undo" =>
           \A d \in Clients \ {c} : ticket[d] # 0 /\ on[d] = on'[c] => job[on'[c]].gen # ticket[d]
  PROVE  ConsumerInv'
<1> USE DEF queueVars, workerVars
<1>1. ConsumerKeepsJob'
  BY DEF ConsumerKeepsJob, Attached
<1>2. TicketsKnown'
  BY DEF ConsumerInv, TicketsKnown
<1>3. LeasesKnown'
  <2>1. \A d \in Clients :
          /\ pc'[d] \in Fresh => job'[on'[d]].state = "none"
          /\ pc'[d] = "serve" => job'[on'[d]].state \in Ended
          /\ pc'[d] \in Reserved => d \in leases'[on'[d]] /\ ~marker'[on'[d]]
    BY DEF ConsumerInv, LeasesKnown
  <2>2. ASSUME NEW d \in Clients, pc'[d] = "undo", NEW e \in Clients,
               ticket'[e] # 0, on'[e] = on'[d]
        PROVE  job'[on'[d]].gen # ticket'[e]
    <3>1. CASE d = c
      <4>1. e # c
        BY <2>2, <3>1 DEF SubmitSteps
      <4> QED BY <2>2, <3>1, <4>1
    <3>2. CASE d # c /\ e = c
      BY <2>2, <3>2
    <3>3. CASE d # c /\ e # c
      BY <2>2, <3>3 DEF ConsumerInv, LeasesKnown
    <3> QED BY <3>1, <3>2, <3>3
  <2> QED BY <2>1, <2>2 DEF LeasesKnown
<1>4. AbortsKnown'
  BY DEF ConsumerInv, AbortsKnown, OwnsJob
<1> QED BY <1>1, <1>2, <1>3, <1>4 DEF ConsumerInv

\* Nobody but the client inside its section is at one of the steps.
LEMMA ConsumerAlone ==
  ASSUME MutualExclusion, NEW c \in Clients, pc[c] \in Inside
  PROVE  \A d \in Clients \ {c} : pc[d] \notin Fresh \cup Reserved \cup {"serve"}
BY OneInside, ConsumerSteps DEF Procs

\* A step of a client that leaves the records, the leases and the marker alone.
LEMMA ConsumerQuietStep ==
  ASSUME TypeInv, ConsumerInv, NEW c \in Clients,
         UNCHANGED <<queueVars, leaseVars, workerVars>>,
         \A d \in Clients \ {c} : pc'[d] = pc[d] /\ on'[d] = on[d] /\ ticket'[d] = ticket[d],
         ticket'[c] = 0 \/ (ticket'[c] = ticket[c] /\ on'[c] = on[c]),
         pc'[c] \in SubmitSteps \cup {"idle", "gone"} => ticket'[c] = 0,
         pc'[c] \in Fresh => job[on'[c]].state = "none",
         pc'[c] = "serve" => job[on'[c]].state \in Ended,
         pc'[c] \in Reserved => pc[c] \in Reserved /\ on'[c] = on[c],
         pc'[c] = "undo" => pc[c] = "undo" \/ job[on'[c]].gen = 0
  PROVE  ConsumerInv'
<1> USE DEF queueVars, leaseVars, workerVars
<1>1. \A d \in Clients \ {c} :
        /\ Attached(d) => d \in leases'[on[d]] /\ ~marker'[on[d]]
        /\ pc[d] \in Reserved => d \in leases'[on[d]] /\ ~marker'[on[d]]
  BY DEF ConsumerInv, ConsumerKeepsJob, Attached, LeasesKnown
<1>2. ticket'[c] # 0 =>
        /\ on'[c] \in Jobs /\ ticket'[c] <= lastGen[on'[c]]
        /\ job[on'[c]].state \in InFlight /\ job[on'[c]].gen = ticket'[c] =>
             c \in leases'[on'[c]] /\ ~marker'[on'[c]]
  BY DEF ConsumerInv, ConsumerKeepsJob, TicketsKnown
<1>3. \A d \in Clients : pc[d] = "undo" /\ d # c /\ on[d] = on'[c] /\ ticket'[c] # 0 =>
        job[on[d]].gen # ticket'[c]
  BY DEF ConsumerInv, LeasesKnown
<1>4. \A w \in Workers : abort[w] = "cancel" /\ OwnsJob(w) => marker'[won[w]]
  BY DEF ConsumerInv, AbortsKnown
<1>5. pc'[c] \in Reserved => c \in leases'[on'[c]] /\ ~marker'[on'[c]]
  BY DEF ConsumerInv, LeasesKnown
<1>6. pc'[c] = "undo" =>
        \A d \in Clients \ {c} : ticket[d] # 0 /\ on[d] = on'[c] => job[on'[c]].gen # ticket[d]
  BY DEF ConsumerInv, LeasesKnown, Reserved
<1> QED BY <1>1, <1>2, <1>3, <1>4, <1>5, <1>6, ConsumerClientStep

\* ... that leaves all but the leases and the marker of its own job alone, while
\* that job is not in flight or the others keep what they have.
LEMMA ConsumerOwnStep ==
  ASSUME TypeInv, MutualExclusion, ConsumerInv, NEW c \in Clients, pc[c] \in Inside,
         on[c] \in Jobs, UNCHANGED <<queueVars, workerVars>>,
         \A d \in Clients \ {c} : pc'[d] = pc[d] /\ on'[d] = on[d] /\ ticket'[d] = ticket[d],
         \A i \in Jobs \ {on[c]} : leases'[i] = leases[i] /\ marker'[i] = marker[i],
         \A d \in Clients \ {c} : on[d] = on[c] /\ Attached(d) =>
           d \in leases'[on[c]] /\ ~marker'[on[c]],
         \A w \in Workers : abort[w] = "cancel" /\ OwnsJob(w) /\ won[w] = on[c] =>
           marker'[on[c]],
         ticket'[c] # 0 =>
           /\ on'[c] = on[c] /\ ticket'[c] <= lastGen[on[c]]
           /\ c \in leases'[on[c]] /\ ~marker'[on[c]],
         pc'[c] \in SubmitSteps \cup {"idle", "gone"} => ticket'[c] = 0,
         pc'[c] # "serve",
         pc'[c] \in Fresh => job[on[c]].state = "none" /\ on'[c] = on[c],
         pc'[c] \in Reserved => c \in leases'[on[c]] /\ ~marker'[on[c]] /\ on'[c] = on[c],
         pc'[c] # "undo"
  PROVE  ConsumerInv'
<1>1. \A d \in Clients \ {c} : pc[d] \notin Reserved
  BY ConsumerAlone
<1>2. ASSUME NEW d \in Clients \ {c}, Attached(d)
      PROVE  d \in leases'[on[d]] /\ ~marker'[on[d]]
  <2>1. on[d] \in Jobs /\ d \in leases[on[d]] /\ ~marker[on[d]]
    BY <1>2 DEF ConsumerInv, TicketsKnown, ConsumerKeepsJob, Attached
  <2> QED BY <1>2, <2>1
<1>3. ASSUME NEW w \in Workers, abort[w] = "cancel", OwnsJob(w) PROVE marker'[won[w]]
  <2>1. marker[won[w]] /\ wpc[w] # "idle"
    BY <1>3 DEF ConsumerInv, AbortsKnown
  <2>2. won[w] \in Jobs
    BY <2>1 DEF TypeInv, WorkerInv, WorkerBusy
  <2> QED BY <1>3, <2>1, <2>2
<1>4. \A d \in Clients : pc[d] = "undo" /\ d # c => FALSE
  BY <1>1 DEF Reserved
<1> QED BY <1>1, <1>2, <1>3, <1>4, ConsumerClientStep

\* Workers and BullMQ neither add nor remove a record nor touch a lease.
LEMMA ConsumerWorkers ==
  ASSUME ConsumerInv, UNCHANGED <<lastGen, leases, ticket, pc, on>>,
         \A c \in Clients : pc[c] \in SubmitSteps => on[c] \in Jobs,
         \A j \in Jobs :
           /\ job'[j].gen = job[j].gen
           /\ (job'[j].state = "none") = (job[j].state = "none")
           /\ job'[j].state \in InFlight => job[j].state \in InFlight
           /\ job[j].state \in Ended => job'[j].state \in Ended
           /\ marker'[j] => marker[j] \/ leases[j] = {},
         AbortsKnown'
  PROVE  ConsumerInv'
<1>1. ConsumerKeepsJob'
  BY DEF ConsumerInv, ConsumerKeepsJob, TicketsKnown
<1>2. TicketsKnown'
  BY DEF ConsumerInv, TicketsKnown
<1>3. LeasesKnown'
  BY ConsumerSteps DEF ConsumerInv, LeasesKnown, Fresh, Reserved
<1> QED BY <1>1, <1>2, <1>3 DEF ConsumerInv

\* A worker owns a job no more than before, unless it takes it.
LEMMA AbortsKept ==
  ASSUME AbortsKnown, UNCHANGED <<wpc, won, wgen, abort>>,
         \A j \in Jobs : marker[j] => marker'[j],
         \A w \in Workers : wpc[w] # "idle" => won[w] \in Jobs,
         \A w \in Workers : OwnsJob(w)' => OwnsJob(w)
  PROVE  AbortsKnown'
BY DEF AbortsKnown

\* Requests are stripped from finished records only; nothing else changes.
LEMMA ConsumerStripped ==
  ASSUME TypeInv, ConsumerInv, NEW changed \in SUBSET Clients,
         UNCHANGED <<lastGen, leases, marker, ticket, wpc, won, wgen, abort>>,
         \A j \in Jobs : /\ job'[j].state = job[j].state /\ job'[j].gen = job[j].gen
                         /\ job'[j].owner = job[j].owner,
         \A c \in Clients \ changed : pc'[c] = pc[c] /\ on'[c] = on[c],
         \A c \in changed :
           /\ on'[c] = on[c] /\ on[c] \in Jobs
           /\ ticket[c] = 0
           /\ pc'[c] \notin {"serve", "admit", "measure"}
           /\ pc'[c] \in {"reserve", "add"} => pc[c] \in {"measure", "reserve"}
           /\ pc'[c] = "undo" => pc[c] = "measure" /\ job[on[c]].gen = 0
  PROVE  ConsumerInv'
<1>1. \A c \in Clients : pc[c] \in SubmitSteps \/ ticket[c] # 0 => on[c] \in Jobs
  BY DEF TypeInv, GatewayInv, GatewayBusy, Inside, Procs, ConsumerInv, TicketsKnown
<1>2. ConsumerKeepsJob'
  BY <1>1 DEF ConsumerInv, ConsumerKeepsJob
<1>3. TicketsKnown'
  BY <1>1 DEF ConsumerInv, TicketsKnown
<1>4. LeasesKnown'
  <2>1. \A c \in Clients \ changed : pc[c] \in SubmitSteps => on[c] \in Jobs
    BY <1>1
  <2>2. \A c \in Clients : on'[c] = on[c]
    OBVIOUS
  <2>3. ASSUME NEW c \in Clients \ changed
        PROVE  /\ pc'[c] \in Fresh => job'[on'[c]].state = "none"
               /\ pc'[c] = "serve" => job'[on'[c]].state \in Ended
               /\ pc'[c] \in Reserved => c \in leases'[on'[c]] /\ ~marker'[on'[c]]
               /\ pc'[c] = "undo" =>
                    \A d \in Clients : ticket'[d] # 0 /\ on'[d] = on'[c] => job'[on'[c]].gen # ticket'[d]
    BY <2>1, <2>2, ConsumerSteps DEF ConsumerInv, LeasesKnown, Fresh, Reserved, SubmitSteps
  <2>4. ASSUME NEW c \in changed
        PROVE  /\ pc'[c] \in Fresh => job'[on'[c]].state = "none"
               /\ pc'[c] # "serve"
               /\ pc'[c] \in Reserved => c \in leases'[on'[c]] /\ ~marker'[on'[c]]
               /\ pc'[c] = "undo" =>
                    \A d \in Clients : ticket'[d] # 0 /\ on'[d] = on'[c] => job'[on'[c]].gen # ticket'[d]
    BY <2>2 DEF ConsumerInv, LeasesKnown, Fresh, Reserved
  <2> QED BY <2>3, <2>4 DEF LeasesKnown
<1>5. AbortsKnown'
  <2>1. \A w \in Workers : wpc[w] # "idle" => won[w] \in Jobs
    BY DEF TypeInv, WorkerInv, WorkerBusy
  <2>2. \A w \in Workers : won[w] \in Jobs /\ OwnsJob(w)' => OwnsJob(w)
    BY DEF OwnsJob
  <2>3. \A w \in Workers : abort[w] # "none" => wpc[w] # "idle"
    BY DEF ConsumerInv, AbortsKnown
  <2> QED BY <2>1, <2>2, <2>3 DEF ConsumerInv, AbortsKnown
<1> QED BY <1>2, <1>3, <1>4, <1>5 DEF ConsumerInv

\* The record of a section's job is removed.
LEMMA ConsumerRemoval ==
  ASSUME TypeInv, MutualExclusion, ConsumerInv, NEW c \in Clients, pc[c] \in Inside,
         on[c] \in Jobs, job' = [job EXCEPT ![on[c]] = NoRecord],
         UNCHANGED <<lastGen, leases, marker, ticket, on, wpc, won, wgen, abort>>,
         \A d \in Clients \ {c} : pc'[d] = pc[d],
         pc'[c] \notin {"serve", "idle", "gone"} \cup Fresh \cup Reserved,
         pc'[c] \in SubmitSteps => pc[c] \in SubmitSteps
  PROVE  ConsumerInv'
<1>1. \A i \in Jobs : job'[i] = IF i = on[c] THEN NoRecord ELSE job[i]
  BY DEF TypeInv, QueueTypes
<1>2. ConsumerKeepsJob'
  BY <1>1 DEF ConsumerInv, ConsumerKeepsJob, TicketsKnown, NoRecord, InFlight
<1>3. TicketsKnown'
  <2>1. \A j \in Jobs : job'[j].gen <= lastGen'[j]
    BY <1>1 DEF ConsumerInv, TicketsKnown, NoRecord, TypeInv, QueueTypes
  <2> QED BY <2>1 DEF ConsumerInv, TicketsKnown
<1>4. LeasesKnown'
  BY ConsumerAlone DEF LeasesKnown, Reserved
<1>5. AbortsKnown'
  <2>1. \A w \in Workers : abort[w] # "none" => won[w] \in Jobs
    BY DEF ConsumerInv, AbortsKnown, TypeInv, WorkerInv, WorkerBusy
  <2>2. \A w \in Workers : won[w] \in Jobs /\ OwnsJob(w)' => OwnsJob(w)
    BY <1>1 DEF OwnsJob, NoRecord
  <2> QED BY <2>1, <2>2 DEF ConsumerInv, AbortsKnown
<1> QED BY <1>2, <1>3, <1>4, <1>5 DEF ConsumerInv

LEMMA ConsumerNext ==
  ASSUME ~LockMayExpire, TypeInv, MutualExclusion, FrameInv, ConsumerInv, [Next]_vars
  PROVE  ConsumerInv'
<1>0. /\ \A p \in Procs : pc[p] \in Inside => on[p] \in Jobs
      /\ job \in [Jobs -> Record] /\ lastGen \in [Jobs -> Nat]
      /\ pc \in [Procs -> Inside \cup {"idle", "done", "gone", "dead"}]
      /\ on \in [Procs -> Jobs \cup {NoOne}] /\ ticket \in [Clients -> Nat]
      /\ leases \in [Jobs -> SUBSET Clients] /\ marker \in [Jobs -> BOOLEAN]
      /\ answer = [c \in Clients |-> answer[c]]
  BY DEF TypeInv, GatewayInv, GatewayBusy, GatewayTypes, QueueTypes, StoreTypes, ClientInv,
         ClientTypes
<1> USE QueueConstants, <1>0 DEF Procs, queueVars, leaseVars, clientVars, workerVars
<1>a. /\ \A c \in Clients : pc[c] \in SubmitSteps \cup {"idle", "gone"} => ticket[c] = 0
      /\ \A c \in Clients : pc[c] \in GoneForFrames => job[on[c]].state = "none"
      /\ \A c \in Clients : pc[c] = "state" /\ seen[c].state = "none" => job[on[c]].state = "none"
      /\ \A c \in Clients : pc[c] \in Fresh => job[on[c]].state = "none"
      /\ \A j \in Jobs : job[j].state = "none" <=> job[j].gen = 0
      /\ InFlight \cap Ended = {} /\ "none" \notin InFlight \cup Ended
  BY DEF ConsumerInv, TicketsKnown, LeasesKnown, FrameInv, ClientsKnow, RecordsNumbered,
         InFlight, Ended
<1>1. ASSUME NEW c \in Clients, NEW j \in Jobs, SubmitBegin(c, j)
      PROVE  ConsumerInv'
  BY <1>1, <1>a, ConsumerQuietStep DEF SubmitBegin, Enter, Fresh, Reserved
<1>2. ASSUME NEW c \in Clients, SubmitBusy(c)
      PROVE  ConsumerInv'
  BY <1>2, <1>a, ConsumerQuietStep DEF SubmitBusy, Answer, Fresh, Reserved, SubmitSteps
<1>3. ASSUME NEW c \in Clients, SubmitState(c)
      PROVE  ConsumerInv'
  <2>1. /\ pc[c] = "state" /\ pc'[c] \in {"reset", "join", "serve", "remove"}
        /\ pc'[c] = "serve" => job[on[c]].state \in Ended
        /\ \A d \in Clients \ {c} : pc'[d] = pc[d]
        /\ UNCHANGED <<on, ticket, queueVars, leaseVars, workerVars>>
    BY <1>3 DEF SubmitState, Step, Ended
  <2> QED BY <2>1, <1>a, ConsumerQuietStep DEF Fresh, Reserved, SubmitSteps
<1>4. ASSUME NEW c \in Clients, SubmitServe(c)
      PROVE  ConsumerInv'
  <2>1. /\ pc[c] = "serve" /\ pc'[c] = "done" /\ ticket'[c] = 0
        /\ leases' = [leases EXCEPT ![on[c]] = {}] /\ marker' = [marker EXCEPT ![on[c]] = FALSE]
        /\ \A d \in Clients \ {c} : pc'[d] = pc[d] /\ on'[d] = on[d] /\ ticket'[d] = ticket[d]
        /\ UNCHANGED <<queueVars, workerVars>>
    BY <1>4 DEF SubmitServe, Clear, Answer, Leave
  <2>2. pc[c] \in Inside /\ job[on[c]].state \in Ended
    BY <2>1 DEF Inside, SubmitSteps, ConsumerInv, LeasesKnown
  <2>3. \A d \in Clients : on[d] = on[c] => ~Attached(d)
    BY <2>2, <1>a DEF Attached
  <2>4. \A w \in Workers : OwnsJob(w) => won[w] # on[c]
    BY <2>2 DEF OwnsJob, Ended
  <2> QED BY <2>1, <2>2, <2>3, <2>4, ConsumerOwnStep DEF Fresh, Reserved, SubmitSteps
<1>5. ASSUME NEW c \in Clients, SubmitJoin(c)
      PROVE  ConsumerInv'
  <2>0. pc[c] = "join" /\ pc[c] \in Inside
    BY <1>5 DEF SubmitJoin, Inside, SubmitSteps
  <2>1. CASE Joinable(on[c])
    <3>1. /\ leases' = [leases EXCEPT ![on[c]] = @ \cup {c}] /\ UNCHANGED marker
          /\ ticket'[c] = job[on[c]].gen /\ pc'[c] = "done" /\ on'[c] = on[c]
          /\ \A d \in Clients \ {c} : pc'[d] = pc[d] /\ on'[d] = on[d] /\ ticket'[d] = ticket[d]
          /\ UNCHANGED <<queueVars, workerVars>> /\ ~marker[on[c]]
      BY <1>5, <2>1 DEF SubmitJoin, Joinable, Answer, Leave
    <3>2. job[on[c]].gen <= lastGen[on[c]]
      BY <2>0 DEF ConsumerInv, TicketsKnown
    <3>3. \A d \in Clients : on[d] = on[c] /\ Attached(d) => d \in leases[on[c]]
      BY DEF ConsumerInv, ConsumerKeepsJob, Attached
    <3>4. \A w \in Workers : ~(abort[w] = "cancel" /\ OwnsJob(w) /\ won[w] = on[c])
      BY <3>1 DEF ConsumerInv, AbortsKnown
    <3>5. pc'[c] \notin SubmitSteps \cup {"idle", "gone", "serve", "undo"} \cup Fresh \cup Reserved
      BY <3>1 DEF SubmitSteps, Fresh, Reserved
    <3> QED BY <2>0, <3>1, <3>2, <3>3, <3>4, <3>5, ConsumerOwnStep
  <2>2. CASE ~Joinable(on[c])
    BY <1>5, <2>2, <1>a, ConsumerQuietStep
    DEF SubmitJoin, Step, Fresh, Reserved, SubmitSteps
  <2> QED BY <2>1, <2>2
<1>6. ASSUME NEW c \in Clients, SubmitRefused(c) \/ SubmitUnledger(c)
      PROVE  ConsumerInv'
  BY <1>6, <1>a, ConsumerQuietStep
  DEF SubmitRefused, SubmitUnledger, Answer, Leave, Step, Fresh, Reserved, SubmitSteps
<1>7. ASSUME NEW c \in Clients, SubmitRemove(c)
      PROVE  ConsumerInv'
  <2>1. CASE job[on[c]].state = "active"
    BY <1>7, <2>1, <1>a, ConsumerQuietStep
    DEF SubmitRemove, Answer, Leave, Fresh, Reserved, SubmitSteps
  <2>2. CASE job[on[c]].state # "active"
    BY <1>7, <2>2, <1>a, ConsumerRemoval
    DEF SubmitRemove, Step, Inside, Fresh, Reserved, SubmitSteps
  <2> QED BY <2>1, <2>2
<1>8. ASSUME NEW c \in Clients, SubmitReset(c)
      PROVE  ConsumerInv'
  <2>1. /\ pc[c] = "reset" /\ pc'[c] = "admit"
        /\ leases' = [leases EXCEPT ![on[c]] = {}] /\ marker' = [marker EXCEPT ![on[c]] = FALSE]
        /\ \A d \in Clients \ {c} : pc'[d] = pc[d]
        /\ UNCHANGED <<queueVars, workerVars, on, ticket>>
    BY <1>8 DEF SubmitReset, Clear, Step
  <2>2. /\ pc[c] \in Inside /\ job[on[c]].state = "none" /\ ticket[c] = 0
    BY <2>1, <1>a DEF Inside, SubmitSteps, GoneForFrames
  <2>3. /\ \A d \in Clients : on[d] = on[c] => ~Attached(d)
        /\ \A w \in Workers : OwnsJob(w) => won[w] # on[c]
    BY <2>2, <1>a DEF Attached, OwnsJob
  <2> QED BY <2>1, <2>2, <2>3, ConsumerOwnStep DEF Fresh, Reserved
<1>9. ASSUME NEW c \in Clients, SubmitAdmit(c)
      PROVE  ConsumerInv'
  <2>0. pc[c] = "admit" /\ pc[c] \in Inside /\ job[on[c]].state = "none" /\ ticket[c] = 0
    BY <1>9, <1>a DEF SubmitAdmit, Inside, SubmitSteps, Fresh
  <2>1. CASE Cardinality(Queued) >= MaxQueued
    BY <1>9, <2>0, <2>1, ConsumerQuietStep
    DEF SubmitAdmit, Answer, Leave, Fresh, Reserved, SubmitSteps
  <2>2. CASE ~(Cardinality(Queued) >= MaxQueued)
    <3>1. /\ pc'[c] = "measure" /\ UNCHANGED <<queueVars, workerVars, on, ticket>>
          /\ leases' = [leases EXCEPT ![on[c]] = @ \cup {c}]
          /\ marker' = [marker EXCEPT ![on[c]] = FALSE]
          /\ \A d \in Clients \ {c} : pc'[d] = pc[d]
      BY <1>9, <2>2 DEF SubmitAdmit, Step
    <3>2. /\ \A d \in Clients : on[d] = on[c] => ~Attached(d)
          /\ \A w \in Workers : OwnsJob(w) => won[w] # on[c]
      BY <2>0, <1>a DEF Attached, OwnsJob
    <3> QED BY <2>0, <3>1, <3>2, ConsumerOwnStep DEF Fresh, Reserved
  <2> QED BY <2>1, <2>2
<1>10. ASSUME NEW c \in Clients, SubmitMeasure(c) \/ SubmitReserve(c)
      PROVE  ConsumerInv'
  <2>1. /\ pc[c] \in {"measure", "reserve"}
        /\ \E step \in {"reserve", "add", "undo"} :
             pc' = [pc EXCEPT ![c] = step] /\ (step = "undo" => pc[c] = "measure")
        /\ UNCHANGED <<on, lastGen, leaseVars, ticket, workerVars>>
    BY <1>10 DEF SubmitMeasure, SubmitReserve, Step
  <2>2. \A i \in Jobs : /\ job'[i].state = job[i].state /\ job'[i].gen = job[i].gen
                        /\ job'[i].owner = job[i].owner
    <3>1. \A i \in Jobs : job'[i] \in {job[i], [job[i] EXCEPT !.request = FALSE]}
      <4>1. CASE SubmitMeasure(c)
        BY <4>1 DEF SubmitMeasure
      <4>2. CASE SubmitReserve(c)
        BY <4>2 DEF SubmitReserve, queueVars
      <4> QED BY <1>10, <4>1, <4>2
    <3>2. \A i \in Jobs : job[i] \in Record
      BY DEF TypeInv, QueueTypes
    <3> QED BY <3>1, <3>2 DEF Record
  <2>3. on[c] \in Jobs /\ ticket[c] = 0 /\ job[on[c]].gen = 0
    BY <2>1, <1>a DEF Inside, SubmitSteps, Fresh
  <2>4. \A d \in Clients \ {c} : pc'[d] = pc[d] /\ on'[d] = on[d]
    BY <2>1
  <2>5. /\ pc'[c] \in {"reserve", "add", "undo"} /\ on'[c] = on[c]
        /\ pc'[c] = "undo" => pc[c] = "measure"
    BY <2>1
  <2>6. {c} \in SUBSET Clients
    OBVIOUS
  <2>7. UNCHANGED <<lastGen, leases, marker, ticket, wpc, won, wgen, abort>>
    BY <2>1
  <2>8. \A d \in {c} :
          /\ on'[d] = on[d] /\ on[d] \in Jobs
          /\ ticket[d] = 0
          /\ pc'[d] \notin {"serve", "admit", "measure"}
          /\ pc'[d] \in {"reserve", "add"} => pc[d] \in {"measure", "reserve"}
          /\ pc'[d] = "undo" => pc[d] = "measure" /\ job[on[d]].gen = 0
    BY <2>1, <2>3, <2>5
  <2> QED BY <2>2, <2>4, <2>6, <2>7, <2>8, ConsumerStripped
<1>11. ASSUME NEW c \in Clients, SubmitAdd(c) \/ SubmitAddFails(c)
      PROVE  ConsumerInv'
  <2>1. /\ pc[c] = "add" /\ on' = on
        /\ \A d \in Clients \ {c} : pc'[d] = pc[d] /\ ticket'[d] = ticket[d]
        /\ UNCHANGED <<leases, marker, workerVars>>
        /\ \/ /\ pc'[c] = "done" /\ Add(on[c]) /\ ticket'[c] = job'[on[c]].gen
           \/ /\ pc'[c] = "undo" /\ ticket'[c] = 0 /\ (Add(on[c]) \/ UNCHANGED queueVars)
    BY <1>11, <1>a DEF SubmitAdd, SubmitAddFails, Answer, Step, Leave, SubmitSteps
  <2>2. /\ on[c] \in Jobs /\ job[on[c]].state = "none" /\ job[on[c]].gen = 0
        /\ c \in leases[on[c]] /\ ~marker[on[c]]
    BY <2>1, <1>a DEF Inside, SubmitSteps, Fresh, ConsumerInv, LeasesKnown, Reserved
  <2>3. \A d \in Clients \ {c} : pc[d] \notin Fresh \cup Reserved \cup {"serve"}
    BY <2>1, ConsumerAlone DEF Inside, SubmitSteps
  <2>4. CASE UNCHANGED queueVars
    <3>1. pc'[c] = "undo"
      BY <2>1, <2>2, <2>4 DEF Add
    <3>2. ticket'[c] = 0
      BY <2>1, <3>1
    <3>3. \A d \in Clients \ {c} :
            /\ pc'[d] = pc[d] /\ on'[d] = on[d] /\ ticket'[d] = ticket[d]
            /\ Attached(d) => d \in leases'[on[d]] /\ ~marker'[on[d]]
            /\ pc[d] \in Reserved => d \in leases'[on[d]] /\ ~marker'[on[d]]
      BY <2>1 DEF ConsumerInv, ConsumerKeepsJob, LeasesKnown, Attached
    <3>4. \A w \in Workers : abort[w] = "cancel" /\ OwnsJob(w) => marker'[won[w]]
      BY <2>1 DEF ConsumerInv, AbortsKnown
    <3>5. \A d \in Clients \ {c} :
            ticket[d] # 0 /\ on[d] = on'[c] => job[on'[c]].gen # ticket[d]
      BY <2>1, <2>2
    <3>6. c \in leases'[on'[c]] /\ ~marker'[on'[c]] /\ pc'[c] \notin Fresh \cup {"serve"}
      BY <2>1, <2>2, <3>1 DEF Fresh
    <3>7. UNCHANGED <<queueVars, workerVars>>
      BY <2>1, <2>4
    <3> QED BY <3>1, <3>2, <3>3, <3>4, <3>5, <3>6, <3>7, ConsumerClientStep
  <2>5. CASE Add(on[c])
    <3>1. /\ \A i \in Jobs \ {on[c]} : job'[i] = job[i] /\ lastGen'[i] = lastGen[i]
          /\ lastGen'[on[c]] = lastGen[on[c]] + 1
          /\ job'[on[c]].gen = lastGen[on[c]] + 1 /\ job'[on[c]].state = "waiting"
      <4> DEFINE rec == [NoRecord EXCEPT !.state = "waiting", !.gen = lastGen[on[c]] + 1,
                                         !.request = TRUE]
      <4>1. /\ lastGen' = [lastGen EXCEPT ![on[c]] = @ + 1]
            /\ job' = [job EXCEPT ![on[c]] = rec]
        BY <2>2, <2>5 DEF Add
      <4>2. rec.gen = lastGen[on[c]] + 1 /\ rec.state = "waiting"
        BY DEF NoRecord
      <4> HIDE DEF rec
      <4> QED BY <2>2, <4>1, <4>2
    <3>2. \A d \in Clients : ticket[d] # 0 /\ on[d] = on[c] => ticket[d] # job'[on[c]].gen
      BY <2>2, <3>1 DEF ConsumerInv, TicketsKnown
    <3>3. ConsumerKeepsJob'
      BY <2>1, <2>2, <3>1, <3>2 DEF ConsumerInv, ConsumerKeepsJob, TicketsKnown
    <3>4. TicketsKnown'
      <4>1. ASSUME NEW d \in Clients \ {c}, ticket'[d] # 0
            PROVE  on'[d] \in Jobs /\ ticket'[d] <= lastGen'[on'[d]]
        <5>1. on[d] \in Jobs /\ ticket[d] \in Nat /\ ticket[d] <= lastGen[on[d]]
          BY <2>1, <4>1 DEF ConsumerInv, TicketsKnown
        <5> QED BY <2>1, <3>1, <5>1
      <4>2. ticket'[c] # 0 => on'[c] \in Jobs /\ ticket'[c] <= lastGen'[on'[c]]
        BY <2>1, <2>2, <3>1
      <4>3. \A d \in Clients : pc'[d] \in SubmitSteps \cup {"idle", "gone"} => ticket'[d] = 0
        BY <2>1, <1>a DEF SubmitSteps
      <4>4. \A j \in Jobs : job'[j].gen <= lastGen'[j]
        BY <2>2, <3>1 DEF ConsumerInv, TicketsKnown
      <4> QED BY <4>1, <4>2, <4>3, <4>4 DEF TicketsKnown
    <3>5. LeasesKnown'
      BY <2>1, <2>2, <2>3, <3>1, <3>2 DEF LeasesKnown, Reserved, Fresh
    <3>6. AbortsKnown'
      <4>1. \A w \in Workers : abort[w] # "none" => won[w] \in Jobs
        BY DEF ConsumerInv, AbortsKnown, TypeInv, WorkerInv, WorkerBusy
      <4>2. \A w \in Workers : won[w] \in Jobs /\ OwnsJob(w)' => OwnsJob(w)
        BY <2>1, <3>1 DEF OwnsJob
      <4> QED BY <2>1, <4>1, <4>2 DEF ConsumerInv, AbortsKnown
    <3> QED BY <3>3, <3>4, <3>5, <3>6 DEF ConsumerInv
  <2> QED BY <2>1, <2>4, <2>5
<1>12. ASSUME NEW c \in Clients, SubmitUndo(c)
      PROVE  ConsumerInv'
  <2>1. /\ pc[c] = "undo" /\ pc'[c] = "done" /\ ticket'[c] = 0
        /\ leases' = [leases EXCEPT ![on[c]] = {}] /\ marker' = [marker EXCEPT ![on[c]] = FALSE]
        /\ \A d \in Clients \ {c} : pc'[d] = pc[d] /\ on'[d] = on[d] /\ ticket'[d] = ticket[d]
        /\ UNCHANGED <<queueVars, workerVars>>
    BY <1>12 DEF SubmitUndo, Clear, Answer, Leave
  <2>2. pc[c] \in Inside /\ on[c] \in Jobs
    BY <2>1 DEF Inside, SubmitSteps
  <2>3. /\ \A d \in Clients : on[d] = on[c] => ~Attached(d)
        /\ ~marker[on[c]]
    BY <2>1 DEF Attached, ConsumerInv, LeasesKnown, Reserved
  <2>4. \A w \in Workers : abort[w] = "cancel" /\ OwnsJob(w) => won[w] # on[c]
    BY <2>3 DEF ConsumerInv, AbortsKnown
  <2> QED BY <2>1, <2>2, <2>3, <2>4, ConsumerOwnStep DEF Fresh, Reserved, SubmitSteps
<1>13. ASSUME NEW c \in Clients, CancelBegin(c)
      PROVE  ConsumerInv'
  <2>1. /\ pc'[c] = "cstate" /\ on'[c] = on[c] /\ UNCHANGED ticket
        /\ \A d \in Clients \ {c} : pc'[d] = pc[d] /\ on'[d] = on[d]
        /\ UNCHANGED <<queueVars, leaseVars, workerVars>>
    BY <1>13 DEF CancelBegin, Enter
  <2> QED BY <2>1, ConsumerQuietStep DEF Fresh, Reserved, SubmitSteps
<1>14. ASSUME NEW c \in Clients, CancelState(c) \/ CancelRecheck(c)
      PROVE  ConsumerInv'
  <2>1. /\ pc'[c] \in {"crelease", "ccancel", "cremove", "gone"}
        /\ ticket'[c] = 0 \/ (ticket'[c] = ticket[c] /\ on'[c] = on[c] /\ pc'[c] # "gone")
        /\ \A d \in Clients \ {c} : pc'[d] = pc[d] /\ on'[d] = on[d] /\ ticket'[d] = ticket[d]
        /\ UNCHANGED <<queueVars, leaseVars, workerVars>>
    BY <1>14 DEF CancelState, CancelRecheck, Answer, Step, Leave
  <2> QED BY <2>1, ConsumerQuietStep DEF Fresh, Reserved, SubmitSteps
<1>15. ASSUME NEW c \in Clients, CancelRelease(c) \/ CancelLease(c)
      PROVE  ConsumerInv'
  <2>0. pc[c] \in {"crelease", "ccancel"} /\ pc[c] \in Inside
    BY <1>15 DEF CancelRelease, CancelLease, Step, Inside, CancelSteps
  <2>1. /\ pc'[c] \in {"gone", "crecheck"} /\ ticket'[c] = 0
        /\ leases' = [leases EXCEPT ![on[c]] = @ \ {c}]
        /\ marker' = [marker EXCEPT ![on[c]] = @ \/ (pc[c] = "ccancel" /\ leases[on[c]] = {c})]
        /\ \A d \in Clients \ {c} : pc'[d] = pc[d] /\ on'[d] = on[d] /\ ticket'[d] = ticket[d]
        /\ UNCHANGED <<queueVars, workerVars>>
    <3>1. CASE CancelRelease(c)
      BY <3>1 DEF CancelRelease, Answer, Leave
    <3>2. CASE CancelLease(c)
      <4> DEFINE last == c \in leases[on[c]] /\ leases[on[c]] \ {c} = {}
                 only == pc[c] = "ccancel" /\ leases[on[c]] = {c}
      <4>1. last <=> leases[on[c]] = {c}
        OBVIOUS
      <4>2. pc[c] = "ccancel"
        BY <3>2 DEF CancelLease
      <4>3. last = only
        BY <4>1, <4>2
      <4>4. /\ marker' = [marker EXCEPT ![on[c]] = @ \/ last]
            /\ leases' = [leases EXCEPT ![on[c]] = @ \ {c}]
            /\ UNCHANGED <<queueVars, workerVars>>
        BY <3>2 DEF CancelLease
      <4>5. /\ \/ Step(c, "ccancel", "crecheck")
               \/ Leave(c, "gone")
            /\ \E a : Answer(c, a, 0)
        <5>1. CASE last
          BY <3>2, <5>1 DEF CancelLease
        <5>2. CASE ~last
          BY <3>2, <5>2 DEF CancelLease
        <5> QED BY <5>1, <5>2
      <4> HIDE DEF last, only
      <4>6. marker' = [marker EXCEPT ![on[c]] = @ \/ only]
        BY <4>3, <4>4
      <4>7. /\ pc'[c] \in {"gone", "crecheck"} /\ ticket'[c] = 0
            /\ \A d \in Clients \ {c} : pc'[d] = pc[d] /\ on'[d] = on[d] /\ ticket'[d] = ticket[d]
        BY <4>5 DEF Answer, Step, Leave
      <4> QED BY <4>4, <4>6, <4>7 DEF only
    <3> QED BY <1>15, <3>1, <3>2
  <2>2. \A d \in Clients : on[d] = on[c] /\ Attached(d) => d \in leases[on[c]] /\ ~marker[on[c]]
    BY DEF ConsumerInv, ConsumerKeepsJob, Attached
  <2>3. \A w \in Workers : abort[w] = "cancel" /\ OwnsJob(w) /\ won[w] = on[c] => marker[on[c]]
    BY DEF ConsumerInv, AbortsKnown
  <2>4. \A d \in Clients \ {c} : on[d] = on[c] /\ Attached(d) =>
          d \in leases'[on[c]] /\ ~marker'[on[c]]
    BY <2>0, <2>1, <2>2
  <2>5. \A w \in Workers : abort[w] = "cancel" /\ OwnsJob(w) /\ won[w] = on[c] => marker'[on[c]]
    BY <2>0, <2>1, <2>3
  <2> QED BY <2>0, <2>1, <2>4, <2>5, ConsumerOwnStep DEF Fresh, Reserved, SubmitSteps
<1>16. ASSUME NEW c \in Clients, CancelRemove(c)
      PROVE  ConsumerInv'
  <2>1. CASE job[on[c]].state = "active"
    <3>1. /\ pc'[c] = "gone" /\ ticket'[c] = 0
          /\ \A d \in Clients \ {c} : pc'[d] = pc[d] /\ on'[d] = on[d] /\ ticket'[d] = ticket[d]
          /\ UNCHANGED <<queueVars, leaseVars, workerVars>>
      BY <1>16, <2>1 DEF CancelRemove, Answer, Leave
    <3> QED BY <3>1, ConsumerQuietStep DEF Fresh, Reserved, SubmitSteps
  <2>2. CASE job[on[c]].state # "active"
    <3>1. /\ pc[c] = "cremove" /\ pc' = [pc EXCEPT ![c] = "cpurge"]
          /\ job' = [job EXCEPT ![on[c]] = NoRecord]
          /\ UNCHANGED <<lastGen, leases, marker, ticket, on, wpc, won, wgen, abort>>
      BY <1>16, <2>2 DEF CancelRemove, Step
    <3> QED BY <3>1, ConsumerRemoval DEF Inside, CancelSteps, SubmitSteps, Fresh, Reserved
  <2> QED BY <2>1, <2>2
<1>17. ASSUME NEW c \in Clients, CancelPurge(c)
      PROVE  ConsumerInv'
  <2>1. /\ pc[c] = "cpurge" /\ pc'[c] = "gone" /\ ticket'[c] = 0
        /\ leases' = [leases EXCEPT ![on[c]] = {}] /\ marker' = [marker EXCEPT ![on[c]] = FALSE]
        /\ \A d \in Clients \ {c} : pc'[d] = pc[d] /\ on'[d] = on[d] /\ ticket'[d] = ticket[d]
        /\ UNCHANGED <<queueVars, workerVars>>
    BY <1>17 DEF CancelPurge, Clear, Answer, Leave
  <2>2. pc[c] \in Inside /\ job[on[c]].state = "none"
    BY <2>1, <1>a DEF Inside, CancelSteps, GoneForFrames
  <2>3. /\ \A d \in Clients : on[d] = on[c] => ~Attached(d)
        /\ \A w \in Workers : OwnsJob(w) => won[w] # on[c]
    BY <2>2, <1>a DEF Attached, OwnsJob
  <2> QED BY <2>1, <2>2, <2>3, ConsumerOwnStep DEF Fresh, Reserved, SubmitSteps
<1>18. ASSUME NEW c \in Clients, NEW j \in Jobs, LeaseExpires(c, j)
      PROVE  ConsumerInv'
  <2>1. /\ pc[c] \in {"done", "dead"} /\ ticket'[c] = 0
        /\ leases' = [leases EXCEPT ![j] = @ \ {c}]
        /\ \A d \in Clients \ {c} : ticket'[d] = ticket[d]
        /\ UNCHANGED <<queueVars, workerVars, pc, on, marker>>
    BY <1>18 DEF LeaseExpires, Answer
  <2>2. \A d \in Clients \ {c} :
          /\ Attached(d) => d \in leases'[on[d]] /\ ~marker'[on[d]]
          /\ pc[d] \in Reserved => d \in leases'[on[d]] /\ ~marker'[on[d]]
    BY <2>1 DEF ConsumerInv, ConsumerKeepsJob, Attached, TicketsKnown, LeasesKnown, Reserved,
                Inside, SubmitSteps
  <2>3. \A w \in Workers : abort[w] = "cancel" /\ OwnsJob(w) => marker'[won[w]]
    BY <2>1 DEF ConsumerInv, AbortsKnown
  <2> QED BY <2>1, <2>2, <2>3, ConsumerClientStep DEF Fresh, Reserved, SubmitSteps
<1>19. ASSUME NEW r \in Reconcilers, \/ \E j \in Jobs : ReconcileBegin(r, j)
                                   \/ ReconcileState(r) \/ ReconcileAppend(r)
      PROVE  ConsumerInv'
  <2>1. /\ \A c \in Clients : pc'[c] = pc[c] /\ on'[c] = on[c]
        /\ UNCHANGED <<job, lastGen, leases, marker, ticket, wpc, won, wgen, abort>>
    BY <1>19 DEF ReconcileBegin, ReconcileState, ReconcileAppend, Enter, Leave, Step
  <2> QED BY <2>1, ConsumerStripped
<1>20. ASSUME NEW r \in Reconcilers, ReconcileStrip(r)
      PROVE  ConsumerInv'
  <2>1. /\ \A c \in Clients : pc'[c] = pc[c] /\ on'[c] = on[c]
        /\ UNCHANGED <<lastGen, leases, marker, ticket, wpc, won, wgen, abort>>
        /\ job' \in {job, [job EXCEPT ![on[r]].request = FALSE]}
    BY <1>20 DEF ReconcileStrip, Leave
  <2>2. \A i \in Jobs : /\ job'[i].state = job[i].state /\ job'[i].gen = job[i].gen
                        /\ job'[i].owner = job[i].owner
    BY <2>1 DEF Record
  <2> QED BY <2>1, <2>2, ConsumerStripped
<1>b. /\ \A c \in Clients : pc[c] \in SubmitSteps => on[c] \in Jobs
      /\ \A w \in Workers : wpc[w] # "idle" => won[w] \in Jobs
  BY DEF Inside, TypeInv, WorkerInv, WorkerBusy
<1>21. ASSUME NEW w \in Workers, NEW j \in Jobs, Take(w, j)
      PROVE  ConsumerInv'
  <2>1. /\ job[j].state = "waiting" /\ wpc[w] = "idle" /\ wpc' = [wpc EXCEPT ![w] = "prepare"]
        /\ won' = [won EXCEPT ![w] = j] /\ wgen' = [wgen EXCEPT ![w] = job[j].gen]
        /\ UNCHANGED <<lastGen, leases, marker, ticket, pc, on, abort>>
    BY <1>21 DEF Take
  <2>2. \A i \in Jobs :
          /\ job'[i].gen = job[i].gen
          /\ IF i = j THEN job'[i].state = "active" /\ job'[i].owner = w ELSE job'[i] = job[i]
    BY <1>21 DEF Take, Record
  <2>3. AbortsKnown'
    <3>1. abort[w] = "none"
      BY <2>1 DEF ConsumerInv, AbortsKnown
    <3>2. ASSUME NEW v \in Workers \ {w}, abort[v] # "none", OwnsJob(v)' PROVE OwnsJob(v)
      <4>1. won'[v] = won[v] /\ wgen'[v] = wgen[v] /\ won[v] \in Jobs
        BY <2>1, <3>2, <1>b DEF ConsumerInv, AbortsKnown, TypeInv, WorkerInv, WorkerTypes
      <4> QED BY <2>2, <3>2, <4>1 DEF OwnsJob
    <3>3. \A v \in Workers \ {w} : won'[v] = won[v] /\ wpc'[v] = wpc[v]
      BY <2>1 DEF TypeInv, WorkerInv, WorkerTypes
    <3> QED BY <2>1, <3>1, <3>2, <3>3 DEF ConsumerInv, AbortsKnown
  <2> QED BY <2>1, <2>2, <2>3, <1>b, ConsumerWorkers DEF InFlight, Ended
<1>22. ASSUME NEW w \in Workers, Finish(w) \/ Crash(w)
      PROVE  ConsumerInv'
  <2>1. /\ wpc' = [wpc EXCEPT ![w] = "idle"] /\ abort' = [abort EXCEPT ![w] = "none"]
        /\ won' = [won EXCEPT ![w] = NoOne] /\ wgen' = [wgen EXCEPT ![w] = 0]
        /\ UNCHANGED <<lastGen, leases, marker, ticket, pc, on>>
    BY <1>22 DEF Finish, Crash, Rest
  <2>2. \/ UNCHANGED job
        \/ /\ OwnsJob(w) /\ won[w] \in Jobs
           /\ \A i \in Jobs : /\ job'[i].gen = job[i].gen
                              /\ IF i = won[w] THEN job'[i].state \in Ended /\ job'[i].owner = NoOne
                                               ELSE job'[i] = job[i]
    <3>1. CASE Crash(w)
      BY <3>1 DEF Crash
    <3>2. CASE Finish(w)
      <4>1. won[w] \in Jobs
        BY <3>2, <1>b DEF Finish
      <4>2. CASE OwnsJob(w)
        BY <3>2, <4>1, <4>2 DEF Finish, Record, Ended
      <4> QED BY <3>2, <4>2 DEF Finish
    <3> QED BY <1>22, <3>1, <3>2
  <2>3. \A i \in Jobs : /\ job'[i].gen = job[i].gen
                        /\ (job'[i].state = "none") = (job[i].state = "none")
                        /\ job'[i].state \in InFlight => job[i].state \in InFlight
                        /\ job[i].state \in Ended => job'[i].state \in Ended
                        /\ job'[i].state = "active" => job'[i] = job[i]
    BY <2>2, <1>a DEF OwnsJob, Ended, InFlight
  <2>4. AbortsKnown'
    <3>1. \A v \in Workers \ {w} :
            won'[v] = won[v] /\ wpc'[v] = wpc[v] /\ wgen'[v] = wgen[v] /\ abort'[v] = abort[v]
      BY <2>1 DEF TypeInv, WorkerInv, WorkerTypes
    <3>2. abort'[w] = "none"
      BY <2>1 DEF TypeInv, WorkerInv, WorkerTypes
    <3>3. ASSUME NEW v \in Workers \ {w}, abort[v] # "none", OwnsJob(v)' PROVE OwnsJob(v)
      <4>1. won[v] \in Jobs
        BY <3>3, <1>b DEF ConsumerInv, AbortsKnown
      <4> QED BY <2>3, <3>1, <3>3, <4>1 DEF OwnsJob
    <3> QED BY <2>1, <3>1, <3>2, <3>3 DEF ConsumerInv, AbortsKnown
  <2> QED BY <2>1, <2>3, <2>4, <1>b, ConsumerWorkers
<1>23. ASSUME NEW j \in Jobs, Stall(j)
      PROVE  ConsumerInv'
  <2>1. job[j].state = "active" /\ UNCHANGED <<lastGen, leases, marker, ticket, pc, on, workerVars>>
    BY <1>23 DEF Stall, Recovers
  <2>2. \A i \in Jobs : /\ job'[i].gen = job[i].gen
                        /\ IF i = j THEN job'[i].state \in {"waiting", "failed"}
                                    ELSE job'[i] = job[i]
    <3>1. CASE job[j].stalls = 0
      BY <1>23, <3>1 DEF Stall, Record
    <3>2. CASE job[j].stalls # 0
      BY <1>23, <3>2 DEF Stall, Record
    <3> QED BY <3>1, <3>2
  <2>3. \A w \in Workers : won[w] \in Jobs /\ OwnsJob(w)' => OwnsJob(w)
    BY <2>1, <2>2 DEF OwnsJob
  <2>4. AbortsKnown'
    BY <2>1, <2>3, <1>b DEF ConsumerInv, AbortsKnown
  <2> QED BY <2>1, <2>2, <2>4, <1>b, ConsumerWorkers DEF InFlight, Ended
<1>24. ASSUME NEW w \in Workers, \/ Prepare(w) \/ PrepareFails(w) \/ Poll(w) \/ Deadline(w)
                               \/ Shutdown(w) \/ Decide(w)
      PROVE  ConsumerInv'
  <2>1. /\ UNCHANGED <<lastGen, leases, ticket, pc, on, job, won, wgen>>
        /\ \A v \in Workers \ {w} : wpc'[v] = wpc[v] /\ abort'[v] = abort[v]
        /\ wpc[w] # "idle"
        /\ \/ wpc'[w] \in {"running", "returning"} /\ UNCHANGED <<abort, marker>>
           \/ wpc'[w] = "returning" /\ UNCHANGED <<abort, marker>>
           \/ wpc'[w] = "running" /\ abort'[w] \in {"deadline", "shutdown"} /\ UNCHANGED marker
           \/ /\ wpc'[w] = "running" /\ marker' = [marker EXCEPT ![won[w]] = TRUE]
              /\ marker[won[w]] \/ leases[won[w]] = {}
    BY <1>24 DEF Prepare, PrepareFails, Return, Poll, Abandoned, Deadline, Shutdown, Aborted,
                 Decide, TypeInv, WorkerInv, WorkerTypes
  <2>2. won[w] \in Jobs
    BY <2>1, <1>b
  <2>3. \A j \in Jobs : marker[j] => marker'[j]
    BY <2>1
  <2>4. \A v \in Workers : OwnsJob(v)' = OwnsJob(v)
    BY <2>1 DEF OwnsJob
  <2>5. AbortsKnown'
    <3>1. ASSUME NEW v \in Workers \ {w}, abort[v] # "none"
          PROVE  wpc[v] \in {"running", "returning"} /\ won[v] \in Jobs
      BY <3>1, <1>b DEF ConsumerInv, AbortsKnown
    <3>2. \A v \in Workers \ {w} :
            /\ abort'[v] # "none" => wpc'[v] \in {"running", "returning"}
            /\ abort'[v] = "cancel" /\ OwnsJob(v)' => marker'[won'[v]]
      BY <2>1, <2>3, <2>4, <3>1 DEF ConsumerInv, AbortsKnown
    <3>3. abort'[w] = "cancel" /\ OwnsJob(w)' => marker'[won'[w]]
      BY <2>1, <2>2, <2>4 DEF ConsumerInv, AbortsKnown
    <3> QED BY <2>1, <3>2, <3>3 DEF AbortsKnown
  <2> QED BY <2>1, <2>2, <2>5, <1>b, ConsumerWorkers
<1>25. ASSUME (\E j \in Jobs : NotifyLost(j)) \/ UNCHANGED vars
      PROVE  ConsumerInv'
  <2>1. UNCHANGED <<job, lastGen, leases, marker, ticket, pc, on, wpc, won, wgen, abort>>
    BY <1>25 DEF NotifyLost, vars
  <2> QED BY <2>1, ConsumerStripped
<1>26. ASSUME (\E p \in Procs : Die(p)) \/ LockExpires
      PROVE  ConsumerInv'
  <2>1. /\ UNCHANGED <<queueVars, leaseVars, ticket, on, workerVars>>
        /\ \A c \in Clients : pc'[c] \in {pc[c], "dead"}
    BY <1>26 DEF Die, LockExpires
  <2>2. ConsumerKeepsJob'
    BY <2>1 DEF ConsumerInv, ConsumerKeepsJob
  <2>3. TicketsKnown'
    BY <2>1 DEF ConsumerInv, TicketsKnown, SubmitSteps
  <2>4. LeasesKnown'
    BY <2>1 DEF ConsumerInv, LeasesKnown, Fresh, Reserved
  <2>5. AbortsKnown'
    BY <2>1 DEF ConsumerInv, AbortsKnown, OwnsJob
  <2> QED BY <2>2, <2>3, <2>4, <2>5 DEF ConsumerInv
<1> QED
  BY <1>1, <1>2, <1>3, <1>4, <1>5, <1>6, <1>7, <1>8, <1>9, <1>10, <1>11, <1>12, <1>13, <1>14,
     <1>15, <1>16, <1>17, <1>18, <1>19, <1>20, <1>21, <1>22, <1>23, <1>24, <1>25, <1>26
  DEF Next

LEMMA ConsumerInit == Init => ConsumerInv
BY DEF Init, ConsumerInv, ConsumerKeepsJob, TicketsKnown, LeasesKnown, AbortsKnown, NoRecord,
       SubmitSteps, Fresh, Reserved, Procs

LEMMA ConsumerAlways ==
  ~LockMayExpire => (Spec => [](TypeInv /\ FrameInv /\ ConsumerInv))
<1> SUFFICES ASSUME ~LockMayExpire PROVE Spec => [](TypeInv /\ FrameInv /\ ConsumerInv)
  OBVIOUS
<1> DEFINE Known == TypeInv /\ MutualExclusion /\ FrameInv
<1>1. Spec => []Known
  BY FrameAlways
<1>2. Known /\ ConsumerInv /\ [Next]_vars => ConsumerInv'
  BY ConsumerNext
<1> QED BY <1>1, <1>2, ConsumerInit, PTL DEF Spec

\* If the lock outlasts its holder, nobody takes a job from a client that is
\* attached to it: not by joining, being refused, cancelling, replacing or
\* failing to add it, in any order.
THEOREM ConsumersKeepTheirJobs == ~LockMayExpire => (Spec => []ConsumerKeepsJob)
<1>1. ConsumerInv => ConsumerKeepsJob
  BY DEF ConsumerInv
<1> QED BY <1>1, ConsumerAlways, PTL

\* ... and no worker whose outcome counts is told to stop while one of them is
\* attached.
THEOREM NobodyIsAbortedWrongly == ~LockMayExpire => (Spec => []NoWrongfulAbort)
<1>1. TypeInv /\ FrameInv /\ ConsumerInv => NoWrongfulAbort
  <2> SUFFICES ASSUME FrameInv, ConsumerInv, NEW w \in Workers, NEW c \in Clients,
                      abort[w] = "cancel", OwnsJob(w), won[w] = on[c], wgen[w] = ticket[c],
                      TypeInv
               PROVE  FALSE
    BY DEF NoWrongfulAbort
  <2>1. marker[won[w]] /\ won[w] \in Jobs
    BY DEF ConsumerInv, AbortsKnown, TypeInv, WorkerInv, WorkerBusy
  <2>2. job[on[c]].state = "active" /\ job[on[c]].gen = ticket[c] /\ ticket[c] # 0
    BY <2>1 DEF OwnsJob, FrameInv, RecordsNumbered
  <2> QED BY <2>1, <2>2 DEF ConsumerInv, ConsumerKeepsJob, InFlight
<1> QED BY <1>1, ConsumerAlways, PTL

=============================================================================
