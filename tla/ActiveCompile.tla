---------------------------- MODULE ActiveCompile ----------------------------
(***************************************************************************)
(* The page that compiles, and what a reload of it finds again.  Once the  *)
(* server has accepted a compile, its handle is written to IndexedDB, or   *)
(* to the session storage of the tab when that fails.  Writes and deletes  *)
(* queue one behind the other, and one that is no longer the latest when   *)
(* its turn comes, or when its transaction is answered, does nothing more. *)
(* A reload loads the newest handle, asynchronously, and a compile that    *)
(* the user starts meanwhile comes first.                                  *)
(***************************************************************************)
EXTENDS Integers, Sequences

CONSTANTS
  PageJobs,       \* job IDs the server answers with; it may reuse one
  Nothing,
  MaxAccepted,    \* bound: accepted compiles
  MaxReloads,     \* bound: reloads of the page
  MaxIoFaults     \* bound: failed transactions and session writes together

ASSUME ActiveCompileConstants ==
  /\ Nothing \notin PageJobs
  /\ MaxAccepted \in Nat /\ MaxReloads \in Nat /\ MaxIoFaults \in Nat

VARIABLES
  durable, session,  \* the stored handles: job, acceptance and its epoch
  page,              \* closed, loading, restoring or ready
  memory,            \* memoryRecord
  gen, lastEpoch,    \* generation, lastAcceptanceEpoch
  mutations,         \* the mutations queued behind mutationTail
  reply,             \* what the transaction of the first one was answered
  getter,            \* load(): no, asked, read, failed or migrating; then durable
                     \* or not, as its event says
  got,               \* the record it read, then the one init() has in hand
  run,               \* activeCompile
  accepted, epochs,  \* acceptances so far, the highest epoch given so far
  gone,              \* acceptances whose deletion was reported durable
  late,              \* finished runs whose cancellation is still to be answered
  revived,           \* acceptances that such an answer stored again
  reloads, ioFaults

storageVars == <<durable, session>>
loadVars    == <<page, getter, got>>
tailVars    == <<memory, gen, lastEpoch, mutations, reply>>
endedVars   == <<gone, late, revived>>
boundVars   == <<reloads, ioFaults>>
pageVars ==
  <<storageVars, loadVars, tailVars, run, accepted, epochs, endedVars, boundVars>>

NoHandle == [job |-> Nothing, acc |-> 0, epoch |-> 0]
NoRun == [phase |-> "none", handle |-> NoHandle, known |-> FALSE, stored |-> FALSE,
          cancel |-> "no"]
NoAnswer == [is |-> "none", winner |-> NoHandle]

PageInit ==
  /\ durable = NoHandle /\ session = NoHandle
  /\ page = "closed" /\ getter = "no" /\ got = NoHandle
  /\ memory = NoHandle /\ gen = 0 /\ lastEpoch = 0
  /\ mutations = <<>> /\ reply = NoAnswer
  /\ run = NoRun
  /\ accepted = 0 /\ epochs = 0 /\ gone = {} /\ late = {} /\ revived = {}
  /\ reloads = 0 /\ ioFaults = 0

IoFault == ioFaults < MaxIoFaults /\ ioFaults' = ioFaults + 1

\* compareRecordFreshness: epochs tell acceptances apart; NoHandle is oldest.
Fresher(a, b) == a.epoch > b.epoch
Newest(a, b) == IF Fresher(b, a) THEN b ELSE a
Same(a, b) == a.job = b.job /\ a.acc = b.acc

----------------------------------------------------------------------------
(* The queue of mutations. *)

Enqueue(what, for, handle) ==
  /\ gen' = gen + 1
  /\ mutations' =
       Append(mutations, [what |-> what, for |-> for, handle |-> handle, token |-> gen + 1])

\* persist, up to its place in the queue.
Persist(handle, for) ==
  /\ lastEpoch' = Newest([epoch |-> lastEpoch], handle).epoch
  /\ memory' = handle
  /\ Enqueue("put", for, handle)

\* deleteJob, up to its place in the queue.
DeleteJob(handle) ==
  /\ memory' = IF Same(memory, handle) THEN NoHandle ELSE memory
  /\ Enqueue("delete", "run", handle)
  /\ UNCHANGED lastEpoch

Turn == Head(mutations)
Latest == Turn.token = gen
HasTurn(what) == mutations # <<>> /\ Turn.what = what /\ Latest /\ reply = NoAnswer
Answered(what) == mutations # <<>> /\ Turn.what = what /\ reply # NoAnswer
Dequeue == mutations' = Tail(mutations) /\ reply' = NoAnswer

\* The promise of a put resolves: the commit of a run goes on, and the run is
\* the record it is told of, or init() has what load() migrated.
Resolved(stored, told, record) ==
  LET committed  == Turn.for = "run" /\ run.handle.acc = Turn.handle.acc
      identified == told /\ record.job = run.handle.job
      loaded     == Turn.for = "load" /\ page = "loading"
  IN  /\ run' = IF ~committed THEN run
                ELSE [run EXCEPT !.phase = "tracking", !.stored = stored,
                                 !.known = @ \/ identified,
                                 !.handle = IF identified THEN record ELSE @]
      /\ getter' = IF Turn.for # "load" THEN getter ELSE IF stored THEN "durable" ELSE "not"
      /\ page' = IF loaded THEN "restoring" ELSE page
      /\ got' = IF loaded THEN record ELSE got

\* A mutation that is not the latest any more: stale().
Overtaken ==
  /\ mutations # <<>> /\ ~Latest
  /\ Dequeue
  /\ IF Turn.what = "put" THEN Resolved(FALSE, FALSE, memory)
                          ELSE UNCHANGED <<run, loadVars>>
  /\ UNCHANGED <<storageVars, memory, gen, lastEpoch, accepted, epochs, endedVars,
                 boundVars>>

\* The read and the write of the put are one transaction.
PutTransaction ==
  /\ HasTurn("put")
  /\ IF Fresher(durable, Turn.handle)
       THEN reply' = [is |-> "kept", winner |-> durable] /\ UNCHANGED durable
       ELSE reply' = [is |-> "written", winner |-> Turn.handle] /\ durable' = Turn.handle
  /\ UNCHANGED <<session, loadVars, memory, gen, lastEpoch, mutations, run, accepted,
                 epochs, endedVars, boundVars>>

DeleteTransaction ==
  /\ HasTurn("delete")
  /\ durable' = IF Same(durable, Turn.handle) THEN NoHandle ELSE durable
  /\ reply' = [is |-> "deleted", winner |-> NoHandle]
  /\ UNCHANGED <<session, loadVars, memory, gen, lastEpoch, mutations, run, accepted,
                 epochs, endedVars, boundVars>>

TransactionFails ==
  /\ HasTurn("put") \/ HasTurn("delete")
  /\ IoFault
  /\ reply' = [is |-> "error", winner |-> NoHandle]
  /\ UNCHANGED <<storageVars, loadVars, memory, gen, lastEpoch, mutations, run, accepted,
                 epochs, endedVars, reloads>>

\* removeLegacyAtOrBefore
SessionAfter(winner) == IF Fresher(session, winner) THEN session ELSE NoHandle

PutAnswered ==
  /\ Answered("put") /\ Latest /\ reply.is # "error"
  /\ memory' = reply.winner
  /\ session' = SessionAfter(reply.winner)
  /\ Resolved(reply.is = "written", TRUE, reply.winner)
  /\ Dequeue
  /\ UNCHANGED <<durable, gen, lastEpoch, accepted, epochs, endedVars, boundVars>>

\* The session storage is the fallback; the record stays in memory anyway.
PutFallsBack ==
  /\ Answered("put") /\ Latest /\ reply.is = "error"
  /\ \/ session' = Turn.handle /\ Resolved(TRUE, TRUE, Turn.handle) /\ UNCHANGED ioFaults
     \/ IoFault /\ Resolved(FALSE, TRUE, Turn.handle) /\ UNCHANGED session
  /\ Dequeue
  /\ UNCHANGED <<durable, memory, gen, lastEpoch, accepted, epochs, endedVars, reloads>>

\* removeLegacyJob
SessionWithout(handle) == IF Same(session, handle) THEN NoHandle ELSE session

DeleteAnswered ==
  /\ Answered("delete") /\ Latest
  /\ session' = SessionWithout(Turn.handle)
  /\ IF reply.is = "deleted"
       THEN gone' = gone \cup {Turn.handle.acc} /\ revived' = revived \ {Turn.handle.acc}
       ELSE UNCHANGED <<gone, revived>>
  /\ Dequeue
  /\ UNCHANGED <<durable, loadVars, memory, gen, lastEpoch, run, accepted, epochs, late,
                 boundVars>>

----------------------------------------------------------------------------
(* load(), and init() around it. *)

Open(times) ==
  /\ page' = "loading" /\ getter' = "asked" /\ got' = NoHandle
  /\ memory' = NoHandle /\ gen' = 0 /\ lastEpoch' = 0
  /\ mutations' = <<>> /\ reply' = NoAnswer
  /\ run' = NoRun /\ late' = {}
  /\ reloads' = times
  /\ UNCHANGED <<storageVars, accepted, epochs, gone, revived, ioFaults>>

\* Whatever the page was waiting for is lost with it.
Visit  == page = "closed" /\ Open(reloads)
Reload == page # "closed" /\ reloads < MaxReloads /\ Open(reloads + 1)

LoadReads ==
  /\ getter = "asked"
  /\ \/ getter' = "read" /\ got' = durable /\ UNCHANGED ioFaults
     \/ IoFault /\ getter' = "failed" /\ UNCHANGED got
  /\ UNCHANGED <<page, storageVars, tailVars, run, accepted, epochs, endedVars, reloads>>

\* init() waits for load() no longer.
LoadTimesOut ==
  /\ page = "loading"
  /\ page' = "ready"
  /\ UNCHANGED <<getter, got, storageVars, tailVars, run, accepted, epochs, endedVars,
                 boundVars>>

\* load() ends with a record in hand, if init() still waits for it.
Loaded(record, how) ==
  /\ getter' = how
  /\ page' = IF page = "loading" THEN "restoring" ELSE page
  /\ got' = IF page = "loading" THEN record ELSE NoHandle

OvertakenLoad_Never == FALSE
OvertakenLoad == gen # 0

LoadSuperseded ==
  /\ getter \in {"read", "failed"} /\ OvertakenLoad
  /\ Loaded(memory, "not")
  /\ UNCHANGED <<storageVars, tailVars, run, accepted, epochs, endedVars, boundVars>>

Selected == Newest(Newest(memory, got), session)

\* The newest record of all stores is the durable one, or the durable store
\* could not be read, or it is written there now.
LoadSelects ==
  /\ getter \in {"read", "failed"} /\ ~OvertakenLoad
  /\ IF Selected = NoHandle \/ getter = "failed" \/ Selected = got
       THEN /\ Loaded(Selected, IF getter = "failed" THEN "not" ELSE "durable")
            /\ memory' = Selected
            /\ lastEpoch' = Newest([epoch |-> lastEpoch], Selected).epoch
            /\ session' = IF Selected = NoHandle \/ getter = "failed" THEN session
                                                      ELSE SessionAfter(Selected)
            /\ UNCHANGED <<gen, mutations>>
       ELSE /\ Persist(Selected, "load")
            /\ getter' = "migrating" /\ got' = NoHandle
            /\ UNCHANGED <<page, session>>
  /\ UNCHANGED <<durable, reply, run, accepted, epochs, endedVars, boundVars>>

\* restoreStoredCompile, when the boards are known and fit.
Restore ==
  /\ page = "restoring" /\ got # NoHandle
  /\ page' = "ready" /\ got' = NoHandle
  /\ \E c \in {"no", "may"} :
       run' = [phase |-> "tracking", handle |-> got, known |-> TRUE,
               stored |-> getter = "durable", cancel |-> c]
  /\ UNCHANGED <<getter, storageVars, tailVars, accepted, epochs, endedVars, boundVars>>

\* The record does not fit the project any more.
RestoreRefused ==
  /\ page = "restoring" /\ got # NoHandle
  /\ page' = "ready" /\ got' = NoHandle
  /\ DeleteJob(got)
  /\ UNCHANGED <<getter, storageVars, reply, run, accepted, epochs, endedVars, boundVars>>

\* Nothing was stored, or its board is not offered now.
NothingToRestore ==
  /\ page = "restoring"
  /\ page' = "ready" /\ got' = NoHandle
  /\ UNCHANGED <<getter, storageVars, tailVars, run, accepted, epochs, endedVars, boundVars>>

----------------------------------------------------------------------------
(* compile(). *)

\* A compile that is started calls off the one that would be restored.
Compile ==
  /\ page \in {"restoring", "ready"} /\ run = NoRun
  /\ run' = [NoRun EXCEPT !.phase = "submitting"]
  /\ page' = "ready"
  /\ got' = IF page = "restoring" THEN NoHandle ELSE got
  /\ UNCHANGED <<getter, storageVars, tailVars, accepted, epochs, endedVars, boundVars>>

NotAccepted ==
  /\ run.phase = "submitting"
  /\ run' = NoRun
  /\ UNCHANGED <<loadVars, storageVars, tailVars, accepted, epochs, endedVars, boundVars>>

\* now(), behind what an earlier page saw only if this page has learnt that.
Informed == \A r \in {durable, session} : r.epoch <= lastEpoch
Now == {epochs + 1} \cup IF Informed THEN {0} ELSE {}

NextEpoch_Clock(time) == time
NextEpoch(time) == IF time > lastEpoch THEN time ELSE lastEpoch + 1

\* commitCompileAcceptance: the handle is committed before anything else is
\* done with it, a cancellation that was asked for meanwhile included.
Commit ==
  /\ run.phase = "submitting" /\ accepted < MaxAccepted
  /\ accepted' = accepted + 1
  /\ \E j \in PageJobs, time \in Now :
       LET handle == [job |-> j, acc |-> accepted + 1, epoch |-> NextEpoch(time)]
       IN  /\ run' = [phase |-> "committing", handle |-> handle, known |-> FALSE,
                    stored |-> FALSE, cancel |-> "may"]
           /\ epochs' = Newest([epoch |-> epochs], handle).epoch
           /\ Persist(handle, "run")
  /\ UNCHANGED <<loadVars, storageVars, reply, endedVars, boundVars>>

Accepted == run.phase \in {"committing", "tracking"}

\* cancelRemoteCompile has the headers of a 404, and the run is still active.
HandleAnswered ==
  /\ Accepted /\ run.cancel = "may"
  /\ run' = [run EXCEPT !.cancel = "answered"]
  /\ UNCHANGED <<loadVars, storageVars, tailVars, accepted, epochs, endedVars, boundVars>>

\* What storeCompile puts of a run that it stores again: a run that was never
\* told its epoch gets a new one.
Again(handle, known, time) ==
  IF known THEN handle ELSE [handle EXCEPT !.epoch = NextEpoch(time)]

\* Then it has the body: the compile is stored again without the cancellation.
HandleExpired ==
  /\ Accepted /\ run.cancel = "answered"
  /\ \E time \in Now :
       LET handle == Again(run.handle, run.known, time)
       IN  /\ run' = [run EXCEPT !.cancel = "no", !.handle = handle]
           /\ epochs' = Newest([epoch |-> epochs], handle).epoch
           /\ Persist(handle, "run")
  /\ UNCHANGED <<loadVars, storageVars, reply, accepted, endedVars, boundVars>>

\* Nobody looks again whether the run is active: one that is over by now is
\* stored all the same.
ExpiredLate ==
  /\ \E l \in late, time \in Now :
       LET handle == Again(l.handle, l.known, time)
       IN  /\ late' = late \ {l}
           /\ revived' = revived \cup {handle.acc}
           /\ epochs' = Newest([epoch |-> epochs], handle).epoch
           /\ Persist(handle, "run")
  /\ UNCHANGED <<loadVars, storageVars, reply, run, accepted, gone, boundVars>>

\* finishCompile: a result, a 404, a cancellation.  Nobody waits for the delete.
FinishCompile ==
  /\ Accepted
  /\ late' = IF run.cancel # "answered" THEN late
             ELSE late \cup {[handle |-> run.handle, known |-> run.known]}
  /\ run' = NoRun
  /\ DeleteJob(run.handle)
  /\ UNCHANGED <<loadVars, storageVars, reply, accepted, epochs, gone, revived, boundVars>>

PageNext ==
  \/ Visit \/ Reload \/ LoadReads \/ LoadTimesOut \/ LoadSuperseded \/ LoadSelects
  \/ Restore \/ RestoreRefused \/ NothingToRestore
  \/ Compile \/ NotAccepted \/ Commit \/ FinishCompile
  \/ HandleAnswered \/ HandleExpired \/ ExpiredLate
  \/ Overtaken \/ PutTransaction \/ DeleteTransaction \/ TransactionFails
  \/ PutAnswered \/ PutFallsBack \/ DeleteAnswered

PageSpec == PageInit /\ [][PageNext]_pageVars

(***************************************************************************)
(* Properties.                                                             *)
(***************************************************************************)
Handles == [job : PageJobs \cup {Nothing}, acc : 0..MaxAccepted, epoch : Nat]

\* Every variable keeps to its range.
PageTypeOK ==
  /\ {durable, session, memory, got, run.handle, reply.winner} \subseteq Handles
  /\ page \in {"closed", "loading", "restoring", "ready"}
  /\ getter \in {"no", "asked", "read", "failed", "migrating", "durable", "not"}
  /\ run.phase \in {"none", "submitting", "committing", "tracking"}
  /\ gen \in Nat /\ lastEpoch \in Nat /\ epochs \in Nat
  /\ \A k \in DOMAIN mutations :
       mutations[k].handle \in Handles /\ mutations[k].token \in 1..gen
  /\ run.cancel \in {"no", "may", "answered"}
  /\ \A l \in late : l.handle \in Handles
  /\ gone \cup revived \subseteq 1..MaxAccepted

\* A compile that is shown, and that was reported to be stored, is what a
\* reload finds: nothing older hides or removes it, though one store or the
\* other failed before, deletes come late and the clock went back.  When this
\* page could not have its record from the durable store, that store may hold
\* a compile accepted after it, and only that comes first.  A finished compile
\* that a late answer has stored again takes its place until it is deleted.
ReloadFindsRun ==
  LET found == Newest(durable, session)
  IN  run.phase = "tracking" /\ run.stored /\ revived = {} =>
        \/ Same(found, run.handle)
        \/ getter = "not" /\ found.acc > run.handle.acc

\* A handle whose deletion was reported durable comes back from no store, not
\* by a write that was queued before nor by a load that was slow: only by the
\* answer to its cancellation, which the page stores whenever it comes.
DeletedStaysDeleted ==
  \A r \in {durable, session, memory} : r.acc \notin gone \ revived
=============================================================================
