------------------------- MODULE ActiveCompileProofs -------------------------
(***************************************************************************)
(* Proofs about a page: about what it stores, for any number of compiles,  *)
(* reloads and failed transactions; about the result it shows; and about   *)
(* the chips it flashes.  The argument for deletions: a handle is reported *)
(* gone when its delete is the only mutation in the queue, and from the    *)
(* turn that queued this delete on, nothing that could still be written    *)
(* holds the handle.  The argument for reloads: only the latest mutation   *)
(* writes, and its handle, those stored and the one in hand have epochs in *)
(* the order in which their compiles were accepted.                        *)
(***************************************************************************)
EXTENDS ActiveCompile, PageSession, FirmwareFlash, TLAPS

Mutation == [what : {"put", "delete"}, for : {"run", "load"}, handle : Handles, token : Nat]

RunRecords ==
  [phase : {"none", "submitting", "committing", "tracking"}, handle : Handles,
   known : BOOLEAN, stored : BOOLEAN, cancel : {"no", "may", "answered"}]

PageShape ==
  /\ durable \in Handles /\ session \in Handles /\ memory \in Handles /\ got \in Handles
  /\ run \in RunRecords
  /\ reply \in [is : {"none", "kept", "written", "deleted", "error"}, winner : Handles]
  /\ page \in {"closed", "loading", "restoring", "ready"}
  /\ getter \in {"no", "asked", "read", "failed", "migrating", "durable", "not"}
  /\ gen \in Nat /\ lastEpoch \in Nat /\ epochs \in Nat
  /\ accepted \in 0..MaxAccepted /\ gone \subseteq 1..accepted
  /\ late \subseteq [handle : Handles, known : BOOLEAN] /\ revived \subseteq 1..accepted

Queued == {mutations[k] : k \in DOMAIN mutations}

\* Tokens grow along the queue, so that the latest mutation is its last.
QueueShape ==
  /\ mutations \in Seq(Mutation)
  /\ \A k \in DOMAIN mutations : mutations[k].token \in 1..gen
  /\ \A i, k \in DOMAIN mutations : i < k => mutations[i].token < mutations[k].token

Held == {NoHandle, durable, session, memory, got, run.handle, reply.winner}
          \cup {m.handle : m \in Queued} \cup {l.handle : l \in late}

\* An acceptance has one job, wherever its handle is.
HandlesAgree ==
  /\ \A a \in Held :
       a.acc <= accepted /\ (a = NoHandle \/ (a.acc >= 1 /\ a.job \in PageJobs))
  /\ \A a, b \in Held : a.acc = b.acc => a.job = b.job

\* Deletes are queued by a page that is ready, and runs are its own, ended ones
\* too; an answer belongs to a mutation.
Stages ==
  /\ \A m \in Queued : m.handle.acc >= 1 /\ (m.what = "delete" => page = "ready")
  /\ run.phase # "none" => page = "ready"
  /\ run.phase \in {"none", "submitting"} => run.handle = NoHandle
  /\ run.phase \in {"committing", "tracking"} => run.handle.acc >= 1
  /\ reply.is # "none" => Queued # {}
  /\ \A l \in late : l.handle.acc >= 1 /\ page = "ready"

\* What is gone, and was not brought back, is not stored, not in use, and not
\* about to be written, but by the answer to a cancellation.
Gone == gone \ revived

StaysGone ==
  /\ durable.acc \notin Gone /\ session.acc \notin Gone /\ memory.acc \notin Gone
  /\ reply.winner.acc \notin Gone /\ run.handle.acc \notin Gone
  /\ page # "ready" \/ gen = 0 => got.acc \notin Gone
  /\ \A m \in Queued : m.what = "put" => m.handle.acc \notin Gone

\* A delete that is the latest mutation: nothing that is written later holds
\* its handle, nor does the durable store once the transaction is answered.
Deleting ==
  \A m \in Queued : m.what = "delete" /\ m.token = gen =>
    /\ memory.acc # m.handle.acc /\ run.handle.acc # m.handle.acc
    /\ reply.is = "deleted" /\ m = Turn => durable.acc # m.handle.acc

Shapes == PageShape /\ QueueShape
PageInv == Shapes /\ HandlesAgree /\ Stages /\ StaysGone /\ Deleting

-----------------------------------------------------------------------------
(* The queue. *)

LEMMA EmptyQueue ==
  ASSUME mutations = <<>>
  PROVE  QueueShape /\ Queued = {}
BY DEF QueueShape, Queued

LEMMA QueuedAreMutations ==
  ASSUME QueueShape, NEW m \in Queued
  PROVE  m \in Mutation /\ m.token \in 1..gen
BY DEF QueueShape, Queued

LEMMA TurnIsQueued ==
  ASSUME QueueShape, mutations # <<>>
  PROVE  Turn \in Queued
BY DEF QueueShape, Queued, Turn

LEMMA LatestIsAlone ==
  ASSUME QueueShape, gen \in Nat, mutations # <<>>, Latest
  PROVE  Len(mutations) = 1 /\ Queued = {Turn}
<1>1. Len(mutations) \in Nat /\ Len(mutations) >= 1 /\ DOMAIN mutations = 1..Len(mutations)
  BY DEF QueueShape
<1>2. Turn = mutations[1]
  BY DEF QueueShape, Turn
<1>3. ~(Len(mutations) > 1)
  <2> SUFFICES ASSUME Len(mutations) > 1
               PROVE  FALSE
    OBVIOUS
  <2>1. mutations[1].token < mutations[2].token /\ mutations[2].token \in 1..gen
    BY <1>1 DEF QueueShape
  <2> QED BY <1>2, <2>1 DEF Latest
<1> QED BY <1>1, <1>2, <1>3 DEF Queued

LEMMA DequeueKeeps ==
  ASSUME QueueShape, gen \in Nat, mutations # <<>>, mutations' = Tail(mutations), gen' = gen
  PROVE  /\ QueueShape' /\ Queued' \subseteq Queued
         /\ Latest => Queued' = {} /\ mutations' = <<>>
<1>1. /\ mutations' \in Seq(Mutation) /\ Len(mutations') = Len(mutations) - 1
      /\ \A k \in 1..(Len(mutations) - 1) : mutations'[k] = mutations[k + 1]
  BY DEF QueueShape
<1>2. /\ DOMAIN mutations' = 1..(Len(mutations) - 1) /\ DOMAIN mutations = 1..Len(mutations)
      /\ Len(mutations) \in Nat
  BY <1>1 DEF QueueShape
<1>3. QueueShape'
  BY <1>1, <1>2 DEF QueueShape
<1>4. Queued' \subseteq Queued
  BY <1>1, <1>2 DEF Queued
<1>5. Latest => Queued' = {} /\ mutations' = <<>>
  BY <1>1, <1>2, LatestIsAlone DEF Queued
<1> QED BY <1>3, <1>4, <1>5

LEMMA HeadOfLonger ==
  ASSUME NEW q, q \in Seq(Mutation), q # <<>>, NEW m
  PROVE  Head(Append(q, m)) = Head(q)
OBVIOUS

LEMMA EnqueueKeeps ==
  ASSUME QueueShape, gen \in Nat, NEW what \in {"put", "delete"}, NEW for \in {"run", "load"},
         NEW handle \in Handles, Enqueue(what, for, handle)
  PROVE  /\ QueueShape' /\ gen' = gen + 1
         /\ Queued' = Queued \cup
              {[what |-> what, for |-> for, handle |-> handle, token |-> gen + 1]}
<1> DEFINE m == [what |-> what, for |-> for, handle |-> handle, token |-> gen + 1]
<1>1. m \in Mutation /\ m.token = gen + 1
  BY DEF Mutation
<1>2. mutations' = Append(mutations, m) /\ gen' = gen + 1
  BY DEF Enqueue
<1> HIDE DEF m
<1>3. /\ mutations' \in Seq(Mutation) /\ Len(mutations') = Len(mutations) + 1
      /\ \A k \in 1..Len(mutations) : mutations'[k] = mutations[k]
      /\ mutations'[Len(mutations) + 1] = m
  BY <1>1, <1>2 DEF QueueShape
<1>4. /\ DOMAIN mutations' = 1..(Len(mutations) + 1) /\ DOMAIN mutations = 1..Len(mutations)
      /\ Len(mutations) \in Nat
  BY <1>3 DEF QueueShape
<1>5. QueueShape'
  BY <1>1, <1>2, <1>3, <1>4 DEF QueueShape
<1>6. Queued' = Queued \cup {m}
  <2>1. \A k \in DOMAIN mutations' : k \in DOMAIN mutations \/ k = Len(mutations) + 1
    BY <1>4
  <2> QED BY <1>3, <1>4, <2>1 DEF Queued
<1> QED BY <1>2, <1>5, <1>6 DEF m

-----------------------------------------------------------------------------
(* Handles. *)

LEMMA NoHandleIsHandle == NoHandle \in Handles /\ NoHandle.acc = 0 /\ NoHandle.epoch = 0
BY ActiveCompileConstants DEF NoHandle, Handles

LEMMA HeldAreHandles ==
  ASSUME Shapes, NEW a \in Held
  PROVE  a \in Handles
<1>1. \A l \in late : l.handle \in Handles
  BY DEF Shapes, PageShape
<1>2. \A m \in Queued : m.handle \in Handles
  BY QueuedAreMutations DEF Shapes, Mutation
<1>3. run.handle \in Handles /\ reply.winner \in Handles
  BY DEF Shapes, PageShape, RunRecords
<1> QED BY <1>1, <1>2, <1>3, NoHandleIsHandle DEF Shapes, PageShape, Held

\* No record of a run is expanded where its fields do not matter.
LEMMA NoRunIsRecord ==
  NoRun \in RunRecords /\ NoRun.handle = NoHandle /\ NoRun.phase = "none"
BY NoHandleIsHandle DEF NoRun, RunRecords

LEMMA RunFields ==
  ASSUME PageInv
  PROVE  /\ run \in RunRecords /\ run.handle \in Handles /\ run.handle \in Held
         /\ run.phase \in {"none", "submitting", "committing", "tracking"}
         /\ run.known \in BOOLEAN
BY DEF PageInv, Shapes, PageShape, RunRecords, Held

LEMMA OnlyNoHandleIsNone ==
  ASSUME Shapes, HandlesAgree, NEW a \in Held
  PROVE  a.acc \in Nat /\ (a.acc = 0 <=> a = NoHandle)
<1>1. a.acc \in Nat
  BY HeldAreHandles DEF Handles
<1> QED BY <1>1, NoHandleIsHandle DEF HandlesAgree

LEMMA AgreeWhenFewer ==
  ASSUME HandlesAgree, Held' \subseteq Held, accepted' = accepted
  PROVE  HandlesAgree'
BY DEF HandlesAgree

LEMMA SameIsSame ==
  ASSUME HandlesAgree, NEW a \in Held, NEW b \in Held
  PROVE  Same(a, b) <=> a.acc = b.acc
BY DEF HandlesAgree, Same

LEMMA NewestIsOne ==
  ASSUME NEW a, NEW b
  PROVE  Newest(a, b) \in {a, b}
BY DEF Newest

LEMMA NewestEpoch ==
  ASSUME NEW e \in Nat, NEW h \in Handles
  PROVE  Newest([epoch |-> e], h).epoch \in Nat
<1>1. h.epoch \in Nat
  BY DEF Handles
<1> QED BY <1>1 DEF Newest

\* What init() can be handed is not gone.
LEMMA SelectedIsHeld ==
  ASSUME Shapes
  PROVE  Selected \in {memory, got, session} /\ Selected \in Held /\ Selected \in Handles
<1>1. Selected \in {memory, got, session}
  BY NewestIsOne DEF Selected
<1> QED BY <1>1, HeldAreHandles DEF Held

-----------------------------------------------------------------------------
(* Steps that leave the queue alone. *)

LEMMA QueueUntouched ==
  ASSUME QueueShape, UNCHANGED <<mutations, gen>>
  PROVE  QueueShape' /\ Queued' = Queued
BY DEF QueueShape, Queued

LEMMA OpenKeeps ==
  ASSUME PageInv, NEW n, Open(n)
  PROVE  PageInv'
<1>1. /\ page' = "loading" /\ getter' = "asked" /\ got' = NoHandle /\ memory' = NoHandle
      /\ gen' = 0 /\ lastEpoch' = 0 /\ mutations' = <<>> /\ reply' = NoAnswer /\ run' = NoRun
      /\ UNCHANGED <<durable, session, accepted, epochs, gone, revived>> /\ late' = {}
  BY DEF Open, storageVars
<1>2. QueueShape' /\ Queued' = {}
  BY <1>1 DEF QueueShape, Queued
<1>3. /\ NoRun.handle = NoHandle /\ NoRun.phase = "none" /\ NoAnswer.winner = NoHandle
      /\ NoRun \in RunRecords
      /\ NoAnswer \in [is : {"none", "kept", "written", "deleted", "error"}, winner : Handles]
  BY NoHandleIsHandle, NoRunIsRecord DEF NoAnswer
<1>4. PageShape'
  BY <1>1, <1>3, NoHandleIsHandle DEF PageInv, Shapes, PageShape
<1>5. HandlesAgree'
  <2>1. Held' \subseteq Held
    BY <1>1, <1>2, <1>3 DEF Held
  <2> QED BY <1>1, <2>1, AgreeWhenFewer DEF PageInv
<1>6. Stages' /\ Deleting'
  BY <1>1, <1>2, <1>3 DEF Stages, Deleting, NoAnswer
<1>7. StaysGone'
  <2>1. 0 \notin Gone /\ Gone' = Gone
    BY <1>1 DEF PageInv, Shapes, PageShape, Gone
  <2> QED BY <1>1, <1>2, <1>3, <2>1, NoHandleIsHandle DEF PageInv, StaysGone
<1> QED BY <1>2, <1>4, <1>5, <1>6, <1>7 DEF PageInv, Shapes

\* Loading, restoring and compiling move the page on and take a record in hand
\* that is held already.
LEMMA PageStepKeeps ==
  ASSUME PageInv, UNCHANGED <<durable, mutations, gen, reply, accepted, endedVars, epochs>>,
         page' \in {"closed", "loading", "restoring", "ready"},
         getter' \in {"no", "asked", "read", "failed", "migrating", "durable", "not"},
         run' \in RunRecords,
         lastEpoch' \in Nat,
         session' \in {session, NoHandle},
         memory' \in Held, got' \in Held,
         page = "ready" => page' = "ready",
         page' # "ready" \/ gen = 0 => got'.acc \notin Gone,
         memory' = memory \/ (gen = 0 /\ memory'.acc \notin Gone),
         \/ run'.handle = run.handle /\ (run'.phase = "none" <=> run.phase = "none")
              /\ (run.phase \in {"none", "submitting"} => run'.phase \in {"none", "submitting"})
              /\ (run.phase \in {"committing", "tracking"} =>
                     run'.phase \in {"committing", "tracking"})
         \/ page' = "ready" /\ run'.phase \in {"none", "submitting"} /\ run'.handle = NoHandle
         \/ page = "restoring" /\ page' = "ready" /\ run'.phase = "tracking"
              /\ run'.handle = got /\ got # NoHandle
  PROVE  PageInv'
<1>1. QueueShape' /\ Queued' = Queued
  BY QueueUntouched DEF PageInv, Shapes
<1>2. /\ memory' \in Handles /\ got' \in Handles /\ NoHandle \in Handles
      /\ NoHandle.acc = 0 /\ 0 \notin Gone /\ Gone' = Gone
  BY HeldAreHandles, NoHandleIsHandle DEF PageInv, Shapes, PageShape, Gone, endedVars
<1>3. PageShape'
  BY <1>2 DEF PageInv, Shapes, PageShape, endedVars
<1>4. run'.handle \in {run.handle, NoHandle, got}
  OBVIOUS
<1>5. HandlesAgree'
  <2>1. Held' \subseteq Held
    BY <1>1, <1>4 DEF Held, endedVars
  <2> QED BY <2>1, AgreeWhenFewer DEF PageInv
<1>6. got # NoHandle => got.acc # 0
  <2>1. got \in Held
    BY DEF Held
  <2> QED BY <2>1, OnlyNoHandleIsNone DEF PageInv
<1>7. got.acc \in Nat
  BY DEF PageInv, Shapes, PageShape, Handles
<1>8. Stages'
  <2>1. /\ run.phase \in {"none", "submitting", "committing", "tracking"}
        /\ run'.phase \in {"none", "submitting", "committing", "tracking"}
    BY RunFields DEF RunRecords
  <2>2. \A m \in Queued : m.handle.acc >= 1 /\ (m.what = "delete" => page' = "ready")
    BY DEF PageInv, Stages
  <2>3. run'.phase # "none" => page' = "ready"
    BY <2>1 DEF PageInv, Stages
  <2>4. run'.phase \in {"none", "submitting"} => run'.handle = NoHandle
    BY <2>1 DEF PageInv, Stages
  <2>5. run'.phase \in {"committing", "tracking"} => run'.handle.acc >= 1
    BY <1>6, <1>7, <2>1 DEF PageInv, Stages
  <2>6. \A l \in late' : l.handle.acc >= 1 /\ page' = "ready"
    BY DEF PageInv, Stages, endedVars
  <2> QED BY <1>1, <2>2, <2>3, <2>4, <2>5, <2>6 DEF PageInv, Stages
<1>9. StaysGone'
  BY <1>1, <1>2 DEF PageInv, StaysGone
<1>10. Deleting'
  <2> SUFFICES ASSUME NEW m \in Queued, m.what = "delete", m.token = gen
               PROVE  /\ memory'.acc # m.handle.acc /\ run'.handle.acc # m.handle.acc
                      /\ reply.is = "deleted" /\ m = Turn => durable.acc # m.handle.acc
    BY <1>1 DEF Deleting, Turn
  <2>1. m.token \in 1..gen /\ m.handle.acc >= 1 /\ m.handle \in Handles /\ page = "ready"
    BY QueuedAreMutations DEF PageInv, Shapes, Stages, Mutation
  <2>2. gen # 0 /\ m.handle.acc # 0
    BY <2>1 DEF PageInv, Shapes, PageShape, Handles
  <2> QED BY <1>2, <2>1, <2>2 DEF PageInv, Deleting
<1> QED BY <1>1, <1>3, <1>5, <1>8, <1>9, <1>10 DEF PageInv, Shapes

\* load() and what init() does with its record.
LEMMA LoadKeeps ==
  ASSUME PageInv, LoadReads \/ LoadTimesOut \/ LoadSuperseded
  PROVE  PageInv'
<1>1. /\ UNCHANGED <<durable, session, mutations, gen, reply, accepted, endedVars, epochs,
                     memory, run, lastEpoch>>
      /\ page = "ready" => page' = "ready"
      /\ page' \in {"closed", "loading", "restoring", "ready"}
      /\ getter' \in {"no", "asked", "read", "failed", "migrating", "durable", "not"}
      /\ got' \in {got, durable, memory, NoHandle}
      /\ got' = got => (page' = page \/ page = "loading")
  BY DEF LoadReads, LoadTimesOut, LoadSuperseded, Loaded, tailVars, storageVars, boundVars,
         PageInv, Shapes, PageShape
<1>2. got' \in Held /\ memory' \in Held
  BY <1>1 DEF Held
<1>3. page' # "ready" \/ gen = 0 => got'.acc \notin Gone
  BY <1>1, NoHandleIsHandle DEF PageInv, StaysGone, Shapes, PageShape, Gone
<1>4. /\ run' \in RunRecords
      /\ lastEpoch' \in Nat
  BY <1>1 DEF PageInv, Shapes, PageShape
<1> QED BY <1>1, <1>2, <1>3, <1>4, PageStepKeeps

LEMMA LoadSelectsHere ==
  ASSUME PageInv, LoadSelects,
         Selected = NoHandle \/ getter = "failed" \/ Selected = got
  PROVE  PageInv'
<1>1. /\ Loaded(Selected, IF getter = "failed" THEN "not" ELSE "durable")
      /\ memory' = Selected
      /\ lastEpoch' = Newest([epoch |-> lastEpoch], Selected).epoch
      /\ session' \in {session, NoHandle}
      /\ UNCHANGED <<durable, mutations, gen, reply, accepted, endedVars, epochs, run>>
      /\ gen = 0
  BY DEF LoadSelects, SessionAfter, OvertakenLoad
<1>2. Selected \in Held /\ Selected \in Handles /\ Selected \in {memory, got, session}
  BY SelectedIsHeld DEF PageInv
<1>3. Selected.acc \notin Gone /\ NoHandle.acc \notin Gone /\ NoHandle \in Held
  BY <1>1, <1>2, NoHandleIsHandle DEF PageInv, StaysGone, Shapes, PageShape, Held, Gone
<1>4. lastEpoch' \in Nat
  BY <1>1, <1>2, NewestEpoch DEF PageInv, Shapes, PageShape
<1>5. /\ page = "ready" => page' = "ready"
      /\ page' \in {"closed", "loading", "restoring", "ready"}
      /\ getter' \in {"no", "asked", "read", "failed", "migrating", "durable", "not"}
      /\ got' \in {Selected, NoHandle}
  BY <1>1 DEF Loaded, PageInv, Shapes, PageShape
<1>6. run' \in RunRecords
  BY <1>1 DEF PageInv, Shapes, PageShape
<1> QED BY <1>1, <1>2, <1>3, <1>4, <1>5, <1>6, PageStepKeeps

LEMMA CompileKeeps ==
  ASSUME PageInv, Restore \/ NothingToRestore \/ Compile \/ NotAccepted \/ HandleAnswered
  PROVE  PageInv'
<1>1. /\ UNCHANGED <<durable, session, mutations, gen, reply, accepted, endedVars, epochs,
                     memory, lastEpoch, getter>>
      /\ page' \in {"closed", "loading", "restoring", "ready"}
      /\ page = "ready" => page' = "ready"
      /\ got' = NoHandle \/ (got' = got /\ page' = page)
  BY DEF Restore, NothingToRestore, Compile, NotAccepted, HandleAnswered, tailVars, storageVars,
         loadVars, boundVars, PageInv, Shapes, PageShape
<1>2. /\ got' \in Held /\ memory' \in Held
      /\ page' # "ready" \/ gen = 0 => got'.acc \notin Gone
  BY <1>1, NoHandleIsHandle DEF Held, PageInv, StaysGone, Shapes, PageShape, Gone
<1>3. \/ /\ page = "restoring" /\ page' = "ready" /\ got # NoHandle
         /\ \E c \in {"no", "may"} :
              run' = [phase |-> "tracking", handle |-> got, known |-> TRUE,
                      stored |-> getter = "durable", cancel |-> c]
      \/ run' = run
      \/ run' = [run EXCEPT !.cancel = "answered"]
      \/ page' = "ready" /\ run' = [NoRun EXCEPT !.phase = "submitting"]
      \/ page' = "ready" /\ run' = NoRun
  BY DEF Restore, NothingToRestore, Compile, NotAccepted, HandleAnswered, loadVars, tailVars,
         PageInv, Stages
<1>4. /\ run' \in RunRecords
      /\ \/ run'.phase = run.phase /\ run'.handle = run.handle
         \/ page' = "ready" /\ run'.phase \in {"none", "submitting"} /\ run'.handle = NoHandle
         \/ page = "restoring" /\ page' = "ready" /\ run'.phase = "tracking"
              /\ run'.handle = got /\ got # NoHandle
  <2>1. got \in Handles
    BY DEF PageInv, Shapes, PageShape
  <2>2. ASSUME NEW c \in {"no", "may"},
               run' = [phase |-> "tracking", handle |-> got, known |-> TRUE,
                       stored |-> getter = "durable", cancel |-> c]
        PROVE  run'.phase = "tracking" /\ run'.handle = got /\ run' \in RunRecords
    <3>1. (getter = "durable") \in BOOLEAN
      OBVIOUS
    <3> QED BY <2>1, <2>2, <3>1 DEF RunRecords
  <2>3. ASSUME run' = [NoRun EXCEPT !.phase = "submitting"]
        PROVE  run'.phase = "submitting" /\ run'.handle = NoHandle /\ run' \in RunRecords
    BY <2>3, NoRunIsRecord DEF RunRecords
  <2>4. ASSUME run' = [run EXCEPT !.cancel = "answered"]
        PROVE  run'.phase = run.phase /\ run'.handle = run.handle /\ run' \in RunRecords
    BY <2>4, RunFields DEF RunRecords
  <2> QED BY <1>3, <2>2, <2>3, <2>4, NoRunIsRecord, RunFields
<1>5. /\ lastEpoch' \in Nat
      /\ getter' \in {"no", "asked", "read", "failed", "migrating", "durable", "not"}
  BY <1>1 DEF PageInv, Shapes, PageShape
<1> QED BY <1>1, <1>2, <1>4, <1>5, PageStepKeeps

-----------------------------------------------------------------------------
(* Steps that add a mutation. *)

\* A put: of an acceptance that is held, or of a new one.
LEMMA PersistKeeps ==
  ASSUME PageInv, NEW handle \in Handles, NEW for \in {"run", "load"}, Persist(handle, for),
         handle.acc >= 1, handle.acc \notin Gone', Gone' \subseteq Gone,
         UNCHANGED <<durable, session, page, reply, gone>>,
         accepted' \in 0..MaxAccepted, accepted <= accepted', epochs' \in Nat,
         \/ accepted' = accepted /\ \E h \in Held : handle.acc = h.acc /\ handle.job = h.job
         \/ /\ handle.acc = accepted + 1 /\ accepted' = accepted + 1
            /\ handle.job \in PageJobs,
         getter' \in {"no", "asked", "read", "failed", "migrating", "durable", "not"},
         got' \in {got, NoHandle},
         late' \subseteq late, revived' \subseteq 1..accepted',
         run' \in RunRecords,
         \/ run'.handle = run.handle /\ run'.phase = run.phase
         \/ /\ run'.handle = handle /\ page = "ready"
            /\ run'.phase \in {"committing", "tracking"}
  PROVE  PageInv'
<1> DEFINE m == [what |-> "put", for |-> for, handle |-> handle, token |-> gen + 1]
<1>1. /\ QueueShape' /\ gen' = gen + 1 /\ Queued' = Queued \cup {m}
      /\ memory' = handle /\ lastEpoch' = Newest([epoch |-> lastEpoch], handle).epoch
  BY EnqueueKeeps DEF Persist, PageInv, Shapes, PageShape
<1>2. m.what = "put" /\ m.handle = handle
  OBVIOUS
<1> HIDE DEF m
<1>3. lastEpoch' \in Nat
  BY <1>1, NewestEpoch DEF PageInv, Shapes, PageShape
<1>4. PageShape'
  BY <1>1, <1>3, NoHandleIsHandle DEF PageInv, Shapes, PageShape
<1>5. HandlesAgree'
  <2>1. Held' \subseteq Held \cup {handle}
    BY <1>1, <1>2 DEF Held
  <2>2. CASE accepted' = accepted /\ \E h \in Held : handle.acc = h.acc /\ handle.job = h.job
    <3>1. PICK h \in Held : handle.acc = h.acc /\ handle.job = h.job
      BY <2>2
    <3>2. h # NoHandle
      BY <3>1, NoHandleIsHandle
    <3>3. handle.acc <= accepted /\ handle.job \in PageJobs
      BY <3>1, <3>2 DEF PageInv, HandlesAgree
    <3>4. \A a \in Held : a.acc = handle.acc => a.job = handle.job
      BY <3>1 DEF PageInv, HandlesAgree
    <3>5. \A a \in Held' :
            a.acc <= accepted /\ (a = NoHandle \/ (a.acc >= 1 /\ a.job \in PageJobs))
      BY <2>1, <3>3 DEF PageInv, HandlesAgree
    <3>6. \A a, b \in Held' : a.acc = b.acc => a.job = b.job
      BY <2>1, <3>4 DEF PageInv, HandlesAgree
    <3> QED BY <2>2, <3>5, <3>6 DEF HandlesAgree
  <2>3. CASE /\ handle.acc = accepted + 1 /\ accepted' = accepted + 1
             /\ handle.job \in PageJobs
    <3>1. \A a \in Held : a.acc \in Nat /\ a.acc <= accepted
      BY HeldAreHandles DEF PageInv, HandlesAgree, Handles
    <3>2. accepted \in Nat
      BY DEF PageInv, Shapes, PageShape
    <3>3. \A a \in Held' :
            a.acc <= accepted' /\ (a = NoHandle \/ (a.acc >= 1 /\ a.job \in PageJobs))
      BY <2>1, <2>3, <3>1, <3>2 DEF PageInv, HandlesAgree
    <3>4. \A a, b \in Held' : a.acc = b.acc => a.job = b.job
      <4>1. \A a \in Held : a.acc # handle.acc
        BY <2>3, <3>1, <3>2
      <4> QED BY <2>1, <4>1 DEF PageInv, HandlesAgree
    <3> QED BY <3>3, <3>4 DEF HandlesAgree
  <2> QED BY <2>2, <2>3
<1>6. Stages'
  BY <1>1, <1>2 DEF PageInv, Stages
<1>7. StaysGone'
  <2>1. 0 \notin Gone /\ gen + 1 # 0
    BY DEF PageInv, Shapes, PageShape, Gone
  <2>2. page # "ready" => got'.acc \notin Gone'
    BY <2>1, NoHandleIsHandle DEF PageInv, StaysGone
  <2> QED BY <1>1, <1>2, <2>1, <2>2 DEF PageInv, StaysGone
<1>8. Deleting'
  <2> SUFFICES ASSUME NEW d \in Queued', d.what = "delete", d.token = gen'
               PROVE  FALSE
    BY DEF Deleting
  <2>1. d \in Queued
    BY <1>1, <1>2
  <2>2. d.token \in 1..gen
    BY <2>1, QueuedAreMutations DEF PageInv, Shapes
  <2> QED BY <1>1, <2>2 DEF PageInv, Shapes, PageShape
<1> QED BY <1>1, <1>4, <1>5, <1>6, <1>7, <1>8 DEF PageInv, Shapes

LEMMA EpochsGiven ==
  ASSUME PageInv, NEW time \in Now
  PROVE  NextEpoch(time) \in Nat
<1>1. epochs \in Nat /\ lastEpoch \in Nat
  BY DEF PageInv, Shapes, PageShape
<1>2. time \in Nat
  BY <1>1 DEF Now
<1> QED BY <1>1, <1>2 DEF NextEpoch

\* A handle that is stored again is that of the same acceptance.
LEMMA StoredAgainIsSame ==
  ASSUME PageInv, NEW h \in Handles, NEW known \in BOOLEAN, NEW time \in Now
  PROVE  /\ Again(h, known, time) \in Handles
         /\ Again(h, known, time).acc = h.acc /\ Again(h, known, time).job = h.job
         /\ Newest([epoch |-> epochs], Again(h, known, time)).epoch \in Nat
<1>1. NextEpoch(time) \in Nat
  BY EpochsGiven
<1>2. CASE known
  <2>1. Again(h, known, time) = h
    BY <1>2 DEF Again
  <2> QED BY <2>1, NewestEpoch DEF PageInv, Shapes, PageShape
<1>3. CASE ~known
  <2>1. Again(h, known, time) = [h EXCEPT !.epoch = NextEpoch(time)]
    BY <1>3 DEF Again
  <2>2. /\ [h EXCEPT !.epoch = NextEpoch(time)] \in Handles
        /\ [h EXCEPT !.epoch = NextEpoch(time)].acc = h.acc
        /\ [h EXCEPT !.epoch = NextEpoch(time)].job = h.job
    BY <1>1 DEF Handles
  <2> QED BY <2>1, <2>2, NewestEpoch DEF PageInv, Shapes, PageShape
<1> QED BY <1>2, <1>3

LEMMA HandleExpiredKeeps ==
  ASSUME PageInv, HandleExpired
  PROVE  PageInv'
<1>1. PICK time \in Now :
        LET handle == Again(run.handle, run.known, time)
        IN  /\ run' = [run EXCEPT !.cancel = "no", !.handle = handle]
            /\ epochs' = Newest([epoch |-> epochs], handle).epoch
            /\ Persist(handle, "run")
  BY DEF HandleExpired
<1> DEFINE handle == Again(run.handle, run.known, time)
<1>2. /\ run' = [run EXCEPT !.cancel = "no", !.handle = handle]
      /\ epochs' = Newest([epoch |-> epochs], handle).epoch
      /\ Persist(handle, "run")
  BY <1>1
<1>3. /\ run \in RunRecords /\ run.handle \in Handles /\ run.handle \in Held
      /\ run.known \in BOOLEAN
  BY RunFields
<1>4. /\ handle \in Handles /\ handle.acc = run.handle.acc /\ handle.job = run.handle.job
      /\ epochs' \in Nat
  BY <1>2, <1>3, StoredAgainIsSame
<1> HIDE DEF handle
<1>5. /\ UNCHANGED <<durable, session, page, reply, gone, late, revived, accepted, getter, got>>
      /\ run.phase \in {"committing", "tracking"} /\ Gone' = Gone
  BY DEF HandleExpired, Accepted, loadVars, storageVars, endedVars, Gone
<1>6. run.handle.acc >= 1 /\ run.handle.acc \notin Gone /\ page = "ready"
  BY <1>5 DEF PageInv, Stages, StaysGone
<1>7. run' \in RunRecords /\ run'.handle = handle /\ run'.phase = run.phase
  BY <1>2, <1>3, <1>4 DEF RunRecords
<1>8. /\ accepted \in 0..MaxAccepted /\ accepted <= accepted /\ revived \subseteq 1..accepted
      /\ getter \in {"no", "asked", "read", "failed", "migrating", "durable", "not"}
  BY DEF PageInv, Shapes, PageShape
<1> QED BY <1>2, <1>3, <1>4, <1>5, <1>6, <1>7, <1>8, PersistKeeps

\* What is stored again late counts as brought back.
LEMMA ExpiredLateKeeps ==
  ASSUME PageInv, ExpiredLate
  PROVE  PageInv'
<1>1. PICK l \in late, time \in Now :
        LET handle == Again(l.handle, l.known, time)
        IN  /\ late' = late \ {l}
            /\ revived' = revived \cup {handle.acc}
            /\ epochs' = Newest([epoch |-> epochs], handle).epoch
            /\ Persist(handle, "run")
  BY DEF ExpiredLate
<1> DEFINE handle == Again(l.handle, l.known, time)
<1>2. /\ late' = late \ {l} /\ revived' = revived \cup {handle.acc}
      /\ epochs' = Newest([epoch |-> epochs], handle).epoch
      /\ Persist(handle, "run")
  BY <1>1
<1>3. /\ l.handle \in Handles /\ l.known \in BOOLEAN /\ l.handle \in Held
      /\ l.handle.acc >= 1
  BY DEF PageInv, Shapes, PageShape, Held, Stages
<1>4. /\ handle \in Handles /\ handle.acc = l.handle.acc /\ handle.job = l.handle.job
      /\ epochs' \in Nat
  BY <1>2, <1>3, StoredAgainIsSame
<1> HIDE DEF handle
<1>5. /\ UNCHANGED <<durable, session, page, reply, gone, run, accepted, getter, got>>
      /\ Gone' \subseteq Gone /\ handle.acc \notin Gone'
  BY <1>2 DEF ExpiredLate, loadVars, storageVars, Gone
<1>6. /\ accepted \in 0..MaxAccepted /\ accepted \in Nat /\ revived \subseteq 1..accepted
      /\ getter \in {"no", "asked", "read", "failed", "migrating", "durable", "not"}
  BY DEF PageInv, Shapes, PageShape
<1>7. l.handle.acc <= accepted /\ l.handle.acc \in Nat
  BY <1>3, OnlyNoHandleIsNone DEF PageInv, HandlesAgree
<1>8. revived' \subseteq 1..accepted
  <2>1. handle.acc \in 1..accepted
    BY <1>3, <1>4, <1>6, <1>7
  <2> QED BY <1>2, <1>6, <2>1
<1>9. accepted <= accepted /\ run \in RunRecords
  BY <1>6, RunFields
<1> QED BY <1>2, <1>3, <1>4, <1>5, <1>6, <1>8, <1>9, PersistKeeps

LEMMA CommitKeeps ==
  ASSUME PageInv, Commit
  PROVE  PageInv'
<1>1. PICK j \in PageJobs, time \in Now :
        LET handle == [job |-> j, acc |-> accepted + 1, epoch |-> NextEpoch(time)]
        IN  /\ run' = [phase |-> "committing", handle |-> handle, known |-> FALSE,
                       stored |-> FALSE, cancel |-> "may"]
            /\ epochs' = Newest([epoch |-> epochs], handle).epoch
            /\ Persist(handle, "run")
  BY DEF Commit
<1> DEFINE handle == [job |-> j, acc |-> accepted + 1, epoch |-> NextEpoch(time)]
<1>2. /\ run.phase = "submitting" /\ accepted < MaxAccepted /\ accepted' = accepted + 1
      /\ UNCHANGED <<durable, session, page, reply, gone, late, revived, getter, got>>
      /\ Gone' = Gone
  BY DEF Commit, loadVars, storageVars, endedVars, Gone
<1>3. /\ accepted \in 0..MaxAccepted /\ epochs \in Nat /\ MaxAccepted \in Nat
      /\ gone \subseteq 1..accepted /\ revived \subseteq 1..accepted /\ page = "ready"
      /\ getter \in {"no", "asked", "read", "failed", "migrating", "durable", "not"}
  BY <1>2, ActiveCompileConstants DEF PageInv, Shapes, PageShape, Stages
<1>4. NextEpoch(time) \in Nat
  BY EpochsGiven
<1>5. handle \in Handles /\ handle.acc = accepted + 1 /\ handle.job \in PageJobs
  BY <1>2, <1>3, <1>4 DEF Handles
<1>6. /\ run' = [phase |-> "committing", handle |-> handle, known |-> FALSE,
                 stored |-> FALSE, cancel |-> "may"]
      /\ epochs' = Newest([epoch |-> epochs], handle).epoch
      /\ Persist(handle, "run")
  BY <1>1
<1> HIDE DEF handle
<1>7. epochs' \in Nat
  BY <1>3, <1>5, <1>6, NewestEpoch
<1>8. run' \in RunRecords /\ run'.handle = handle /\ run'.phase = "committing"
  BY <1>5, <1>6 DEF RunRecords
<1>9. /\ handle.acc >= 1 /\ handle.acc \notin Gone /\ revived \subseteq 1..(accepted + 1)
      /\ accepted' \in 0..MaxAccepted /\ accepted <= accepted'
  BY <1>2, <1>3, <1>5 DEF Gone
<1> QED BY <1>2, <1>3, <1>5, <1>6, <1>7, <1>8, <1>9, PersistKeeps

LEMMA LoadMigrates ==
  ASSUME PageInv, LoadSelects,
         ~(Selected = NoHandle \/ getter = "failed" \/ Selected = got)
  PROVE  PageInv'
<1>1. /\ Persist(Selected, "load") /\ getter' = "migrating" /\ got' = NoHandle
      /\ UNCHANGED <<durable, session, page, reply, gone, late, revived, accepted, epochs, run>>
      /\ gen = 0 /\ Gone' = Gone
  BY DEF LoadSelects, OvertakenLoad, endedVars, Gone
<1>2. Selected \in Held /\ Selected \in Handles /\ Selected \in {memory, got, session}
  BY SelectedIsHeld DEF PageInv
<1>3. Selected.acc \notin Gone
  BY <1>1, <1>2 DEF PageInv, StaysGone
<1>4. Selected.acc >= 1
  <2>1. Selected.acc # 0 /\ Selected.acc \in Nat
    BY <1>2, OnlyNoHandleIsNone DEF PageInv
  <2> QED BY <2>1
<1>5. /\ accepted \in 0..MaxAccepted /\ accepted <= accepted /\ epochs \in Nat
      /\ revived \subseteq 1..accepted
      /\ run \in RunRecords
  BY DEF PageInv, Shapes, PageShape
<1> QED BY <1>1, <1>2, <1>3, <1>4, <1>5, PersistKeeps

\* A delete: of the run that is over, or of the record that is not restored.
LEMMA DeleteKeeps ==
  ASSUME PageInv, FinishCompile \/ RestoreRefused
  PROVE  PageInv'
<1>1. PICK handle \in {run.handle, got} :
        /\ DeleteJob(handle)
        /\ run'.handle = NoHandle /\ run'.phase = "none"
        /\ run' \in RunRecords
        /\ handle.acc >= 1
        /\ got' \in {got, NoHandle} /\ page' = "ready"
  <2>1. NoRun \in RunRecords
        /\ NoRun.handle = NoHandle /\ NoRun.phase = "none"
    BY NoRunIsRecord
  <2>2. CASE FinishCompile
    BY <2>1, <2>2 DEF FinishCompile, Accepted, loadVars, PageInv, Stages
  <2>3. CASE RestoreRefused
    <3>1. got # NoHandle /\ got \in Held
      BY <2>3 DEF RestoreRefused, Held
    <3>2. got.acc # 0 /\ got.acc \in Nat
      BY <3>1, OnlyNoHandleIsNone DEF PageInv
    <3>3. run' = run /\ run.phase = "none" /\ run.handle = NoHandle
      BY <2>3 DEF RestoreRefused, PageInv, Stages
    <3>4. run \in RunRecords
      BY RunFields
    <3> QED BY <2>3, <3>2, <3>3, <3>4 DEF RestoreRefused
  <2> QED BY <2>2, <2>3
<1> DEFINE m == [what |-> "delete", for |-> "run", handle |-> handle, token |-> gen + 1]
<1>2. handle \in Handles /\ handle \in Held
  BY RunFields DEF PageInv, Shapes, PageShape, Held
<1>3. /\ UNCHANGED <<durable, session, reply, gone, revived, accepted, epochs, lastEpoch,
                     getter>>
      /\ memory' = IF Same(memory, handle) THEN NoHandle ELSE memory
      /\ Gone' = Gone
  BY <1>1 DEF FinishCompile, RestoreRefused, loadVars, storageVars, endedVars, DeleteJob, Gone
<1>11. /\ late' \subseteq [handle : Handles, known : BOOLEAN]
       /\ \A l \in late' : l.handle \in Held /\ l.handle.acc >= 1
  <2>1. /\ late \subseteq [handle : Handles, known : BOOLEAN]
        /\ \A l \in late : l.handle \in Held /\ l.handle.acc >= 1
    BY DEF PageInv, Shapes, PageShape, Stages, Held
  <2>2. CASE FinishCompile
    <3> DEFINE l == [handle |-> run.handle, known |-> run.known]
    <3>1. /\ l \in [handle : Handles, known : BOOLEAN]
          /\ l.handle = run.handle /\ run.handle \in Held /\ run.handle.acc >= 1
      BY <2>2, RunFields DEF FinishCompile, Accepted, PageInv, Stages
    <3>2. late' \subseteq late \cup {l}
      BY <2>2 DEF FinishCompile
    <3> HIDE DEF l
    <3> QED BY <2>1, <3>1, <3>2
  <2>3. CASE RestoreRefused
    BY <2>1, <2>3 DEF RestoreRefused, endedVars
  <2> QED BY <2>2, <2>3
<1>4. /\ QueueShape' /\ gen' = gen + 1 /\ Queued' = Queued \cup {m}
      /\ mutations' = Append(mutations, m) /\ m.what = "delete" /\ m.handle = handle
  BY <1>1, <1>2, EnqueueKeeps DEF DeleteJob, Enqueue, PageInv, Shapes, PageShape
<1> HIDE DEF m
<1>5. memory'.acc # handle.acc /\ memory' \in {memory, NoHandle}
  <2>1. memory \in Held
    BY DEF Held
  <2> QED BY <1>1, <1>2, <1>3, <2>1, SameIsSame, NoHandleIsHandle DEF PageInv
<1>6. PageShape'
  BY <1>1, <1>3, <1>4, <1>5, <1>11, NoHandleIsHandle DEF PageInv, Shapes, PageShape
<1>7. HandlesAgree'
  <2>1. \A l \in late' : l.handle \in Held
    BY <1>11
  <2>2. Held' \subseteq Held
    BY <1>1, <1>2, <1>3, <1>4, <1>5, <2>1 DEF Held
  <2> QED BY <1>3, <2>2, AgreeWhenFewer DEF PageInv
<1>8. Stages'
  BY <1>1, <1>3, <1>4, <1>11 DEF PageInv, Stages
<1>9. StaysGone'
  <2>1. 0 \notin Gone /\ gen + 1 # 0
    BY DEF PageInv, Shapes, PageShape, Gone
  <2> QED BY <1>1, <1>3, <1>4, <1>5, <2>1, NoHandleIsHandle DEF PageInv, StaysGone
<1>10. Deleting'
  <2> SUFFICES ASSUME NEW d \in Queued', d.what = "delete", d.token = gen'
               PROVE  /\ memory'.acc # d.handle.acc /\ run'.handle.acc # d.handle.acc
                      /\ reply'.is = "deleted" /\ d = Turn' => durable'.acc # d.handle.acc
    BY DEF Deleting
  <2>1. d = m
    <3>1. ASSUME d \in Queued PROVE FALSE
      BY <1>4, <3>1, QueuedAreMutations DEF PageInv, Shapes, PageShape
    <3> QED BY <1>4, <3>1
  <2>2. memory'.acc # d.handle.acc /\ run'.handle.acc # d.handle.acc
    BY <1>1, <1>4, <1>5, <2>1, NoHandleIsHandle
  <2>3. ~(reply.is = "deleted" /\ d = Turn')
    <3> SUFFICES ASSUME reply.is = "deleted"
                 PROVE  d # Turn'
      OBVIOUS
    <3>1. mutations # <<>> /\ mutations \in Seq(Mutation)
      BY DEF PageInv, Shapes, QueueShape, Stages, Queued
    <3>2. Turn' = Turn
      BY <1>2, <1>4, <3>1, HeadOfLonger DEF Turn, PageInv, Shapes, PageShape
    <3>3. Turn.token \in 1..gen
      BY <3>1, TurnIsQueued, QueuedAreMutations DEF PageInv, Shapes
    <3> QED BY <1>4, <3>2, <3>3 DEF PageInv, Shapes, PageShape
  <2> QED BY <1>3, <2>2, <2>3
<1> QED BY <1>4, <1>6, <1>7, <1>8, <1>9, <1>10 DEF PageInv, Shapes

-----------------------------------------------------------------------------
(* Transactions, and what comes after them. *)

\* The transaction of the mutation whose turn it is has its answer.
LEMMA AnswerKeeps ==
  ASSUME PageInv, mutations # <<>>,
         UNCHANGED <<session, loadVars, memory, gen, lastEpoch, mutations, run, accepted,
                     epochs, gone, late, revived>>,
         reply' \in [is : {"kept", "written", "deleted", "error"}, winner : Handles],
         reply'.winner \in {durable, Turn.handle, NoHandle},
         durable' \in {durable, Turn.handle, NoHandle},
         durable'.acc \notin Gone, reply'.winner.acc \notin Gone,
         reply'.is = "deleted" => durable'.acc # Turn.handle.acc
  PROVE  PageInv'
<1>1. QueueShape' /\ Queued' = Queued /\ Turn' = Turn
  BY QueueUntouched DEF PageInv, Shapes, Turn
<1>2. Turn \in Queued /\ Turn.handle \in Handles
  BY TurnIsQueued, QueuedAreMutations DEF PageInv, Shapes, Mutation
<1>3. PageShape'
  BY <1>2, NoHandleIsHandle DEF PageInv, Shapes, PageShape, loadVars
<1>4. HandlesAgree'
  <2>1. Held' \subseteq Held
    BY <1>1, <1>2 DEF Held, loadVars
  <2> QED BY <2>1, AgreeWhenFewer DEF PageInv
<1>5. Stages'
  BY <1>1, <1>2 DEF PageInv, Stages, loadVars
<1>6. StaysGone'
  <2>1. Gone' = Gone
    BY DEF Gone
  <2> QED BY <1>1, <2>1 DEF PageInv, StaysGone, loadVars
<1>7. Deleting'
  BY <1>1 DEF PageInv, Deleting
<1> QED BY <1>1, <1>3, <1>4, <1>5, <1>6, <1>7 DEF PageInv, Shapes

LEMMA TransactionKeeps ==
  ASSUME PageInv, PutTransaction \/ DeleteTransaction \/ TransactionFails
  PROVE  PageInv'
<1>1. /\ mutations # <<>>
      /\ UNCHANGED <<session, loadVars, memory, gen, lastEpoch, mutations, run, accepted,
                     epochs, gone, late, revived>>
  BY DEF PutTransaction, DeleteTransaction, TransactionFails, HasTurn, storageVars, endedVars
<1>2. /\ Turn \in Queued /\ Turn \in Mutation /\ Turn.handle \in Handles /\ Turn.handle \in Held
      /\ durable \in Handles /\ durable \in Held /\ NoHandle \in Handles
  BY <1>1, TurnIsQueued, QueuedAreMutations, NoHandleIsHandle
     DEF PageInv, Shapes, PageShape, Mutation, Held
<1>3. durable.acc \notin Gone /\ NoHandle.acc \notin Gone
  BY NoHandleIsHandle DEF PageInv, Shapes, PageShape, StaysGone, Gone
<1>4. CASE PutTransaction
  <2>1. Turn.handle.acc \notin Gone
    BY <1>2, <1>4 DEF PutTransaction, HasTurn, PageInv, StaysGone
  <2>2. CASE Fresher(durable, Turn.handle)
    BY <1>1, <1>2, <1>3, <1>4, <2>2, AnswerKeeps DEF PutTransaction
  <2>3. CASE ~Fresher(durable, Turn.handle)
    BY <1>1, <1>2, <1>3, <1>4, <2>1, <2>3, AnswerKeeps DEF PutTransaction
  <2> QED BY <2>2, <2>3
<1>5. CASE DeleteTransaction
  <2>1. /\ durable' = IF Same(durable, Turn.handle) THEN NoHandle ELSE durable
        /\ reply' = [is |-> "deleted", winner |-> NoHandle]
    BY <1>5 DEF DeleteTransaction
  <2>2. Turn.handle.acc # 0
    BY <1>2 DEF PageInv, Stages, Handles
  <2>3. durable'.acc # Turn.handle.acc
    BY <1>2, <2>1, <2>2, SameIsSame, NoHandleIsHandle DEF PageInv
  <2> QED BY <1>1, <1>2, <1>3, <2>1, <2>3, AnswerKeeps
<1>6. CASE TransactionFails
  BY <1>1, <1>2, <1>3, <1>6, AnswerKeeps DEF TransactionFails, storageVars
<1> QED BY <1>4, <1>5, <1>6

\* The turn of a mutation is over.
LEMMA DequeueStepKeeps ==
  ASSUME PageInv, mutations # <<>>, Dequeue,
         UNCHANGED <<durable, gen, lastEpoch, accepted, epochs, late>>,
         session' \in Held, session'.acc \notin Gone',
         memory' \in Held, memory'.acc \notin Gone', memory' = memory \/ Latest,
         page' \in {"closed", "loading", "restoring", "ready"},
         page = "ready" => page' = "ready",
         getter' \in {"no", "asked", "read", "failed", "migrating", "durable", "not"},
         got' \in Held, page' # "ready" \/ gen = 0 => got'.acc \notin Gone',
         run' \in RunRecords, run'.handle \in Held, run'.handle.acc \notin Gone',
         run'.handle = run.handle \/ Latest,
         \/ run' = run
         \/ /\ {run.phase, run'.phase} \subseteq {"committing", "tracking"}
            /\ run'.handle.acc >= 1,
         gone' \cup revived' \subseteq 1..accepted, Gone' = Gone \/ Latest,
         durable.acc \notin Gone'
  PROVE  PageInv'
<1>1. /\ QueueShape' /\ Queued' \subseteq Queued /\ (Latest => Queued' = {})
      /\ reply' = NoAnswer
  BY DequeueKeeps DEF PageInv, Shapes, PageShape, Dequeue
<1>2. /\ NoAnswer.is = "none" /\ NoAnswer.winner = NoHandle
      /\ NoAnswer \in [is : {"none", "kept", "written", "deleted", "error"}, winner : Handles]
  BY NoHandleIsHandle DEF NoAnswer
<1>3. PageShape'
  <2>1. session' \in Handles /\ memory' \in Handles /\ got' \in Handles
    BY HeldAreHandles DEF PageInv
  <2> QED BY <1>1, <1>2, <2>1 DEF PageInv, Shapes, PageShape
<1>4. HandlesAgree'
  <2>1. Held' \subseteq Held
    BY <1>1, <1>2 DEF Held
  <2> QED BY <1>1, <2>1, AgreeWhenFewer DEF PageInv
<1>5. Stages'
  <2>1. \A m \in Queued' : m.handle.acc >= 1 /\ (m.what = "delete" => page' = "ready")
    BY <1>1 DEF PageInv, Stages
  <2>2. \A l \in late' : l.handle.acc >= 1 /\ page' = "ready"
    BY DEF PageInv, Stages
  <2>3. run'.phase # "none" => page' = "ready"
    BY DEF PageInv, Stages
  <2>4. run'.phase \in {"none", "submitting"} => run'.handle = NoHandle
    BY DEF PageInv, Stages
  <2>5. run'.phase \in {"committing", "tracking"} => run'.handle.acc >= 1
    BY DEF PageInv, Stages
  <2> QED BY <1>1, <1>2, <2>1, <2>2, <2>3, <2>4, <2>5 DEF Stages
<1>6. StaysGone'
  <2>1. 0 \notin Gone'
    BY DEF PageInv, Shapes, PageShape, Gone
  <2>2. \A q \in Queued' : q.what = "put" => q.handle.acc \notin Gone'
    BY <1>1 DEF PageInv, StaysGone
  <2> QED BY <1>1, <1>2, <2>1, <2>2, NoHandleIsHandle DEF StaysGone
<1>7. Deleting'
  <2> SUFFICES ASSUME NEW d \in Queued', d.what = "delete", d.token = gen
               PROVE  memory'.acc # d.handle.acc /\ run'.handle.acc # d.handle.acc
    BY <1>1, <1>2 DEF Deleting
  <2>1. d \in Queued /\ ~Latest
    BY <1>1
  <2> QED BY <2>1 DEF PageInv, Deleting
<1> QED BY <1>1, <1>3, <1>4, <1>5, <1>6, <1>7 DEF PageInv, Shapes

\* A commit that goes on is the one of the mutation that was queued for it; a
\* record with the job of the run is the run's.
LEMMA ResolvedKeeps ==
  ASSUME PageInv, mutations # <<>>, NEW stored \in BOOLEAN, NEW told \in BOOLEAN, NEW record,
         record \in Held, record.acc \notin Gone, Resolved(stored, told, record)
  PROVE  /\ page' \in {"closed", "loading", "restoring", "ready"}
         /\ page = "ready" => page' = "ready"
         /\ getter' \in {"no", "asked", "read", "failed", "migrating", "durable", "not"}
         /\ got' \in Held
         /\ page' # "ready" \/ gen = 0 => got'.acc \notin Gone
         /\ run' \in RunRecords /\ run'.handle \in Held /\ run'.handle.acc \notin Gone
         /\ ~told => run'.handle = run.handle
         /\ \/ run' = run
            \/ /\ {run.phase, run'.phase} \subseteq {"committing", "tracking"}
               /\ run'.handle.acc >= 1
<1>1. /\ run \in RunRecords /\ run.handle \in Held /\ run.known \in BOOLEAN
      /\ page \in {"closed", "loading", "restoring", "ready"}
      /\ getter \in {"no", "asked", "read", "failed", "migrating", "durable", "not"}
      /\ got \in Held
      /\ run.handle.acc \notin Gone
  BY RunFields DEF PageInv, Shapes, PageShape, Held, StaysGone
<1>2. page' \in {page, "restoring"} /\ (page' # page => page = "loading")
  BY DEF Resolved
<1>3. got' \in {got, record} /\ getter' \in {getter, "durable", "not"}
  BY DEF Resolved
<1>4. got' = got => page' = page \/ got = record
  BY DEF Resolved
<1>5. page' # "ready" \/ gen = 0 => got'.acc \notin Gone
  BY <1>2, <1>3, <1>4 DEF PageInv, StaysGone
<1>6. CASE run' = run
  BY <1>1, <1>2, <1>3, <1>5, <1>6
<1>7. CASE run' # run
  <2> DEFINE identified == told /\ record.job = run.handle.job
             h == IF identified THEN record ELSE run.handle
             k == run.known \/ identified
  <2>1. /\ run.handle.acc = Turn.handle.acc
        /\ run' = [run EXCEPT !.phase = "tracking", !.stored = stored, !.known = k, !.handle = h]
    BY <1>7 DEF Resolved
  <2>2. Turn.handle.acc # 0
    BY TurnIsQueued, QueuedAreMutations DEF PageInv, Shapes, Stages, Mutation, Handles
  <2>3. run.phase \in {"committing", "tracking"} /\ run.handle # NoHandle
    BY <2>1, <2>2, RunFields, NoHandleIsHandle DEF PageInv, Stages
  <2>4. h \in Held /\ h.acc \notin Gone /\ (~told => h = run.handle) /\ k \in BOOLEAN
    BY <1>1
  <2>5. h.acc >= 1
    <3>1. run.handle.acc >= 1 /\ run.handle.job \in PageJobs
      BY <1>1, <2>3 DEF PageInv, HandlesAgree
    <3>2. record.job = run.handle.job => record.acc >= 1
      <4>1. NoHandle.job \notin PageJobs
        BY ActiveCompileConstants DEF NoHandle
      <4> QED BY <3>1, <4>1 DEF PageInv, HandlesAgree
    <3> QED BY <3>1, <3>2
  <2> HIDE DEF h, k
  <2>6. h \in Handles
    BY <2>4, HeldAreHandles DEF PageInv
  <2>7. run' \in RunRecords /\ run'.handle = h /\ run'.phase = "tracking"
    BY <1>1, <2>1, <2>4, <2>6 DEF RunRecords
  <2> QED BY <1>2, <1>3, <1>1, <1>5, <2>3, <2>4, <2>5, <2>7
<1> QED BY <1>6, <1>7

LEMMA OvertakenKeeps ==
  ASSUME PageInv, Overtaken
  PROVE  PageInv'
<1>1. /\ mutations # <<>> /\ Dequeue
      /\ UNCHANGED <<durable, session, memory, gen, lastEpoch, accepted, epochs, gone, late,
                     revived>>
      /\ Gone' = Gone
  BY DEF Overtaken, storageVars, endedVars, Gone
<1>2. /\ session \in Held /\ memory \in Held /\ got \in Held
      /\ {session.acc, memory.acc, run.handle.acc, durable.acc} \cap Gone = {}
      /\ gone \cup revived \subseteq 1..accepted
  BY DEF Held, PageInv, StaysGone, Shapes, PageShape
<1>3. CASE Turn.what = "put"
  <2>1. Resolved(FALSE, FALSE, memory)
    BY <1>3 DEF Overtaken
  <2>2. memory.acc \notin Gone
    BY <1>2
  <2> QED BY <1>1, <1>2, <2>1, <2>2, ResolvedKeeps, DequeueStepKeeps
<1>4. CASE Turn.what # "put"
  <2>1. UNCHANGED <<run, page, getter, got>>
    BY <1>4 DEF Overtaken, loadVars
  <2>2. /\ run \in RunRecords /\ run.handle \in Held
        /\ page \in {"closed", "loading", "restoring", "ready"}
        /\ getter \in {"no", "asked", "read", "failed", "migrating", "durable", "not"}
        /\ page # "ready" \/ gen = 0 => got.acc \notin Gone
    BY RunFields DEF PageInv, Shapes, PageShape, StaysGone
  <2> QED BY <1>1, <1>2, <2>1, <2>2, DequeueStepKeeps
<1> QED BY <1>3, <1>4

LEMMA PutKeeps ==
  ASSUME PageInv, PutAnswered \/ PutFallsBack
  PROVE  PageInv'
<1>1. /\ mutations # <<>> /\ Dequeue /\ Latest /\ Turn.what = "put"
      /\ UNCHANGED <<durable, gen, lastEpoch, accepted, epochs, gone, late, revived>>
      /\ Gone' = Gone
  BY DEF PutAnswered, PutFallsBack, Answered, endedVars, Gone
<1>2. /\ Turn \in Queued /\ Turn.handle \in Held /\ Turn.handle.acc \notin Gone
  BY <1>1, TurnIsQueued DEF PageInv, Shapes, Held, StaysGone
<1>3. /\ {session, memory, reply.winner, NoHandle} \subseteq Held
      /\ {session.acc, memory.acc, reply.winner.acc, NoHandle.acc, run.handle.acc,
          durable.acc} \cap Gone = {}
      /\ gone \cup revived \subseteq 1..accepted
  BY NoHandleIsHandle DEF Held, PageInv, StaysGone, Shapes, PageShape, Gone
<1>4. PICK stored \in BOOLEAN, record \in {reply.winner, Turn.handle} :
        Resolved(stored, TRUE, record)
  BY DEF PutAnswered, PutFallsBack
<1>5. session' \in {session, NoHandle, Turn.handle} /\ memory' \in {memory, reply.winner}
  BY DEF PutAnswered, PutFallsBack, SessionAfter
<1>6. record \in Held /\ record.acc \notin Gone
  BY <1>2, <1>3
<1>7. /\ session' \in Held /\ session'.acc \notin Gone
      /\ memory' \in Held /\ memory'.acc \notin Gone /\ durable.acc \notin Gone
  BY <1>2, <1>3, <1>5
<1>8. /\ page' \in {"closed", "loading", "restoring", "ready"}
      /\ page = "ready" => page' = "ready"
      /\ getter' \in {"no", "asked", "read", "failed", "migrating", "durable", "not"}
      /\ got' \in Held
      /\ page' # "ready" \/ gen = 0 => got'.acc \notin Gone
      /\ run' \in RunRecords /\ run'.handle \in Held /\ run'.handle.acc \notin Gone
      /\ \/ run' = run
         \/ /\ {run.phase, run'.phase} \subseteq {"committing", "tracking"}
            /\ run'.handle.acc >= 1
  BY <1>1, <1>4, <1>6, ResolvedKeeps
<1> QED BY <1>1, <1>3, <1>7, <1>8, DequeueStepKeeps

LEMMA DeleteAnsweredKeeps ==
  ASSUME PageInv, DeleteAnswered
  PROVE  PageInv'
<1>1. /\ mutations # <<>> /\ Dequeue /\ Latest /\ Turn.what = "delete"
      /\ UNCHANGED <<durable, page, getter, got, memory, gen, lastEpoch, run, accepted, epochs,
                     late>>
      /\ session' = SessionWithout(Turn.handle)
      /\ \/ /\ reply.is = "deleted" /\ gone' = gone \cup {Turn.handle.acc}
            /\ revived' = revived \ {Turn.handle.acc}
         \/ UNCHANGED <<gone, revived>>
  BY DEF DeleteAnswered, Answered, loadVars
<1>2. /\ Turn \in Queued /\ Turn.handle \in Held /\ Turn.token = gen /\ Turn.token \in 1..gen
      /\ Turn.handle \in Handles
  BY <1>1, TurnIsQueued, QueuedAreMutations
     DEF PageInv, Shapes, Held, Latest, Mutation
<1>3. /\ {session, memory, got, NoHandle} \subseteq Held
      /\ {session.acc, memory.acc, run.handle.acc, durable.acc, NoHandle.acc} \cap Gone = {}
      /\ gone \cup revived \subseteq 1..accepted /\ gen \in Nat /\ accepted \in Nat
      /\ run \in RunRecords /\ run.handle \in Held
      /\ getter \in {"no", "asked", "read", "failed", "migrating", "durable", "not"}
  BY NoHandleIsHandle, RunFields DEF Held, PageInv, StaysGone, Shapes, PageShape, Gone
<1>4. Turn.handle.acc \in 1..accepted /\ page = "ready" /\ gen # 0
  <2>1. Turn.handle.acc \in Nat
    BY <1>2 DEF Handles
  <2> QED BY <1>1, <1>2, <1>3, <2>1 DEF PageInv, Stages, HandlesAgree
<1>5. /\ memory.acc # Turn.handle.acc /\ run.handle.acc # Turn.handle.acc
      /\ reply.is = "deleted" => durable.acc # Turn.handle.acc
  BY <1>1, <1>2 DEF PageInv, Deleting
<1>6. /\ session' \in {session, NoHandle}
      /\ session'.acc # Turn.handle.acc
  BY <1>1, <1>2, <1>3, <1>4, SameIsSame, NoHandleIsHandle DEF PageInv, SessionWithout
<1>7. /\ gone' \cup revived' \subseteq 1..accepted
      /\ Gone' \subseteq Gone \cup {Turn.handle.acc}
      /\ reply.is = "deleted" \/ Gone' = Gone
  BY <1>1, <1>3, <1>4 DEF Gone
<1>8. /\ session'.acc \notin Gone' /\ memory.acc \notin Gone' /\ run.handle.acc \notin Gone'
      /\ durable.acc \notin Gone'
  BY <1>3, <1>5, <1>6, <1>7
<1>9. session' \in Held /\ page = "ready" /\ gen # 0
  BY <1>3, <1>4, <1>6
<1> QED BY <1>1, <1>3, <1>7, <1>8, <1>9, DequeueStepKeeps

-----------------------------------------------------------------------------
(* The theorems. *)

LEMMA PageStarts == PageInit => PageInv
<1> SUFFICES ASSUME PageInit PROVE PageInv
  OBVIOUS
<1>1. QueueShape /\ Queued = {}
  BY EmptyQueue DEF PageInit
<1>2. /\ NoRun.handle = NoHandle /\ NoRun.phase = "none" /\ NoAnswer.winner = NoHandle
      /\ NoAnswer.is = "none"
      /\ NoRun \in RunRecords
      /\ NoAnswer \in [is : {"none", "kept", "written", "deleted", "error"}, winner : Handles]
  BY NoHandleIsHandle, NoRunIsRecord DEF NoAnswer
<1>3. PageShape
  BY <1>2, NoHandleIsHandle, ActiveCompileConstants DEF PageInit, PageShape
<1>4. HandlesAgree
  <2>1. Held = {NoHandle}
    BY <1>1, <1>2 DEF PageInit, Held
  <2> QED BY <2>1, NoHandleIsHandle DEF PageInit, HandlesAgree
<1>5. Stages /\ StaysGone /\ Deleting
  BY <1>1, <1>2 DEF PageInit, Stages, StaysGone, Deleting, Gone
<1> QED BY <1>1, <1>3, <1>4, <1>5 DEF PageInv, Shapes

LEMMA PageKept == PageInv /\ [PageNext]_pageVars => PageInv'
<1> SUFFICES ASSUME PageInv, [PageNext]_pageVars PROVE PageInv'
  OBVIOUS
<1>1. CASE Visit \/ Reload
  <2>1. PICK n \in {reloads, reloads + 1} : Open(n)
    BY <1>1 DEF Visit, Reload
  <2> QED BY <2>1, OpenKeeps
<1>2. CASE LoadReads \/ LoadTimesOut \/ LoadSuperseded
  BY <1>2, LoadKeeps
<1>3. CASE LoadSelects
  BY <1>3, LoadSelectsHere, LoadMigrates
<1>4. CASE Restore \/ NothingToRestore \/ Compile \/ NotAccepted \/ HandleAnswered
  BY <1>4, CompileKeeps
<1>5. CASE FinishCompile \/ RestoreRefused
  BY <1>5, DeleteKeeps
<1>6. CASE Commit \/ HandleExpired \/ ExpiredLate
  BY <1>6, CommitKeeps, HandleExpiredKeeps, ExpiredLateKeeps
<1>7. CASE PutTransaction \/ DeleteTransaction \/ TransactionFails
  BY <1>7, TransactionKeeps
<1>8. CASE Overtaken \/ PutAnswered \/ PutFallsBack \/ DeleteAnswered
  BY <1>8, OvertakenKeeps, PutKeeps, DeleteAnsweredKeeps
<1>9. CASE UNCHANGED pageVars
  <2>1. /\ UNCHANGED <<durable, session, memory, got, run, reply, page, getter, gen, lastEpoch,
                       epochs, accepted, gone, late, revived, mutations>>
    BY <1>9 DEF pageVars, storageVars, loadVars, tailVars, endedVars
  <2>2. Queued' = Queued /\ Turn' = Turn /\ QueueShape'
    BY <2>1 DEF Queued, Turn, QueueShape, PageInv, Shapes
  <2>3. Held' = Held /\ Gone' = Gone
    BY <2>1, <2>2 DEF Held, Gone
  <2> QED BY <2>1, <2>2, <2>3 DEF PageInv, Shapes, PageShape, HandlesAgree, Stages, StaysGone,
                                  Deleting
<1> QED BY <1>1, <1>2, <1>3, <1>4, <1>5, <1>6, <1>7, <1>8, <1>9 DEF PageNext

THEOREM PageInvariant == PageSpec => []PageInv
BY PageStarts, PageKept, PTL DEF PageSpec

LEMMA PageInvTypes == PageInv => PageTypeOK
<1> SUFFICES ASSUME PageInv PROVE PageTypeOK
  OBVIOUS
<1>1. \A k \in DOMAIN mutations :
        mutations[k].handle \in Handles /\ mutations[k].token \in 1..gen
  <2>1. mutations \in Seq(Mutation) /\ \A k \in DOMAIN mutations : mutations[k].token \in 1..gen
    BY DEF PageInv, Shapes, QueueShape
  <2>2. \A k \in DOMAIN mutations : mutations[k] \in Mutation
    BY <2>1
  <2> QED BY <2>1, <2>2 DEF Mutation
<1>2. gone \cup revived \subseteq 1..MaxAccepted
  BY ActiveCompileConstants DEF PageInv, Shapes, PageShape
<1>3. /\ run.handle \in Handles /\ run.cancel \in {"no", "may", "answered"}
      /\ run.phase \in {"none", "submitting", "committing", "tracking"}
  BY DEF PageInv, Shapes, PageShape, RunRecords
<1> QED BY <1>1, <1>2, <1>3 DEF PageInv, Shapes, PageShape, PageTypeOK

\* The variables of a page and of its stores keep to their ranges, whatever
\* load(), persist() and deleteJob() of active-compile-storage.js do in between.
THEOREM PageTypes == PageSpec => []PageTypeOK
BY PageInvTypes, PageInvariant, PTL

\* A handle whose delete was answered comes back to no store: what was queued
\* before it, what is loaded late and what a reload brings holds it no more.
THEOREM DeletedNeverReturns == PageSpec => []DeletedStaysDeleted
<1>1. PageInv => DeletedStaysDeleted
  BY DEF PageInv, StaysGone, Gone, DeletedStaysDeleted
<1> QED BY <1>1, PageInvariant, PTL

-----------------------------------------------------------------------------
(* What a reload finds.  Only the latest mutation writes, so what counts   *)
(* is its handle, what the stores hold, and what the page has in hand:     *)
(* among these the epochs are in the order of the acceptances, but for     *)
(* those that a late answer has stored again.                              *)

LatestPuts == {m \in Queued : m.token = gen /\ m.what = "put"}

Live == {NoHandle, durable, session, run.handle, IF page = "restoring" THEN got ELSE NoHandle}
          \cup {m.handle : m \in LatestPuts}

EpochOrder ==
  /\ \A a \in Live : a.epoch <= epochs
  /\ \A a, b \in Live :
       a.acc \notin revived /\ b.acc \notin revived /\ a.acc < b.acc => a.epoch < b.epoch
  /\ lastEpoch <= epochs

\* load() has read what is stored, as long as nothing was queued meanwhile; it
\* queues at most one put, the first one.
Loading ==
  /\ page = "loading" =>
       /\ gen = 0 \/ (gen = 1 /\ getter = "migrating")
       /\ \A m \in Queued : m.for = "load"
  /\ gen = 0 /\ getter \in {"asked", "read", "failed"} =>
       memory = NoHandle /\ got = IF getter = "read" THEN durable ELSE NoHandle
  /\ \A m \in Queued : m.for = "load" =>
       m.what = "put" /\ m.token = 1 /\ getter = "migrating"

\* The handle that a page is about to restore.
InHand ==
  page = "restoring" =>
    /\ mutations = <<>> /\ getter \in {"durable", "not"}
    /\ session.epoch <= got.epoch
    /\ getter = "durable" /\ got # NoHandle =>
         got \in {durable, session} /\ durable.epoch <= got.epoch

\* load() puts the newest handle there is.
Migrating ==
  \A m \in LatestPuts : m.for = "load" =>
    session.epoch <= m.handle.epoch /\ durable.epoch <= m.handle.epoch

\* A run has been loaded or queued, and the latest mutation is a put for it, or
\* for one that is over.  A run that was never told what is stored of it is the
\* one accepted last, and not known to be stored.
Tracked ==
  run.phase \in {"committing", "tracking"} =>
    /\ gen # 0 \/ getter \in {"durable", "not"}
    /\ \A m \in Queued : m.token = gen => m.what = "put" /\ m.for = "run"
    /\ ~run.known => ~run.stored /\ run.handle.acc = accepted

\* The handle of a run: no store has a newer one, except a durable store that
\* was not read, and the latest mutation writes it; as long as no other that is
\* over was stored again.
Foremost ==
  run.phase \in {"committing", "tracking"} /\ revived = {} =>
    /\ \A m \in Queued : m.token = gen => m.handle = run.handle
    /\ session.epoch <= run.handle.epoch
    /\ durable.epoch <= run.handle.epoch \/ getter = "not"
    /\ run.stored /\ run.phase = "tracking" =>
         run.handle \in {durable, session} \/ durable.epoch > run.handle.epoch

\* What the latest put was answered is still true when the answer is read.
Answers ==
  /\ reply.is = "none" => reply = NoAnswer
  /\ mutations # <<>> /\ Latest =>
       /\ reply.is = "written" => durable = Turn.handle /\ reply.winner = Turn.handle
       /\ reply.is = "kept" => Fresher(durable, Turn.handle) /\ reply.winner = durable
       /\ reply.is = "deleted" => Turn.what = "delete"

StoreInv ==
  EpochOrder /\ Loading /\ InHand /\ Migrating /\ Tracked /\ Foremost /\ Answers

LEMMA LiveAreHandles ==
  ASSUME PageInv, NEW a \in Live
  PROVE  a \in Held /\ a \in Handles /\ a.epoch \in Nat /\ a.acc \in Nat
<1>1. a \in Held
  BY DEF Live, LatestPuts, Held
<1>2. a \in Handles
  BY <1>1, HeldAreHandles DEF PageInv
<1> QED BY <1>1, <1>2 DEF Handles

LEMMA OneHandlePerEpoch ==
  ASSUME PageInv, EpochOrder, revived = {}, NEW a \in Live, NEW b \in Live,
         a.epoch = b.epoch
  PROVE  a = b
<1>1. a.acc \in Nat /\ b.acc \in Nat /\ a \in Held /\ b \in Held /\ a.epoch \in Nat
  BY LiveAreHandles
<1>2. a.acc = b.acc
  BY <1>1 DEF EpochOrder
<1>3. a.job = b.job
  BY <1>1, <1>2 DEF PageInv, HandlesAgree
<1>4. a \in Handles /\ b \in Handles
  BY LiveAreHandles
<1> QED BY <1>2, <1>3, <1>4 DEF Handles

LEMMA StoreFacts ==
  ASSUME PageInv
  PROVE  /\ {NoHandle, durable, session, run.handle, got, memory, reply.winner} \subseteq Handles
         /\ {durable.epoch, session.epoch, run.handle.epoch, got.epoch, NoHandle.epoch}
              \subseteq Nat
         /\ epochs \in Nat /\ lastEpoch \in Nat /\ gen \in Nat
         /\ {NoHandle, durable, session, run.handle} \subseteq Live
<1>1. {NoHandle, durable, session, run.handle, got, memory, reply.winner} \subseteq Handles
  BY NoHandleIsHandle, RunFields DEF PageInv, Shapes, PageShape
<1> QED BY <1>1 DEF PageInv, Shapes, PageShape, Handles, Live

LEMMA PutFacts ==
  ASSUME PageInv, NEW m \in Queued
  PROVE  /\ m \in Mutation /\ m.handle \in Handles /\ m.handle.epoch \in Nat
         /\ m.token \in 1..gen /\ m.handle.acc >= 1 /\ m.handle.acc \in Nat
<1>1. m \in Mutation /\ m.token \in 1..gen
  BY QueuedAreMutations DEF PageInv, Shapes
<1> QED BY <1>1 DEF Mutation, Handles, PageInv, Stages

LEMMA OrderKept ==
  ASSUME EpochOrder, Live' \subseteq Live, epochs' = epochs, lastEpoch' <= epochs,
         \A a \in Live' : a.acc \in revived => a.acc \in revived'
  PROVE  EpochOrder'
BY DEF EpochOrder

LEMMA QueueSame ==
  ASSUME PageInv, UNCHANGED <<mutations, gen>>
  PROVE  Queued' = Queued /\ LatestPuts' = LatestPuts /\ Turn' = Turn /\ (Latest' <=> Latest)
BY DEF Queued, LatestPuts, Turn, Latest

LEMMA NewestIsLargest ==
  ASSUME NEW a \in Handles, NEW b \in Handles
  PROVE  /\ Newest(a, b) \in {a, b} /\ Newest(a, b).epoch \in Nat
         /\ a.epoch <= Newest(a, b).epoch /\ b.epoch <= Newest(a, b).epoch
<1>1. a.epoch \in Nat /\ b.epoch \in Nat
  BY DEF Handles
<1> QED BY <1>1 DEF Newest, Fresher

\* What the latest mutation finds in the stores is what a reload finds.
LEMMA FoundIsNewest ==
  ASSUME PageInv, StoreInv
  PROVE  ReloadFindsRun
<1> DEFINE found == Newest(durable, session)
           h == run.handle
<1> SUFFICES ASSUME run.phase = "tracking", run.stored, revived = {}
             PROVE  Same(found, h) \/ (getter = "not" /\ found.acc > h.acc)
  BY DEF ReloadFindsRun
<1>1. /\ durable \in Live /\ session \in Live /\ h \in Live
      /\ durable.epoch \in Nat /\ session.epoch \in Nat /\ h.epoch \in Nat
      /\ h \in Handles
  BY StoreFacts
<1>2. /\ session.epoch <= h.epoch /\ (durable.epoch <= h.epoch \/ getter = "not")
      /\ h \in {durable, session} \/ durable.epoch > h.epoch
  BY DEF StoreInv, Foremost
<1>3. CASE durable.epoch > h.epoch
  <2>1. found = durable /\ getter = "not"
    BY <1>1, <1>2, <1>3 DEF Newest, Fresher
  <2>2. durable.acc \in Nat /\ h.acc \in Nat /\ durable \in Held /\ h \in Held
    BY <1>1, LiveAreHandles
  <2>3. durable.acc = h.acc => Same(found, h)
    BY <2>1, <2>2, SameIsSame DEF PageInv
  <2>4. ~(durable.acc < h.acc)
    BY <1>1, <1>3 DEF StoreInv, EpochOrder
  <2> QED BY <2>1, <2>2, <2>3, <2>4
<1>4. CASE ~(durable.epoch > h.epoch)
  <2>1. found.epoch = h.epoch /\ found \in Live
    BY <1>1, <1>2, <1>4 DEF Newest, Fresher
  <2>2. found = h
    BY <1>1, <2>1, OneHandlePerEpoch DEF StoreInv
  <2> QED BY <2>2 DEF Same
<1> QED BY <1>3, <1>4

-----------------------------------------------------------------------------
(* Steps that leave the queue alone. *)

LEMMA OpenStores ==
  ASSUME PageInv, StoreInv, NEW n, Open(n)
  PROVE  StoreInv'
<1>1. /\ page' = "loading" /\ getter' = "asked" /\ got' = NoHandle /\ memory' = NoHandle
      /\ gen' = 0 /\ lastEpoch' = 0 /\ mutations' = <<>> /\ reply' = NoAnswer /\ run' = NoRun
      /\ UNCHANGED <<durable, session, epochs, revived>>
  BY DEF Open, storageVars
<1>2. NoRun.phase = "none" /\ NoRun.handle = NoHandle
  BY DEF NoRun
<1>3. Queued' = {} /\ LatestPuts' = {}
  BY <1>1 DEF Queued, LatestPuts
<1>4. EpochOrder'
  <2>1. Live' \subseteq Live
    BY <1>1, <1>2, <1>3 DEF Live
  <2> QED BY <1>1, <2>1, OrderKept, StoreFacts DEF StoreInv
<1>5. Loading' /\ InHand' /\ Migrating' /\ Tracked' /\ Foremost' /\ Answers'
  BY <1>1, <1>2, <1>3 DEF Loading, InHand, Migrating, Tracked, Foremost, Answers
<1> QED BY <1>4, <1>5 DEF StoreInv

LEMMA SameStores ==
  ASSUME PageInv, StoreInv,
         UNCHANGED <<durable, session, memory, got, reply, page, getter, gen, lastEpoch,
                     epochs, accepted, mutations, revived>>,
         run'.phase = run.phase, run'.handle = run.handle, run'.stored = run.stored,
         run'.known = run.known
  PROVE  StoreInv'
<1>1. Queued' = Queued /\ LatestPuts' = LatestPuts /\ Turn' = Turn /\ (Latest' <=> Latest)
  BY QueueSame
<1>2. Live' = Live
  BY <1>1 DEF Live
<1> QED BY <1>1, <1>2 DEF StoreInv, EpochOrder, Loading, InHand, Migrating, Tracked, Foremost,
                          Answers, Fresher

LEMMA LoadStores ==
  ASSUME PageInv, StoreInv, LoadReads \/ LoadTimesOut \/ LoadSuperseded
  PROVE  StoreInv'
<1>1. /\ UNCHANGED <<durable, session, mutations, gen, reply, epochs, memory, run, lastEpoch,
                     accepted, revived>>
      /\ gen \in Nat /\ page \in {"closed", "loading", "restoring", "ready"}
      /\ run.phase \in {"none", "submitting", "committing", "tracking"}
  BY RunFields DEF LoadReads, LoadTimesOut, LoadSuperseded, tailVars, storageVars,
                   endedVars, PageInv, Shapes, PageShape
<1>2. Queued' = Queued /\ LatestPuts' = LatestPuts /\ Turn' = Turn /\ (Latest' <=> Latest)
  BY <1>1, QueueSame
<1>3. page' # "restoring" \/ (page' = page /\ page = "restoring" /\ UNCHANGED <<getter, got>>)
  BY <1>1 DEF LoadReads, LoadTimesOut, LoadSuperseded, Loaded, OvertakenLoad, StoreInv, Loading,
         InHand
<1>4. EpochOrder'
  <2>1. Live' \subseteq Live
    BY <1>1, <1>2, <1>3 DEF Live
  <2> QED BY <1>1, <2>1, OrderKept DEF StoreInv, EpochOrder
<1>5. Loading'
  <2>1. CASE LoadReads
    BY <1>1, <1>2, <2>1 DEF LoadReads, StoreInv, Loading
  <2>2. CASE LoadTimesOut
    BY <1>1, <1>2, <2>2 DEF LoadTimesOut, StoreInv, Loading
  <2>3. CASE LoadSuperseded
    BY <1>1, <1>2, <2>3 DEF LoadSuperseded, Loaded, OvertakenLoad, StoreInv, Loading
  <2> QED BY <2>1, <2>2, <2>3
<1>6. InHand' /\ Migrating' /\ Answers'
  BY <1>1, <1>2, <1>3 DEF StoreInv, InHand, Migrating, Answers, Fresher
<1>7. Tracked' /\ Foremost'
  <2>1. run.phase \in {"committing", "tracking"} => page = "ready"
    BY <1>1 DEF PageInv, Stages
  <2>2. /\ getter = "not" => getter' = "not"
        /\ getter = "durable" => getter' \in {"durable", "not"}
    BY DEF LoadReads, LoadTimesOut, LoadSuperseded, Loaded
  <2> QED BY <1>1, <1>2, <2>1, <2>2 DEF StoreInv, Tracked, Foremost
<1> QED BY <1>4, <1>5, <1>6, <1>7 DEF StoreInv

LEMMA SelectedIsNewest ==
  ASSUME PageInv, StoreInv, getter \in {"read", "failed"}, ~OvertakenLoad
  PROVE  /\ Selected \in {NoHandle, durable, session} /\ Selected \in Live
         /\ session.epoch <= Selected.epoch /\ Selected.epoch \in Nat
         /\ getter = "read" => durable.epoch <= Selected.epoch
         /\ gen = 0 /\ mutations = <<>> /\ Queued = {} /\ LatestPuts = {}
         /\ run.phase \in {"none", "submitting"} /\ page # "restoring"
<1>1. /\ gen = 0 /\ memory = NoHandle /\ got = IF getter = "read" THEN durable ELSE NoHandle
      /\ NoHandle \in Handles /\ durable \in Handles /\ session \in Handles
      /\ {NoHandle, durable, session} \subseteq Live
  BY StoreFacts DEF OvertakenLoad, StoreInv, Loading
<1>2. /\ Newest(memory, got) \in {memory, got} /\ memory.epoch <= Newest(memory, got).epoch
      /\ got.epoch <= Newest(memory, got).epoch
  BY <1>1, NewestIsLargest
<1>3. /\ Selected \in {Newest(memory, got), session} /\ session.epoch <= Selected.epoch
      /\ Newest(memory, got).epoch <= Selected.epoch /\ Selected.epoch \in Nat
  BY <1>1, <1>2, NewestIsLargest DEF Selected
<1>4. mutations = <<>> /\ Queued = {} /\ LatestPuts = {}
  <2>1. /\ \A k \in DOMAIN mutations : mutations[k].token \in 1..0
        /\ mutations \in Seq(Mutation)
    BY <1>1 DEF PageInv, Shapes, QueueShape
  <2>2. mutations = <<>>
    <3>1. Len(mutations) \in Nat /\ DOMAIN mutations = 1..Len(mutations)
      BY <2>1
    <3>2. 1 \notin DOMAIN mutations
      BY <2>1
    <3>3. Len(mutations) = 0
      BY <3>1, <3>2
    <3> QED BY <2>1, <3>3
  <2> QED BY <2>2 DEF Queued, LatestPuts
<1>5. run.phase \in {"none", "submitting"} /\ page # "restoring"
  BY <1>1, RunFields DEF StoreInv, Tracked, InHand
<1>6. durable.epoch \in Nat /\ got.epoch \in Nat /\ Newest(memory, got).epoch \in Nat
  BY <1>1, <1>2, StoreFacts
<1> QED BY <1>1, <1>2, <1>3, <1>4, <1>5, <1>6

LEMMA SelectsStores ==
  ASSUME PageInv, StoreInv, LoadSelects
  PROVE  StoreInv'
<1>1. /\ getter \in {"read", "failed"} /\ ~OvertakenLoad
      /\ UNCHANGED <<durable, reply, run, epochs, revived>>
  BY DEF LoadSelects, endedVars
<1>2. /\ Selected \in {NoHandle, durable, session} /\ Selected \in Live
      /\ session.epoch <= Selected.epoch /\ Selected.epoch \in Nat
      /\ getter = "read" => durable.epoch <= Selected.epoch
      /\ gen = 0 /\ mutations = <<>> /\ Queued = {} /\ LatestPuts = {}
      /\ run.phase \in {"none", "submitting"} /\ page # "restoring"
  BY <1>1, SelectedIsNewest
<1>3. /\ Selected.epoch <= epochs /\ lastEpoch <= epochs
      /\ Newest([epoch |-> lastEpoch], Selected).epoch \in {lastEpoch, Selected.epoch}
      /\ NoHandle \in Live /\ durable.epoch \in Nat /\ session.epoch \in Nat
      /\ NoHandle.epoch = 0 /\ NoHandle.acc = 0
  BY <1>2, StoreFacts, NoHandleIsHandle DEF StoreInv, EpochOrder, Newest
<1>4. CASE Selected = NoHandle \/ getter = "failed" \/ Selected = got
  <2>1. /\ Loaded(Selected, IF getter = "failed" THEN "not" ELSE "durable")
        /\ memory' = Selected
        /\ lastEpoch' = Newest([epoch |-> lastEpoch], Selected).epoch
        /\ session' = IF Selected = NoHandle \/ getter = "failed" THEN session
                                                      ELSE SessionAfter(Selected)
        /\ UNCHANGED <<gen, mutations>>
    BY <1>4 DEF LoadSelects
  <2>2. Queued' = {} /\ LatestPuts' = {}
    BY <1>2, <2>1, QueueSame
  <2>3. /\ session' \in {session, NoHandle} /\ session'.epoch <= Selected.epoch
        /\ getter' = IF getter = "failed" THEN "not" ELSE "durable"
        /\ page' # "loading"
        /\ page' = "restoring" => got' = Selected
    BY <1>2, <1>3, <2>1 DEF SessionAfter, Fresher, Loaded
  <2>4. EpochOrder'
    <3>1. Live' \subseteq Live
      BY <1>1, <1>2, <1>3, <2>2, <2>3 DEF Live
    <3> QED BY <1>1, <1>3, <2>1, <3>1, OrderKept DEF StoreInv
  <2>5. Loading' /\ Migrating' /\ Tracked' /\ Foremost' /\ Answers'
    BY <1>1, <1>2, <2>1, <2>2, <2>3 DEF StoreInv, Loading, Migrating, Tracked, Foremost, Answers
  <2>6. InHand'
    <3> SUFFICES ASSUME page' = "restoring"
                 PROVE  /\ mutations' = <<>> /\ getter' \in {"durable", "not"}
                        /\ session'.epoch <= got'.epoch
                        /\ getter' = "durable" /\ got' # NoHandle =>
                             got' \in {durable', session'} /\ durable'.epoch <= got'.epoch
      BY DEF InHand
    <3>1. getter' = "durable" /\ Selected # NoHandle => Selected = durable
      BY <1>1, <1>4, <2>3 DEF StoreInv, Loading, OvertakenLoad
    <3> QED BY <1>1, <1>2, <2>1, <2>3, <3>1
  <2> QED BY <2>4, <2>5, <2>6 DEF StoreInv
<1>5. CASE ~(Selected = NoHandle \/ getter = "failed" \/ Selected = got)
  <2>1. /\ Persist(Selected, "load") /\ getter' = "migrating" /\ got' = NoHandle
        /\ UNCHANGED <<page, session>> /\ getter = "read"
    BY <1>1, <1>5 DEF LoadSelects
  <2> DEFINE m == [what |-> "put", for |-> "load", handle |-> Selected, token |-> 1]
  <2>2. gen' = 1 /\ Queued' = {m} /\ memory' = Selected
        /\ lastEpoch' = Newest([epoch |-> lastEpoch], Selected).epoch
    <3>1. Selected \in Handles /\ gen \in Nat /\ QueueShape
      BY SelectedIsHeld DEF PageInv, Shapes, PageShape
    <3> QED BY <1>2, <2>1, <3>1, EnqueueKeeps DEF Persist
  <2>3. LatestPuts' = {m}
    BY <2>2 DEF LatestPuts
  <2>4. EpochOrder'
    <3>1. Live' \subseteq Live
      BY <1>1, <1>2, <1>3, <2>1, <2>3 DEF Live
    <3> QED BY <1>1, <1>3, <2>2, <3>1, OrderKept DEF StoreInv
  <2>5. Loading' /\ InHand' /\ Migrating' /\ Tracked' /\ Foremost'
    BY <1>1, <1>2, <2>1, <2>2, <2>3 DEF Loading, InHand, Migrating, Tracked, Foremost
  <2>6. Answers'
    BY <1>1, <1>2 DEF StoreInv, Answers, PageInv, Stages
  <2> QED BY <2>4, <2>5, <2>6 DEF StoreInv
<1> QED BY <1>4, <1>5

-----------------------------------------------------------------------------
(* Restoring and compiling. *)

LEMMA RestoreStores ==
  ASSUME PageInv, StoreInv, Restore \/ NothingToRestore
  PROVE  StoreInv'
<1>1. /\ UNCHANGED <<durable, session, mutations, gen, reply, epochs, memory, lastEpoch, getter,
                     revived>>
      /\ page = "restoring" /\ page' = "ready" /\ got' = NoHandle
      /\ mutations = <<>> /\ getter \in {"durable", "not"} /\ session.epoch <= got.epoch
      /\ run.phase = "none"
  BY DEF Restore, NothingToRestore, tailVars, storageVars, endedVars, StoreInv, InHand, PageInv, Stages,
         Shapes, PageShape
<1>2. Queued = {} /\ Queued' = {} /\ LatestPuts = {} /\ LatestPuts' = {}
  BY <1>1 DEF Queued, LatestPuts
<1>3. \/ run' = run
      \/ /\ got # NoHandle /\ run'.phase = "tracking" /\ run'.handle = got
         /\ run'.stored = (getter = "durable") /\ run'.known
  <2>1. CASE Restore
    <3>1. PICK c \in {"no", "may"} :
            run' = [phase |-> "tracking", handle |-> got, known |-> TRUE,
                    stored |-> getter = "durable", cancel |-> c]
      BY <2>1 DEF Restore
    <3> QED BY <2>1, <3>1 DEF Restore
  <2>2. CASE NothingToRestore
    BY <2>2 DEF NothingToRestore, tailVars
  <2> QED BY <1>1, <2>1, <2>2
<1>4. EpochOrder'
  <2>1. Live' \subseteq Live
    BY <1>1, <1>2, <1>3 DEF Live
  <2> QED BY <1>1, <2>1, OrderKept DEF StoreInv, EpochOrder
<1>5. Loading' /\ InHand' /\ Migrating' /\ Answers'
  BY <1>1, <1>2 DEF StoreInv, Loading, InHand, Migrating, Answers
<1>6. Tracked' /\ Foremost'
  BY <1>1, <1>2, <1>3 DEF StoreInv, InHand, Tracked, Foremost
<1> QED BY <1>4, <1>5, <1>6 DEF StoreInv

LEMMA StartStores ==
  ASSUME PageInv, StoreInv, Compile \/ NotAccepted
  PROVE  StoreInv'
<1>1. /\ UNCHANGED <<durable, session, mutations, gen, reply, epochs, memory, lastEpoch, getter,
                     revived>>
      /\ page' = "ready" /\ page # "loading"
      /\ run.phase \in {"none", "submitting"} /\ run'.phase \in {"none", "submitting"}
      /\ run'.handle = NoHandle
      /\ got' = got \/ page = "restoring"
  BY DEF Compile, NotAccepted, tailVars, storageVars, loadVars, endedVars, PageInv, Stages, NoRun
<1>2. Queued' = Queued /\ LatestPuts' = LatestPuts /\ Turn' = Turn /\ (Latest' <=> Latest)
  BY <1>1, QueueSame
<1>3. EpochOrder'
  <2>1. Live' \subseteq Live
    BY <1>1, <1>2 DEF Live
  <2> QED BY <1>1, <2>1, OrderKept DEF StoreInv, EpochOrder
<1>4. Loading' /\ InHand' /\ Migrating' /\ Tracked' /\ Foremost' /\ Answers'
  BY <1>1, <1>2 DEF StoreInv, Loading, InHand, Migrating, Tracked, Foremost, Answers, Fresher
<1> QED BY <1>3, <1>4 DEF StoreInv

\* What the put of a run does to the queue.
LEMMA RunPutQueued ==
  ASSUME PageInv, StoreInv, NEW handle \in Handles, Persist(handle, "run"),
         UNCHANGED <<durable, session, page, reply, getter, got>>, page = "ready",
         epochs' = Newest([epoch |-> epochs], handle).epoch
  PROVE  /\ gen' # 0 /\ Live' = {NoHandle, durable, session, run'.handle, handle}
         /\ \A q \in Queued' : q.token = gen' =>
              q.what = "put" /\ q.for = "run" /\ q.handle = handle
         /\ epochs \in Nat /\ epochs' \in Nat /\ epochs <= epochs' /\ lastEpoch' <= epochs'
         /\ handle.epoch \in Nat /\ handle.acc \in Nat /\ handle.epoch <= epochs'
         /\ Loading' /\ InHand' /\ Migrating' /\ Answers'
<1> DEFINE m == [what |-> "put", for |-> "run", handle |-> handle, token |-> gen + 1]
<1>1. /\ gen' = gen + 1 /\ Queued' = Queued \cup {m} /\ memory' = handle
      /\ mutations' = Append(mutations, m)
      /\ lastEpoch' = Newest([epoch |-> lastEpoch], handle).epoch
      /\ gen \in Nat /\ lastEpoch \in Nat /\ epochs \in Nat /\ handle.epoch \in Nat
      /\ handle.acc \in Nat /\ lastEpoch <= epochs
  <2>1. handle.epoch \in Nat /\ handle.acc \in Nat
    BY DEF Handles
  <2>2. gen \in Nat /\ lastEpoch \in Nat /\ epochs \in Nat /\ lastEpoch <= epochs /\ QueueShape
    BY StoreFacts DEF PageInv, Shapes, StoreInv, EpochOrder
  <2> QED BY <2>1, <2>2, EnqueueKeeps DEF Persist, Enqueue
<1>2. \A q \in Queued : q.token \in 1..gen
  BY PutFacts
<1>3. LatestPuts' = {m}
  BY <1>1, <1>2 DEF LatestPuts
<1>4. m.what = "put" /\ m.for = "run" /\ m.handle = handle /\ m.token = gen + 1
  OBVIOUS
<1>5. m \in Mutation
  BY <1>1 DEF Mutation
<1> HIDE DEF m
<1>6. Live' = {NoHandle, durable, session, run'.handle, handle}
  BY <1>3, <1>4 DEF Live
<1>7. /\ epochs' \in Nat /\ epochs <= epochs' /\ lastEpoch' <= epochs'
      /\ handle.epoch <= epochs'
  BY <1>1 DEF Newest, Fresher
<1>8. \A q \in Queued' : q.token = gen' => q = m
  BY <1>1, <1>2
<1>9. Loading'
  BY <1>1, <1>4 DEF StoreInv, Loading
<1>10. InHand' /\ Migrating'
  BY <1>3, <1>4 DEF InHand, Migrating
<1>11. Answers'
  <2> SUFFICES ASSUME Latest'
               PROVE  reply.is = "none"
    BY DEF StoreInv, Answers
  <2>1. CASE mutations = <<>>
    BY <2>1 DEF PageInv, Stages, Queued, Shapes, PageShape
  <2>2. CASE mutations # <<>>
    <3>1. Turn' = Turn /\ Turn.token \in 1..gen
      BY <1>1, <1>5, <2>2, HeadOfLonger, TurnIsQueued, PutFacts
         DEF Turn, PageInv, Shapes, QueueShape
    <3> QED BY <1>1, <3>1 DEF Latest
  <2> QED BY <2>1, <2>2
<1>12. gen' # 0
  BY <1>1
<1> QED BY <1>1, <1>4, <1>6, <1>7, <1>8, <1>9, <1>10, <1>11, <1>12

\* The put of a run: its epoch is the largest that is stored, or it was.
LEMMA RunPutStores ==
  ASSUME PageInv, StoreInv, NEW handle \in Handles, Persist(handle, "run"),
         UNCHANGED <<durable, session, page, reply, getter, got, revived>>, page = "ready",
         run'.phase \in {"committing", "tracking"}, run'.handle = handle,
         epochs' = Newest([epoch |-> epochs], handle).epoch,
         \/ /\ run.phase = run'.phase /\ handle = run.handle /\ run'.stored = run.stored
            /\ run.known /\ run'.known
         \/ /\ ~run'.stored /\ handle.acc = accepted'
            /\ \A a \in {NoHandle, durable, session} :
                 a.acc <= handle.acc /\ a.epoch < handle.epoch
  PROVE  StoreInv'
<1>1. /\ gen' # 0 /\ Live' = {NoHandle, durable, session, handle}
      /\ \A q \in Queued' : q.token = gen' =>
           q.what = "put" /\ q.for = "run" /\ q.handle = handle
      /\ epochs \in Nat /\ epochs' \in Nat /\ epochs <= epochs' /\ lastEpoch' <= epochs'
      /\ handle.epoch \in Nat /\ handle.acc \in Nat /\ handle.epoch <= epochs'
      /\ Loading' /\ InHand' /\ Migrating' /\ Answers'
  BY RunPutQueued
<1>2. /\ {NoHandle, durable, session} \subseteq Live
      /\ \A a \in {NoHandle, durable, session} : a.epoch \in Nat /\ a.acc \in Nat
  BY StoreFacts, LiveAreHandles
<1>3. \A a \in Live' : a.epoch <= epochs'
  <2>1. \A a \in {NoHandle, durable, session} : a.epoch <= epochs
    BY <1>2 DEF StoreInv, EpochOrder
  <2> QED BY <1>1, <1>2, <2>1
<1>4. EpochOrder'
  <2>1. CASE handle = run.handle /\ run.known
    <3>1. Live' \subseteq Live
      BY <1>1, <1>2, <2>1, StoreFacts
    <3> QED BY <1>1, <1>3, <3>1 DEF StoreInv, EpochOrder
  <2>2. CASE \A a \in {NoHandle, durable, session} :
               a.acc <= handle.acc /\ a.epoch < handle.epoch
    <3> SUFFICES ASSUME NEW a \in Live', NEW b \in Live', a.acc < b.acc,
                        a.acc \notin revived, b.acc \notin revived
                 PROVE  a.epoch < b.epoch
      BY <1>1, <1>3 DEF EpochOrder
    <3>1. CASE a # handle /\ b # handle
      BY <1>1, <1>2, <3>1 DEF StoreInv, EpochOrder
    <3>2. CASE b = handle
      BY <1>1, <2>2, <3>2
    <3>3. CASE a = handle
      BY <1>1, <1>2, <2>2, <3>3
    <3> QED BY <3>1, <3>2, <3>3
  <2> QED BY <2>1, <2>2
<1>5. Tracked'
  BY <1>1 DEF Tracked
<1>6. Foremost'
  BY <1>1, <1>2 DEF StoreInv, Foremost
<1> QED BY <1>1, <1>4, <1>5, <1>6 DEF StoreInv
\* now() is behind what this page has seen, or ahead of all there is.
LEMMA StampedAfterAll ==
  ASSUME PageInv, StoreInv, NEW time \in Now
  PROVE  /\ NextEpoch(time) \in Nat
         /\ \A a \in {NoHandle, durable, session} :
              a.acc \in Nat /\ a.acc <= accepted /\ a.epoch < NextEpoch(time)
<1>1. \A a \in {NoHandle, durable, session} :
        a.acc \in Nat /\ a.acc <= accepted /\ a.epoch \in Nat /\ a.epoch <= epochs
  <2>1. {NoHandle, durable, session} \subseteq Live
    BY StoreFacts
  <2> QED BY <2>1, LiveAreHandles DEF PageInv, HandlesAgree, StoreInv, EpochOrder
<1>2. epochs \in Nat /\ lastEpoch \in Nat /\ lastEpoch <= epochs
  BY StoreFacts DEF StoreInv, EpochOrder
<1>3. \A a \in {NoHandle, durable, session} : a.epoch < NextEpoch(time)
  <2>1. CASE time = epochs + 1
    BY <1>1, <1>2, <2>1 DEF NextEpoch
  <2>2. CASE Informed /\ time = 0
    BY <1>1, <1>2, <2>2, NoHandleIsHandle DEF NextEpoch, Informed
  <2> QED BY <2>1, <2>2 DEF Now
<1> QED BY <1>1, <1>3, EpochsGiven

LEMMA ExpiredStores ==
  ASSUME PageInv, StoreInv, HandleExpired
  PROVE  StoreInv'
<1>1. PICK time \in Now :
        LET handle == Again(run.handle, run.known, time)
        IN  /\ run' = [run EXCEPT !.cancel = "no", !.handle = handle]
            /\ epochs' = Newest([epoch |-> epochs], handle).epoch
            /\ Persist(handle, "run")
  BY DEF HandleExpired
<1> DEFINE handle == Again(run.handle, run.known, time)
<1>2. /\ run' = [run EXCEPT !.cancel = "no", !.handle = handle]
      /\ epochs' = Newest([epoch |-> epochs], handle).epoch
      /\ Persist(handle, "run")
  BY <1>1
<1>3. /\ run.phase \in {"committing", "tracking"}
      /\ UNCHANGED <<durable, session, page, reply, getter, got, accepted, revived>>
  BY DEF HandleExpired, Accepted, loadVars, storageVars, endedVars
<1>4. page = "ready" /\ run \in RunRecords /\ run.handle \in Handles
      /\ run.known \in BOOLEAN
  BY <1>3, RunFields DEF PageInv, Stages
<1>5. handle \in Handles /\ handle.acc = run.handle.acc
  BY <1>4, StoredAgainIsSame
<1>6. /\ run.known => handle = run.handle
      /\ ~run.known => handle.epoch = NextEpoch(time)
  BY <1>4 DEF Again, Handles
<1> HIDE DEF handle
<1>7. /\ run'.phase = run.phase /\ run'.handle = handle /\ run'.stored = run.stored
      /\ run'.known = run.known
  BY <1>2, <1>4 DEF RunRecords
<1>8. CASE run.known
  <2>1. handle = run.handle /\ run'.known
    BY <1>6, <1>7, <1>8
  <2> QED BY <1>2, <1>3, <1>4, <1>5, <1>7, <1>8, <2>1, RunPutStores
<1>9. CASE ~run.known
  <2>1. ~run.stored /\ run.handle.acc = accepted
    BY <1>3, <1>9 DEF StoreInv, Tracked
  <2>2. ~run'.stored /\ handle.acc = accepted'
    BY <1>3, <1>5, <1>7, <2>1
  <2>3. \A a \in {NoHandle, durable, session} : a.acc <= handle.acc /\ a.epoch < handle.epoch
    BY <1>5, <1>6, <1>9, <2>1, StampedAfterAll
  <2> QED BY <1>2, <1>3, <1>4, <1>5, <1>7, <2>2, <2>3, RunPutStores
<1> QED BY <1>8, <1>9

LEMMA CommitStores ==
  ASSUME PageInv, StoreInv, Commit
  PROVE  StoreInv'
<1>1. PICK j \in PageJobs, time \in Now :
        LET handle == [job |-> j, acc |-> accepted + 1, epoch |-> NextEpoch(time)]
        IN  /\ run' = [phase |-> "committing", handle |-> handle, known |-> FALSE,
                       stored |-> FALSE, cancel |-> "may"]
            /\ epochs' = Newest([epoch |-> epochs], handle).epoch
            /\ Persist(handle, "run")
  BY DEF Commit
<1> DEFINE handle == [job |-> j, acc |-> accepted + 1, epoch |-> NextEpoch(time)]
<1>2. /\ run.phase = "submitting" /\ accepted < MaxAccepted /\ page = "ready"
      /\ UNCHANGED <<durable, session, page, reply, getter, got, revived>>
      /\ accepted \in Nat /\ MaxAccepted \in Nat /\ accepted' = accepted + 1
  BY ActiveCompileConstants
     DEF Commit, loadVars, storageVars, endedVars, PageInv, Shapes, PageShape, Stages
<1>3. /\ NextEpoch(time) \in Nat
      /\ \A a \in {NoHandle, durable, session} :
           a.acc \in Nat /\ a.acc <= accepted /\ a.epoch < NextEpoch(time)
  BY StampedAfterAll
<1>4. handle \in Handles /\ handle.acc = accepted + 1 /\ handle.epoch = NextEpoch(time)
  BY <1>2, <1>3 DEF Handles
<1>5. /\ run' = [phase |-> "committing", handle |-> handle, known |-> FALSE,
                 stored |-> FALSE, cancel |-> "may"]
      /\ epochs' = Newest([epoch |-> epochs], handle).epoch
      /\ Persist(handle, "run")
  BY <1>1
<1> HIDE DEF handle
<1>6. run'.phase = "committing" /\ run'.handle = handle /\ ~run'.stored
  BY <1>5
<1>7. \A a \in {NoHandle, durable, session} : a.acc <= handle.acc /\ a.epoch < handle.epoch
  BY <1>2, <1>3, <1>4
<1>8. handle.acc = accepted'
  BY <1>2, <1>4
<1> QED BY <1>2, <1>4, <1>5, <1>6, <1>7, <1>8, RunPutStores

\* What is stored again late may have any place among the epochs.
LEMMA ExpiredLateStores ==
  ASSUME PageInv, StoreInv, ExpiredLate
  PROVE  StoreInv'
<1>1. PICK l \in late, time \in Now :
        LET handle == Again(l.handle, l.known, time)
        IN  /\ revived' = revived \cup {handle.acc}
            /\ epochs' = Newest([epoch |-> epochs], handle).epoch
            /\ Persist(handle, "run")
  BY DEF ExpiredLate
<1> DEFINE handle == Again(l.handle, l.known, time)
<1>2. /\ revived' = revived \cup {handle.acc}
      /\ epochs' = Newest([epoch |-> epochs], handle).epoch
      /\ Persist(handle, "run")
  BY <1>1
<1>3. handle \in Handles
  BY StoredAgainIsSame DEF PageInv, Shapes, PageShape
<1> HIDE DEF handle
<1>4. /\ UNCHANGED <<durable, session, page, reply, getter, got, run, accepted>>
      /\ page = "ready"
  BY DEF ExpiredLate, loadVars, storageVars, PageInv, Stages
<1>5. /\ gen' # 0 /\ Live' = {NoHandle, durable, session, run'.handle, handle}
      /\ \A q \in Queued' : q.token = gen' => q.what = "put" /\ q.for = "run"
      /\ epochs \in Nat /\ epochs' \in Nat /\ epochs <= epochs' /\ lastEpoch' <= epochs'
      /\ handle.epoch <= epochs'
      /\ Loading' /\ InHand' /\ Migrating' /\ Answers'
  BY <1>2, <1>3, <1>4, RunPutQueued
<1>6. {NoHandle, durable, session, run.handle} \subseteq Live
  BY StoreFacts
<1>7. EpochOrder'
  <2>1. \A a \in Live' : a.epoch <= epochs'
    <3>1. \A a \in {NoHandle, durable, session, run.handle} : a.epoch \in Nat /\ a.epoch <= epochs
      BY <1>6, LiveAreHandles DEF StoreInv, EpochOrder
    <3> QED BY <1>4, <1>5, <3>1
  <2>2. \A a \in Live' : a.acc \notin revived' => a \in Live /\ a.acc \notin revived
    BY <1>2, <1>4, <1>5, <1>6
  <2> QED BY <1>5, <2>1, <2>2 DEF StoreInv, EpochOrder
<1>8. Tracked'
  BY <1>4, <1>5 DEF StoreInv, Tracked
<1>9. Foremost'
  BY <1>2 DEF Foremost
<1> QED BY <1>5, <1>7, <1>8, <1>9 DEF StoreInv

\* A delete leaves nothing for an earlier mutation to write.
LEMMA DeleteStores ==
  ASSUME PageInv, StoreInv, FinishCompile \/ RestoreRefused
  PROVE  StoreInv'
<1>1. PICK handle \in {run.handle, got} :
        /\ DeleteJob(handle) /\ run'.phase = "none" /\ run'.handle = NoHandle
        /\ UNCHANGED <<durable, session, reply, epochs, getter, lastEpoch, revived>>
        /\ page' = "ready" /\ page # "loading"
  BY NoRunIsRecord
     DEF FinishCompile, RestoreRefused, Accepted, DeleteJob, storageVars, loadVars, endedVars, PageInv,
         Stages
<1> DEFINE m == [what |-> "delete", for |-> "run", handle |-> handle, token |-> gen + 1]
<1>2. /\ gen' = gen + 1 /\ Queued' = Queued \cup {m} /\ mutations' = Append(mutations, m)
      /\ gen \in Nat /\ handle \in Handles
  BY <1>1, EnqueueKeeps, StoreFacts DEF DeleteJob, Enqueue, PageInv, Shapes
<1>3. m.what = "delete" /\ m.for = "run" /\ m \in Mutation
  BY <1>2 DEF Mutation
<1> HIDE DEF m
<1>4. \A q \in Queued : q.token \in 1..gen
  BY PutFacts
<1>5. LatestPuts' = {}
  BY <1>2, <1>3, <1>4 DEF LatestPuts
<1>6. EpochOrder'
  <2>1. Live' \subseteq Live
    BY <1>1, <1>5 DEF Live
  <2> QED BY <1>1, <2>1, OrderKept DEF StoreInv, EpochOrder
<1>7. Loading' /\ InHand' /\ Migrating' /\ Tracked' /\ Foremost'
  BY <1>1, <1>2, <1>3, <1>5 DEF StoreInv, Loading, InHand, Migrating, Tracked, Foremost
<1>8. Answers'
  <2> SUFFICES ASSUME Latest'
               PROVE  reply.is = "none"
    BY <1>1 DEF StoreInv, Answers
  <2>1. CASE mutations = <<>>
    BY <2>1 DEF PageInv, Stages, Queued, Shapes, PageShape
  <2>2. CASE mutations # <<>>
    <3>1. Turn' = Turn /\ Turn.token \in 1..gen
      BY <1>2, <1>3, <2>2, HeadOfLonger, TurnIsQueued, PutFacts DEF Turn, PageInv, Shapes, QueueShape
    <3> QED BY <1>2, <3>1 DEF Latest
  <2> QED BY <2>1, <2>2
<1> QED BY <1>6, <1>7, <1>8 DEF StoreInv

-----------------------------------------------------------------------------
(* Transactions, and what comes after them. *)

\* Before it has its answer, the latest mutation finds this in the stores.
LEMMA TransactionStores ==
  ASSUME PageInv, StoreInv, PutTransaction \/ DeleteTransaction \/ TransactionFails
  PROVE  StoreInv'
<1>1. /\ UNCHANGED <<session, page, getter, got, memory, gen, lastEpoch, mutations, run, epochs,
                     accepted, revived>>
      /\ mutations # <<>> /\ Latest
  BY DEF PutTransaction, DeleteTransaction, TransactionFails, HasTurn, loadVars, storageVars,
         endedVars
<1>2. /\ Queued' = Queued /\ LatestPuts' = LatestPuts /\ Turn' = Turn /\ (Latest' <=> Latest)
      /\ Turn \in Queued /\ Queued = {Turn} /\ Turn.handle.epoch \in Nat /\ Turn.token \in 1..gen
  BY <1>1, QueueSame, TurnIsQueued, LatestIsAlone, PutFacts DEF PageInv, Shapes, PageShape
<1>3. /\ {durable.epoch, session.epoch, run.handle.epoch, NoHandle.epoch} \subseteq Nat
      /\ NoHandle.epoch = 0 /\ gen \in Nat
      /\ run.phase \in {"none", "submitting", "committing", "tracking"}
      /\ page \in {"closed", "loading", "restoring", "ready"}
  BY StoreFacts, NoHandleIsHandle, RunFields DEF PageInv, Shapes, PageShape
<1>4. Turn.what = "put" => Turn \in LatestPuts /\ Turn.handle \in Live
  BY <1>1, <1>2 DEF LatestPuts, Latest, Live
<1>5. /\ \/ durable' \in {durable, NoHandle}
         \/ Turn.what = "put" /\ durable' = Turn.handle
      /\ Turn.what = "put" => durable' \in {durable, Turn.handle}
      /\ reply'.is = "written" => durable' = Turn.handle /\ reply'.winner = Turn.handle
      /\ reply'.is = "kept" =>
           Fresher(durable, Turn.handle) /\ durable' = durable /\ reply'.winner = durable
      /\ reply'.is = "deleted" => Turn.what = "delete"
      /\ reply'.is # "none"
  <2>1. CASE PutTransaction
    BY <2>1 DEF PutTransaction, HasTurn
  <2>2. CASE DeleteTransaction
    BY <2>2 DEF DeleteTransaction, HasTurn
  <2>3. CASE TransactionFails
    BY <2>3 DEF TransactionFails, HasTurn, storageVars
  <2> QED BY <2>1, <2>2, <2>3
<1>6. EpochOrder'
  <2>1. Live' \subseteq Live
    BY <1>1, <1>2, <1>4, <1>5 DEF Live
  <2> QED BY <1>1, <2>1, OrderKept DEF StoreInv, EpochOrder
<1>7. Loading'
  <2>1. gen # 0
    BY <1>2, <1>3
  <2> QED BY <1>1, <1>2, <2>1 DEF StoreInv, Loading
<1>8. InHand'
  BY <1>1 DEF StoreInv, InHand
<1>9. Migrating'
  <2>1. durable'.epoch \in Nat /\ (Turn.what = "put" => durable'.epoch \in {durable.epoch, Turn.handle.epoch})
    BY <1>2, <1>3, <1>5
  <2>2. \A m \in LatestPuts : m = Turn /\ Turn.what = "put"
    BY <1>2 DEF LatestPuts
  <2> QED BY <1>1, <1>2, <2>1, <2>2 DEF StoreInv, Migrating
<1>10. Tracked'
  BY <1>1, <1>2 DEF StoreInv, Tracked
<1>11. Foremost'
  <2> SUFFICES ASSUME revived = {}, run.phase \in {"committing", "tracking"}
               PROVE  /\ durable'.epoch <= run.handle.epoch \/ getter = "not"
                      /\ run.stored /\ run.phase = "tracking" =>
                           run.handle \in {durable', session} \/ durable'.epoch > run.handle.epoch
    BY <1>1, <1>2 DEF StoreInv, Foremost
  <2>1. Turn.what = "put" /\ Turn.handle = run.handle
    BY <1>1, <1>2 DEF StoreInv, Tracked, Foremost, Latest
  <2>2. durable' \in {durable, run.handle}
    BY <1>5, <2>1
  <2> QED BY <1>3, <2>2 DEF StoreInv, Foremost
<1>12. Answers'
  BY <1>2, <1>5 DEF Answers, Fresher
<1> QED BY <1>6, <1>7, <1>8, <1>9, <1>10, <1>11, <1>12 DEF StoreInv

\* A mutation that is overtaken changes no store; a run that it was to store
\* counts as not stored.
LEMMA OvertakenStores ==
  ASSUME PageInv, StoreInv, Overtaken
  PROVE  StoreInv'
<1>1. /\ mutations # <<>> /\ ~Latest /\ Dequeue
      /\ UNCHANGED <<durable, session, memory, gen, lastEpoch, epochs, accepted, revived>>
      /\ gen \in Nat /\ page \in {"closed", "loading", "restoring", "ready"}
      /\ run \in RunRecords
  BY DEF Overtaken, storageVars, endedVars, PageInv, Shapes, PageShape
<1>2. /\ Queued' \subseteq Queued /\ LatestPuts' \subseteq LatestPuts /\ reply' = NoAnswer
      /\ mutations' = Tail(mutations)
  BY <1>1, DequeueKeeps DEF Dequeue, LatestPuts, PageInv, Shapes
<1>3. Turn \in Queued /\ Turn.token \in 1..gen /\ Turn.token # gen /\ Turn.handle.acc >= 1
  BY <1>1, TurnIsQueued, PutFacts DEF Latest, PageInv, Shapes
<1>4. page # "loading" /\ page # "restoring"
  BY <1>1, <1>3 DEF StoreInv, Loading, InHand
<1>5. /\ UNCHANGED <<page, got>>
      /\ \/ getter' = getter
         \/ Turn.for = "load" /\ getter' = "not"
      /\ \/ run' = run
         \/ /\ run.handle.acc = Turn.handle.acc
            /\ run' = [run EXCEPT !.phase = "tracking", !.stored = FALSE,
                                  !.known = run.known, !.handle = run.handle]
  <2>1. run.known \in BOOLEAN
    BY <1>1 DEF RunRecords
  <2> QED BY <1>1, <1>4, <2>1 DEF Overtaken, Resolved, loadVars
<1>6. run' = run \/ (run.phase \in {"committing", "tracking"} /\ run'.phase = "tracking"
                       /\ run'.handle = run.handle /\ run'.stored = FALSE
                       /\ run'.known = run.known)
  <2>1. run.handle.acc = Turn.handle.acc => run.phase \in {"committing", "tracking"}
    BY <1>1, <1>3, NoHandleIsHandle DEF PageInv, Stages, RunRecords
  <2> QED BY <1>1, <1>5, <2>1 DEF RunRecords
<1>7. EpochOrder'
  <2>1. Live' \subseteq Live
    BY <1>1, <1>2, <1>5, <1>6 DEF Live
  <2> QED BY <1>1, <2>1, OrderKept DEF StoreInv, EpochOrder
<1>8. Loading'
  <2>1. Turn.for = "load" => \A m \in Queued' : m.for # "load"
    <3> SUFFICES ASSUME Turn.for = "load", NEW m \in Queued', m.for = "load"
                 PROVE  FALSE
      OBVIOUS
    <3>1. m.token = 1 /\ Turn.token = 1
      BY <1>2, <1>3 DEF StoreInv, Loading
    <3>2. mutations \in Seq(Mutation) /\ mutations # <<>>
          /\ \A i, k \in DOMAIN mutations : i < k => mutations[i].token < mutations[k].token
      BY <1>1 DEF PageInv, Shapes, QueueShape
    <3>3. PICK k \in DOMAIN mutations' : m = mutations'[k]
      BY DEF Queued
    <3>4. k + 1 \in DOMAIN mutations /\ 1 \in DOMAIN mutations /\ 1 < k + 1
          /\ m = mutations[k + 1] /\ Turn = mutations[1]
      BY <1>2, <3>2, <3>3 DEF Turn
    <3>5. mutations[1].token < mutations[k + 1].token
      BY <3>2, <3>4
    <3> QED BY <3>1, <3>4, <3>5
  <2>2. gen # 0
    BY <1>1, <1>3
  <2> QED BY <1>1, <1>2, <1>4, <1>5, <2>1, <2>2 DEF StoreInv, Loading
<1>9. InHand'
  BY <1>4, <1>5 DEF InHand
<1>10. Migrating'
  BY <1>1, <1>2, <1>6 DEF StoreInv, Migrating
<1>11. Tracked' /\ Foremost'
  <2>1. Turn.for = "load" => getter = "migrating"
    BY <1>3 DEF StoreInv, Loading
  <2>2. gen # 0
    BY <1>1, <1>3
  <2> QED BY <1>1, <1>2, <1>5, <1>6, <2>1, <2>2 DEF StoreInv, Tracked, Foremost
<1>12. Answers'
  BY <1>2 DEF Answers, NoAnswer
<1> QED BY <1>7, <1>8, <1>9, <1>10, <1>11, <1>12 DEF StoreInv

\* The put that is the latest has its answer: its handle is in one store, or
\* in none.  The queue is empty then.
LEMMA PutStores ==
  ASSUME PageInv, StoreInv, PutAnswered \/ PutFallsBack
  PROVE  StoreInv'
<1>1. /\ mutations # <<>> /\ Dequeue /\ Latest /\ Turn.what = "put"
      /\ UNCHANGED <<durable, gen, lastEpoch, epochs, accepted, revived>>
      /\ gen \in Nat /\ page \in {"closed", "loading", "restoring", "ready"}
      /\ run \in RunRecords
  BY DEF PutAnswered, PutFallsBack, Answered, endedVars, PageInv, Shapes, PageShape
<1>2. /\ Queued' = {} /\ mutations' = <<>> /\ LatestPuts' = {} /\ reply' = NoAnswer
      /\ Queued = {Turn} /\ Turn \in LatestPuts /\ Turn.handle \in Live
      /\ Turn.token = gen /\ gen # 0 /\ Turn.handle.acc >= 1 /\ Turn.handle \in Handles
  <2>1. Queued' = {} /\ mutations' = <<>> /\ reply' = NoAnswer /\ Queued = {Turn}
    BY <1>1, DequeueKeeps, LatestIsAlone DEF Dequeue, PageInv, Shapes
  <2>2. Turn.token \in 1..gen /\ Turn.token = gen /\ Turn.handle.acc >= 1 /\ Turn.handle \in Handles
    BY <1>1, <2>1, PutFacts DEF Latest
  <2> QED BY <1>1, <2>1, <2>2 DEF LatestPuts, Live
<1> DEFINE leads == Turn.for = "load" \/ (run.phase \in {"committing", "tracking"} /\ revived = {})
<1>3. /\ {durable.epoch, session.epoch, run.handle.epoch, Turn.handle.epoch} \subseteq Nat
      /\ leads => session.epoch <= Turn.handle.epoch
      /\ leads => durable.epoch <= Turn.handle.epoch \/ getter = "not"
      /\ Turn.for = "load" => durable.epoch <= Turn.handle.epoch
      /\ NoHandle.epoch = 0 /\ NoHandle.acc = 0
      /\ NoHandle \in Live /\ session \in Live /\ durable \in Live
  <2>1. /\ {durable.epoch, session.epoch, run.handle.epoch, Turn.handle.epoch} \subseteq Nat
        /\ NoHandle.epoch = 0 /\ NoHandle.acc = 0
        /\ NoHandle \in Live /\ session \in Live /\ durable \in Live
    BY <1>2, StoreFacts, NoHandleIsHandle, LiveAreHandles
  <2>2. CASE Turn.for = "load"
    BY <1>2, <2>1, <2>2 DEF StoreInv, Migrating
  <2>3. CASE Turn.for # "load" /\ run.phase \in {"committing", "tracking"} /\ revived = {}
    BY <1>2, <2>1, <2>3 DEF StoreInv, Foremost
  <2> QED BY <2>1, <2>2, <2>3
<1>4. PICK stored \in BOOLEAN, record \in {durable, Turn.handle} :
        /\ Resolved(stored, TRUE, record)
        /\ stored => Turn.handle \in {durable, session'} /\ record = Turn.handle
        /\ session' \in {NoHandle, Turn.handle, session}
        /\ record = Turn.handle \/ (record = durable /\ durable.epoch > Turn.handle.epoch)
  <2>1. CASE PutAnswered
    <3> DEFINE stored == reply.is = "written"
               record == reply.winner
    <3>1. /\ reply.is # "error" /\ reply.is # "none"
          /\ session' = SessionAfter(record) /\ Resolved(stored, TRUE, record)
      BY <2>1 DEF PutAnswered, Answered, StoreInv, Answers
    <3>2. session' \in {NoHandle, session}
      BY <3>1 DEF SessionAfter
    <3>3. stored => durable = Turn.handle /\ record = Turn.handle
      BY <1>1 DEF StoreInv, Answers
    <3>4. record = Turn.handle \/ (record = durable /\ durable.epoch > Turn.handle.epoch)
      <4>1. reply.is \in {"kept", "written", "deleted"}
        <5>1. reply.is \in {"none", "kept", "written", "deleted", "error"}
          BY DEF PageInv, Shapes, PageShape
        <5> QED BY <3>1, <5>1
      <4>2. reply.is = "kept" => record = durable /\ durable.epoch > Turn.handle.epoch
        BY <1>1 DEF StoreInv, Answers, Fresher
      <4>3. reply.is # "deleted"
        BY <1>1 DEF StoreInv, Answers
      <4> QED BY <3>3, <4>1, <4>2, <4>3
    <3>5. stored \in BOOLEAN /\ record \in {durable, Turn.handle}
      BY <3>4
    <3> HIDE DEF stored, record
    <3> QED BY <3>1, <3>2, <3>3, <3>4, <3>5
  <2>2. CASE PutFallsBack
    <3>1. CASE session' = Turn.handle /\ Resolved(TRUE, TRUE, Turn.handle)
      <4> WITNESS TRUE \in BOOLEAN, Turn.handle \in {durable, Turn.handle}
      <4>1. session' = Turn.handle
        BY <3>1
      <4>2. Resolved(TRUE, TRUE, Turn.handle)
        BY <3>1
      <4> QED BY <4>1, <4>2
    <3>2. CASE Resolved(FALSE, TRUE, Turn.handle) /\ session' = session
      <4> WITNESS FALSE \in BOOLEAN, Turn.handle \in {durable, Turn.handle}
      <4> QED BY <1>3, <3>2
    <3> QED BY <2>2, <3>1, <3>2 DEF PutFallsBack
  <2> QED BY <2>1, <2>2
<1>5. /\ getter' = IF Turn.for = "load" THEN (IF stored THEN "durable" ELSE "not") ELSE getter
      /\ page' = IF Turn.for = "load" /\ page = "loading" THEN "restoring" ELSE page
      /\ got' = IF Turn.for = "load" /\ page = "loading" THEN record ELSE got
      /\ IF run.handle.acc = Turn.handle.acc /\ Turn.for = "run"
           THEN run' = [run EXCEPT !.phase = "tracking", !.stored = stored,
                                   !.known = run.known \/ record.job = run.handle.job,
                                   !.handle = IF record.job = run.handle.job THEN record ELSE @]
           ELSE run' = run
  BY <1>4 DEF Resolved
\* The run that the put was of is the record now, if that is of its job.
<1>6. \/ run' = run /\ ~(run.handle.acc = Turn.handle.acc /\ Turn.for = "run")
      \/ /\ run.handle.acc = Turn.handle.acc /\ Turn.for = "run"
         /\ run.phase \in {"committing", "tracking"} /\ run'.phase = "tracking"
         /\ run'.stored = stored /\ run'.handle \in {run.handle, record}
         /\ run'.known \/ ~run'.stored
         /\ run'.known \/ (~run.known /\ run'.handle = run.handle)
  <2> SUFFICES ASSUME run.handle.acc = Turn.handle.acc, Turn.for = "run"
               PROVE  /\ run.phase \in {"committing", "tracking"} /\ run'.phase = "tracking"
                      /\ run'.stored = stored /\ run'.handle \in {run.handle, record}
                      /\ run'.known \/ ~run'.stored
                      /\ run'.known \/ (~run.known /\ run'.handle = run.handle)
    BY <1>5
  <2>1. run.phase \in {"committing", "tracking"}
    BY <1>1, <1>2, <1>3 DEF PageInv, Stages, RunRecords
  <2>2. Turn.handle.job = run.handle.job
    BY <1>2, RunFields, LiveAreHandles DEF PageInv, HandlesAgree
  <2>3. stored => record.job = run.handle.job
    BY <1>4, <2>2
  <2>4. run' = [run EXCEPT !.phase = "tracking", !.stored = stored,
                           !.known = run.known \/ record.job = run.handle.job,
                           !.handle = IF record.job = run.handle.job THEN record ELSE @]
    BY <1>5
  <2>5. /\ run'.phase = "tracking" /\ run'.stored = stored
        /\ run'.handle = IF record.job = run.handle.job THEN record ELSE run.handle
        /\ run'.known <=> (run.known \/ record.job = run.handle.job)
    BY <1>1, <2>4 DEF RunRecords
  <2> QED BY <2>1, <2>3, <2>5
<1>7. page = "loading" => Turn.for = "load"
  BY <1>2 DEF StoreInv, Loading
<1>8. page' = "restoring" =>
        /\ page = "loading" /\ Turn.for = "load" /\ got' = Turn.handle
        /\ durable.epoch <= Turn.handle.epoch
        /\ getter' = IF stored THEN "durable" ELSE "not"
  <2> SUFFICES ASSUME page' = "restoring"
               PROVE  page = "loading" /\ Turn.for = "load" /\ got' = record
    BY <1>3, <1>4, <1>5
  <2> QED BY <1>1, <1>5 DEF StoreInv, InHand
<1>9. session'.epoch \in Nat /\ (leads => session'.epoch <= Turn.handle.epoch)
  BY <1>3, <1>4
<1>10. EpochOrder'
  <2>1. Live' \subseteq Live
    <3>1. /\ {NoHandle, durable, session, Turn.handle, run.handle} \subseteq Live
          /\ session' \in Live
      BY <1>2, <1>3, <1>4, StoreFacts
    <3>2. run'.handle \in Live
      BY <1>4, <1>6, <3>1
    <3>3. page' = "restoring" => got' \in Live
      BY <1>8, <3>1
    <3> QED BY <1>1, <1>2, <3>1, <3>2, <3>3 DEF Live
  <2> QED BY <1>1, <2>1, OrderKept DEF StoreInv, EpochOrder
<1>11. Loading'
  <2>1. page' # "loading"
    BY <1>5, <1>7
  <2> QED BY <1>1, <1>2, <2>1 DEF Loading
<1>12. InHand'
  <2> SUFFICES ASSUME page' = "restoring"
               PROVE  /\ mutations' = <<>> /\ getter' \in {"durable", "not"}
                      /\ session'.epoch <= got'.epoch
                      /\ getter' = "durable" /\ got' # NoHandle =>
                           got' \in {durable', session'} /\ durable'.epoch <= got'.epoch
    BY DEF InHand
  <2> QED BY <1>1, <1>2, <1>4, <1>8, <1>9
<1>13. Migrating' /\ Answers'
  BY <1>2 DEF Migrating, Answers
<1>14. Tracked'
  <2> SUFFICES ASSUME run'.phase \in {"committing", "tracking"}
               PROVE  ~run'.known => ~run'.stored /\ run'.handle.acc = accepted'
    BY <1>1, <1>2 DEF Tracked
  <2>1. run.phase \in {"committing", "tracking"}
    BY <1>6
  <2>2. ~run.known => ~run.stored /\ run.handle.acc = accepted
    BY <2>1 DEF StoreInv, Tracked
  <2> QED BY <1>1, <1>6, <2>2
<1>15. Foremost'
  <2> SUFFICES ASSUME run'.phase \in {"committing", "tracking"}, revived = {}
               PROVE  Foremost'
    BY <1>1 DEF Foremost
  <2>1. run.phase \in {"committing", "tracking"}
    BY <1>6
  <2>2. Turn.for = "run" /\ Turn.handle = run.handle /\ getter' = getter /\ leads
    BY <1>2, <1>5, <2>1 DEF StoreInv, Tracked, Foremost
  <2>3. run'.stored = stored /\ run'.handle \in {run.handle, record}
    BY <1>6, <2>2
  <2>4. /\ session'.epoch <= run'.handle.epoch
        /\ durable.epoch <= run'.handle.epoch \/ getter = "not"
    <3>1. CASE run'.handle = run.handle
      BY <1>3, <1>9, <2>2, <3>1
    <3>2. CASE run'.handle = durable /\ durable.epoch > Turn.handle.epoch
      BY <1>3, <1>9, <2>2, <3>2
    <3> QED BY <1>4, <2>2, <2>3, <3>1, <3>2
  <2>5. stored => run'.handle \in {durable, session'}
    BY <1>4, <2>2, <2>3
  <2> QED BY <1>1, <1>2, <2>2, <2>3, <2>4, <2>5 DEF Foremost
<1> QED BY <1>10, <1>11, <1>12, <1>13, <1>14, <1>15 DEF StoreInv

\* No live handle is of the compile whose deletion is answered.
LEMMA DeletedStores ==
  ASSUME PageInv, StoreInv, DeleteAnswered
  PROVE  StoreInv'
<1>1. /\ mutations # <<>> /\ Dequeue /\ Latest /\ Turn.what = "delete"
      /\ UNCHANGED <<durable, page, getter, got, memory, gen, lastEpoch, run, epochs, accepted>>
      /\ session' = SessionWithout(Turn.handle) /\ gen \in Nat
      /\ \/ revived' = revived
         \/ reply.is = "deleted" /\ revived' = revived \ {Turn.handle.acc}
  BY DEF DeleteAnswered, Answered, loadVars, PageInv, Shapes, PageShape
<1>2. /\ Queued' = {} /\ mutations' = <<>> /\ LatestPuts' = {} /\ reply' = NoAnswer
      /\ Turn \in Queued /\ Turn.token = gen /\ gen # 0 /\ Turn.handle.acc >= 1
      /\ Turn.handle.acc \in Nat
  <2>1. Queued' = {} /\ mutations' = <<>> /\ reply' = NoAnswer /\ Turn \in Queued
    BY <1>1, DequeueKeeps, TurnIsQueued DEF Dequeue, PageInv, Shapes
  <2>2. Turn.token \in 1..gen /\ Turn.token = gen /\ Turn.handle.acc >= 1
        /\ Turn.handle.acc \in Nat
    BY <1>1, <2>1, PutFacts DEF Latest
  <2> QED BY <1>1, <2>1, <2>2 DEF LatestPuts
<1>3. run.phase \in {"none", "submitting"}
  BY <1>1, <1>2, RunFields DEF StoreInv, Tracked
<1>4. page # "restoring" /\ page # "loading"
  BY <1>1, <1>2 DEF StoreInv, InHand, PageInv, Stages
<1>5. session' \in {session, NoHandle} /\ session'.acc # Turn.handle.acc
  <2>1. session \in Held /\ Turn.handle \in Held
    BY <1>2 DEF Held
  <2>2. Same(session, Turn.handle) <=> session.acc = Turn.handle.acc
    BY <2>1, SameIsSame DEF PageInv
  <2> QED BY <1>1, <1>2, <2>2, NoHandleIsHandle DEF SessionWithout
<1>6. EpochOrder'
  <2>1. Live' \subseteq {NoHandle, durable, session', run.handle} /\ Live' \subseteq Live
    BY <1>1, <1>2, <1>4, <1>5 DEF Live
  <2>2. reply.is = "deleted" =>
          durable.acc # Turn.handle.acc /\ run.handle.acc # Turn.handle.acc
    BY <1>1, <1>2 DEF PageInv, Deleting
  <2>3. \A a \in Live' : a.acc \in revived => a.acc \in revived'
    BY <1>1, <1>2, <1>5, <2>1, <2>2, NoHandleIsHandle
  <2> QED BY <1>1, <2>1, <2>3, OrderKept DEF StoreInv, EpochOrder
<1>7. Loading' /\ InHand' /\ Migrating' /\ Tracked' /\ Foremost' /\ Answers'
  BY <1>1, <1>2, <1>3, <1>4 DEF Loading, InHand, Migrating, Tracked, Foremost, Answers
<1> QED BY <1>6, <1>7 DEF StoreInv

-----------------------------------------------------------------------------
LEMMA StoresStart == PageInit => StoreInv
<1> SUFFICES ASSUME PageInit PROVE StoreInv
  OBVIOUS
<1>1. Queued = {} /\ LatestPuts = {}
  BY DEF PageInit, Queued, LatestPuts
<1>2. NoRun.phase = "none" /\ NoRun.handle = NoHandle /\ NoHandle.epoch = 0 /\ NoHandle.acc = 0
  BY NoHandleIsHandle DEF NoRun
<1>3. Live = {NoHandle}
  BY <1>1, <1>2 DEF PageInit, Live
<1> QED BY <1>1, <1>2, <1>3 DEF PageInit, StoreInv, EpochOrder, Loading, InHand, Migrating,
                                Tracked, Foremost, Answers

LEMMA StoreSteps == PageInv /\ StoreInv /\ [PageNext]_pageVars => StoreInv'
<1> SUFFICES ASSUME PageInv, StoreInv, [PageNext]_pageVars PROVE StoreInv'
  OBVIOUS
<1>1. CASE Visit \/ Reload
  <2>1. PICK n \in {reloads, reloads + 1} : Open(n)
    BY <1>1 DEF Visit, Reload
  <2> QED BY <2>1, OpenStores
<1>2. CASE LoadReads \/ LoadTimesOut \/ LoadSuperseded
  BY <1>2, LoadStores
<1>3. CASE LoadSelects
  BY <1>3, SelectsStores
<1>4. CASE Restore \/ NothingToRestore
  BY <1>4, RestoreStores
<1>5. CASE Compile \/ NotAccepted
  BY <1>5, StartStores
<1>6. CASE FinishCompile \/ RestoreRefused
  BY <1>6, DeleteStores
<1>7. CASE Commit \/ HandleExpired
  BY <1>7, CommitStores, ExpiredStores
<1>8. CASE PutTransaction \/ DeleteTransaction \/ TransactionFails
  BY <1>8, TransactionStores
<1>9. CASE Overtaken \/ PutAnswered \/ PutFallsBack \/ DeleteAnswered
  BY <1>9, OvertakenStores, PutStores, DeletedStores
<1>10. CASE HandleAnswered \/ UNCHANGED pageVars
  <2>1. /\ UNCHANGED <<durable, session, memory, got, reply, page, getter, gen, lastEpoch,
                       epochs, accepted, mutations, revived>>
        /\ run' = run \/ run' = [run EXCEPT !.cancel = "answered"]
    BY <1>10 DEF HandleAnswered, pageVars, storageVars, loadVars, tailVars, endedVars
  <2>2. /\ run'.phase = run.phase /\ run'.handle = run.handle
        /\ run'.stored = run.stored /\ run'.known = run.known
    BY <2>1, RunFields DEF RunRecords
  <2> QED BY <2>1, <2>2, SameStores
<1>11. CASE ExpiredLate
  BY <1>11, ExpiredLateStores
<1> QED BY <1>1, <1>2, <1>3, <1>4, <1>5, <1>6, <1>7, <1>8, <1>9, <1>10, <1>11 DEF PageNext

\* The handle of a compile that was reported to be stored is what load() finds
\* after a reload, whatever persist(), deleteJob() and load() of
\* active-compile-storage.js did before, in whichever order their transactions
\* and writes succeeded, failed or were overtaken.
THEOREM ReloadFindsTheRun == PageSpec => []ReloadFindsRun
<1>1. PageSpec => [](PageInv /\ StoreInv)
  BY PageStarts, PageKept, StoresStart, StoreSteps, PTL DEF PageSpec
<1> QED BY <1>1, FoundIsNewest, PTL

----------------------------------------------------------------------------
(* The result that is shown and flashed. *)

\* What is shown, at hand and written belongs to the run started last; while
\* the page flashes none is active, so that none is started.
ResultInv ==
  /\ started \in Nat
  /\ active \in {NoTab, started} /\ lastResult \in {NoTab, started}
  /\ lastHex \in {NoTab, started}
  /\ flash # "no" => active = NoTab /\ chosen = started
  /\ flash = "write" => written = started

LEMMA OutputsKept ==
  ASSUME ResultInv, UNCHANGED <<active, started, outputVars, flashVars>> PROVE ResultInv'
BY DEF ResultInv, outputVars, flashVars

LEMMA OutputsCleared ==
  ASSUME ResultInv, Clear, UNCHANGED <<started, flashVars>>, active' \in {NoTab, active}
  PROVE  ResultInv'
BY DEF ResultInv, Clear, flashVars

LEMMA RunFinished ==
  ASSUME ResultInv, active' = NoTab, UNCHANGED <<started, outputVars, flashVars>>
  PROVE  ResultInv'
BY DEF ResultInv, outputVars, flashVars

LEMMA RunApplied ==
  ASSUME NEW r \in Runs, NEW over, ResultInv, active = r, Apply(r, over),
         UNCHANGED <<started, flashVars>>
  PROVE  ResultInv'
<1>1. active' = NoTab /\ r # NoTab
  BY DEF Apply, Finished, Runs, NoTab
<1>2. CASE Clear
  BY <1>1, <1>2, OutputsCleared
<1>3. CASE UNCHANGED outputVars
  BY <1>1, <1>3, RunFinished
<1>4. CASE lastResult' = r /\ UNCHANGED lastHex
  BY <1>1, <1>4 DEF ResultInv, flashVars
<1> QED BY <1>2, <1>3, <1>4 DEF Apply

LEMMA ResultStarts == SessionInit => ResultInv
BY DEF SessionInit, ResultInv, NoTab

LEMMA ResultSteps == ResultInv /\ [SessionNext]_sessionVars => ResultInv'
<1> SUFFICES ASSUME ResultInv, [SessionNext]_sessionVars PROVE ResultInv'
  OBVIOUS
<1>1. CASE UNCHANGED sessionVars
  BY <1>1, OutputsKept DEF sessionVars
<1>2. CASE ContextChanges
  BY <1>2, OutputsCleared DEF ContextChanges
<1>3. CASE CompileClicked
  BY <1>3 DEF CompileClicked, ResultInv, Clear, flashVars, NoTab
<1>4. ASSUME NEW r \in Runs, BrowserReturns(r) PROVE ResultInv'
  <2> DEFINE over == [tab[r] EXCEPT !.at = "returned"]
  <2>1. CASE UNCHANGED <<active, outputVars>>
    BY <1>4, <2>1, OutputsKept DEF BrowserReturns
  <2>2. CASE active = r /\ Apply(r, over)
    BY <1>4, <2>2, RunApplied DEF BrowserReturns
  <2>3. CASE Finished(r, over) /\ UNCHANGED outputVars
    BY <1>4, <2>3, RunFinished DEF BrowserReturns, Finished
  <2> QED BY <1>4, <2>1, <2>2, <2>3 DEF BrowserReturns
<1>5. ASSUME NEW r \in Runs, PostAnswered(r) PROVE ResultInv'
  <2>1. CASE UNCHANGED <<active, outputVars>>
    BY <1>5, <2>1, OutputsKept DEF PostAnswered
  <2>2. CASE active' = NoTab /\ UNCHANGED outputVars
    BY <1>5, <2>2, RunFinished DEF PostAnswered
  <2>3. CASE active' = NoTab /\ Clear
    BY <1>5, <2>3, OutputsCleared DEF PostAnswered
  <2> QED BY <1>5, <2>1, <2>2, <2>3 DEF PostAnswered, Finished
<1>6. ASSUME NEW r \in Runs, Stored(r) PROVE ResultInv'
  <2>1. CASE UNCHANGED <<active, outputVars>>
    BY <1>6, <2>1, OutputsKept DEF Stored
  <2>2. CASE active' = NoTab /\ Clear
    BY <1>6, <2>2, OutputsCleared DEF Stored
  <2> QED BY <1>6, <2>1, <2>2 DEF Stored, Finished
<1>7. ASSUME NEW r \in Runs, CancelClicked(r) PROVE ResultInv'
  <2>1. CASE UNCHANGED <<active, outputVars>>
    BY <1>7, <2>1, OutputsKept DEF CancelClicked
  <2>2. CASE active' = NoTab /\ Clear
    BY <1>7, <2>2, OutputsCleared DEF CancelClicked
  <2> QED BY <1>7, <2>1, <2>2 DEF CancelClicked, Finished
<1>8. ASSUME NEW r \in Runs, CancelRead(r) PROVE ResultInv'
  <2>1. CASE UNCHANGED <<active, outputVars>>
    BY <1>8, <2>1, OutputsKept DEF CancelRead
  <2>2. CASE active' \in {NoTab, active} /\ Clear
    BY <1>8, <2>2, OutputsCleared DEF CancelRead
  <2> QED BY <1>8, <2>1, <2>2 DEF CancelRead, Finished
<1>9. ASSUME NEW r \in Runs,
             \/ CancelAnswered(r) \/ StoredAgain(r) \/ TimerFires(r) \/ StatusUnknown(r)
             \/ StreamError(r) \/ JobEnds(r) \/ JobForgotten(r)
      PROVE  ResultInv'
  BY <1>9, OutputsKept
     DEF CancelAnswered, StoredAgain, TimerFires, StatusUnknown, StreamError, JobEnds,
         JobForgotten
<1>10. ASSUME NEW r \in Runs, StatusTold(r) PROVE ResultInv'
  <2>1. CASE Apply(r, StatusIn(r))
    BY <1>10, <2>1, RunApplied DEF StatusTold
  <2>2. CASE active' = NoTab /\ UNCHANGED outputVars
    BY <1>10, <2>2, RunFinished DEF StatusTold
  <2> QED BY <1>10, <2>1, <2>2 DEF StatusTold, Finished
<1>11. ASSUME NEW r \in Runs, StreamDone(r) PROVE ResultInv'
  BY <1>11, RunApplied DEF StreamDone
<1>12. ASSUME NEW r \in Runs, Primed(r) PROVE ResultInv'
  BY <1>12 DEF Primed, StillShown, ResultInv, flashVars, Runs, NoTab
<1>13. CASE FlashClicked
  BY <1>13 DEF FlashClicked, ResultInv, Clear, flashVars, outputVars
<1>14. CASE PortChosen
  BY <1>14 DEF PortChosen, ResultInv, outputVars
<1>15. CASE HexFetched
  BY <1>15 DEF HexFetched, ResultInv
<1>16. CASE PortOpened
  BY <1>16 DEF PortOpened, ResultInv, outputVars
<1>17. CASE FlashEnds
  BY <1>17 DEF FlashEnds, ResultInv, outputVars
<1> QED
  BY <1>1, <1>2, <1>3, <1>4, <1>5, <1>6, <1>7, <1>8, <1>9, <1>10, <1>11, <1>12, <1>13,
     <1>14, <1>15, <1>16, <1>17 DEF SessionNext

\* flash() of app.js hands the flasher the firmware of the result it was started
\* for, that of the last compile, although what applyCompileResult() fetches
\* ahead may arrive at any time: for any number of compiles and contexts.
THEOREM WritesTheLastResult == SessionSpec => []WrittenIsChosen
<1>1. ResultInv => WrittenIsChosen
  BY DEF ResultInv, WrittenIsChosen
<1> QED BY <1>1, ResultStarts, ResultSteps, PTL DEF SessionSpec
----------------------------------------------------------------------------
\* What the page remembers of a chip is what the chip holds, or the chip is
\* one of those it remembers wrongly.
Known(c) == flashed[c] = Damaged \/ bootable[c] = flashed[c] \/ c \in outdated
Boots == bootable[task.chip] = task.statics \/ (task.chip \in outdated /\ device)

FlashInv ==
  /\ FlasherTypeOK
  /\ \A c \in Chips : Known(c) \/ (c = task.chip /\ flasher \in {"statics", "app", "record"})
  /\ flasher = "erase" => task.eraseAll
  /\ flasher \in {"app", "record"} => device \/ Known(task.chip)
  /\ flasher \in {"app", "record", "reset", "done"} => Boots
  /\ flasher \in {"record", "reset", "done"} => program[task.chip] = task.app

LEMMA ThereIsATask == (CHOOSE t \in FlashTasks : TRUE) \in FlashTasks
<1>1. PICK c \in Chips, s \in Statics, a \in Apps : TRUE
  BY FlashConstants
<1>2. [chip |-> c, statics |-> s, app |-> a, eraseAll |-> FALSE] \in FlashTasks
  BY <1>1 DEF FlashTasks
<1> QED BY <1>2

LEMMA FlashStartsOut == FlasherInit => FlashInv
<1> SUFFICES ASSUME FlasherInit PROVE FlashInv
  OBVIOUS
<1>1. FlasherTypeOK
  <2>1. task \in FlashTasks
    BY ThereIsATask DEF FlasherInit
  <2>2. flashes \in 0 .. MaxFlashed
    BY FlashConstants DEF FlasherInit
  <2> QED BY <2>1, <2>2 DEF FlasherInit, FlasherTypeOK
<1>2. \A c \in Chips : Known(c)
  BY DEF FlasherInit, Known
<1> QED BY <1>1, <1>2 DEF FlasherInit, FlashInv

LEMMA FlasherTypesKept ==
  FlasherTypeOK /\ [FlasherNext]_flasherVars => FlasherTypeOK'
<1> SUFFICES ASSUME FlasherTypeOK, [FlasherNext]_flasherVars PROVE FlasherTypeOK'
  OBVIOUS
<1> USE DEF FlasherTypeOK
<1>0. task.chip \in Chips /\ task.statics \in Statics /\ task.app \in Apps
  BY DEF FlashTasks
<1>1. CASE UNCHANGED flasherVars
  BY <1>1 DEF flasherVars
<1>2. ASSUME NEW t \in FlashTasks, FlashStarts(t) PROVE FlasherTypeOK'
  BY <1>2, FlashConstants DEF FlashStarts
<1>3. CASE Connected
  BY <1>3 DEF Connected
<1>4. CASE Erased
  BY <1>0, <1>4 DEF Erased
<1>5. CASE StaticsWritten
  BY <1>0, <1>5 DEF StaticsWritten
<1>6. CASE AppWritten
  BY <1>0, <1>6 DEF AppWritten
<1>7. CASE Recorded
  BY <1>0, <1>7 DEF Recorded
<1>8. CASE ResetToRun
  BY <1>8 DEF ResetToRun
<1>9. CASE FlashFails
  BY <1>0, <1>9 DEF FlashFails, Remembered
<1>10. CASE PageReloaded
  BY <1>10 DEF PageReloaded
<1> QED BY <1>1, <1>2, <1>3, <1>4, <1>5, <1>6, <1>7, <1>8, <1>9, <1>10 DEF FlasherNext

LEMMA FlashSteps == FlashInv /\ [FlasherNext]_flasherVars => FlashInv'
<1> SUFFICES ASSUME FlashInv, [FlasherNext]_flasherVars PROVE FlashInv'
  OBVIOUS
<1>0. FlasherTypeOK /\ FlasherTypeOK'
  BY FlasherTypesKept DEF FlashInv
<1>a. task.chip \in Chips /\ task.statics \in Statics /\ task.app \in Apps
  BY <1>0 DEF FlasherTypeOK, FlashTasks
<1>1. CASE UNCHANGED flasherVars
  BY <1>0, <1>1 DEF flasherVars, FlashInv, Known, Boots
<1>2. ASSUME NEW t \in FlashTasks, FlashStarts(t) PROVE FlashInv'
  BY <1>0, <1>2 DEF FlashStarts, FlashInv, Known
<1>3. CASE Connected
  <2>1. \A c \in Chips : Known(c) /\ Known(c)'
    BY <1>3 DEF Connected, FlashInv, Known
  <2>2. flasher' = "app" => device' /\ flashed[task.chip] = task.statics
    BY <1>3 DEF Connected, Skips
  <2>3. flasher' = "app" => Boots'
    BY <1>a, <1>3, <2>1, <2>2, FlashConstants DEF Connected, Known, Boots
  <2>4. flasher' \in {"erase", "app", "statics"} /\ (flasher' = "erase" => task'.eraseAll)
    BY <1>3 DEF Connected
  <2> QED BY <1>0, <2>1, <2>2, <2>3, <2>4 DEF FlashInv
<1>4. CASE Erased
  <2>1. \A c \in Chips : c # task.chip => Known(c)'
    BY <1>0, <1>4 DEF Erased, FlashInv, Known, FlasherTypeOK
  <2> QED BY <1>0, <1>4, <2>1 DEF Erased, FlashInv
<1>5. CASE StaticsWritten
  <2>1. \A c \in Chips : c # task.chip => Known(c)'
    BY <1>0, <1>5 DEF StaticsWritten, FlashInv, Known, FlasherTypeOK
  <2>2. bootable'[task.chip] = task.statics
    BY <1>0, <1>a, <1>5 DEF StaticsWritten, FlasherTypeOK
  <2>3. device \/ Known(task.chip)'
    BY <1>5, <2>2 DEF StaticsWritten, Known
  <2> QED BY <1>0, <1>5, <2>1, <2>2, <2>3 DEF StaticsWritten, FlashInv, Boots, Known
<1>6. CASE AppWritten
  <2>1. program'[task.chip] = task.app
    BY <1>0, <1>a, <1>6 DEF AppWritten, FlasherTypeOK
  <2> QED BY <1>0, <1>6, <2>1 DEF AppWritten, FlashInv, Boots, Known
<1>7. CASE Recorded
  <2>1. \A c \in Chips : c # task.chip => Known(c)'
    BY <1>0, <1>7 DEF Recorded, FlashInv, Known, FlasherTypeOK
  <2>2. Known(task.chip)'
    <3>1. CASE device
      <4>1. flashed'[task.chip] = task.statics
        BY <1>0, <1>a, <1>7, <3>1 DEF Recorded, FlasherTypeOK
      <4> QED BY <1>7, <4>1 DEF Recorded, FlashInv, Boots, Known
    <3>2. CASE ~device
      BY <1>7, <3>2 DEF Recorded, FlashInv, Known
    <3> QED BY <3>1, <3>2
  <2> QED BY <1>0, <1>7, <2>1, <2>2 DEF Recorded, FlashInv, Boots
<1>8. CASE ResetToRun
  BY <1>0, <1>8 DEF ResetToRun, FlashInv, Boots, Known
<1>9. CASE FlashFails
  BY <1>0, <1>9 DEF FlashFails, Remembered, FlashInv, Known
<1>10. CASE PageReloaded
  BY <1>0, <1>10 DEF PageReloaded, FlashInv, Known
<1> QED BY <1>1, <1>2, <1>3, <1>4, <1>5, <1>6, <1>7, <1>8, <1>9, <1>10 DEF FlasherNext

\* flashEsp32() of esp32flash.js leaves every chip that it reports complete with
\* all of the firmware, but for those the page remembers wrongly: for any number
\* of chips, firmwares and flashes that break off.
THEOREM FlashedChipsBoot == FlasherSpec => []CompleteBoots
<1>1. FlashInv => CompleteBoots
  BY DEF FlashInv, Boots, CompleteBoots
<1> QED BY <1>1, FlashStartsOut, FlashSteps, PTL DEF FlasherSpec

----------------------------------------------------------------------------
LEMMA UnusedIsRun == \A c \in Contexts : Unused(c) \in RunType
BY DEF Unused, RunType

\* What the steps of a run put into its record.
LEMMA RunsStayRuns ==
  ASSUME NEW rec \in RunType
  PROVE  /\ Scheduled(rec) \in RunType /\ Asked(rec) \in RunType
         /\ [Unused(rec.key) EXCEPT !.at = rec.at, !.calls = rec.calls] \in RunType
         /\ AfterFailedDelete(rec) \in RunType
BY DEF RunType, Scheduled, Asked, Unused, AfterFailedDelete

LEMMA BecomesKeeps ==
  ASSUME NEW r \in Runs, NEW rec \in RunType, tab \in [Runs -> RunType], Becomes(r, rec)
  PROVE  tab' \in [Runs -> RunType]
BY DEF Becomes

LEMMA FinishKeeps ==
  ASSUME NEW r \in Runs, NEW rec \in RunType, SessionTypeOK, Finished(r, rec)
  PROVE  tab' \in [Runs -> RunType] /\ active' \in Runs \cup {NoTab}
<1>1. [Unused(rec.key) EXCEPT !.at = rec.at, !.calls = rec.calls] \in RunType
  BY RunsStayRuns
<1> QED BY <1>1, BecomesKeeps DEF Finished, SessionTypeOK

LEMMA ClearKeeps ==
  ASSUME SessionTypeOK, Clear \/ UNCHANGED outputVars
  PROVE  {lastResult', lastHex'} \subseteq Runs \cup {NoTab} /\ priming' \subseteq Runs
BY DEF SessionTypeOK, Clear, outputVars

LEMMA ApplyKeeps ==
  ASSUME NEW r \in Runs, NEW rec \in RunType, SessionTypeOK, Apply(r, rec)
  PROVE  /\ tab' \in [Runs -> RunType] /\ active' \in Runs \cup {NoTab}
         /\ {lastResult', lastHex'} \subseteq Runs \cup {NoTab} /\ priming' \subseteq Runs
<1>1. tab' \in [Runs -> RunType] /\ active' \in Runs \cup {NoTab}
  BY FinishKeeps DEF Apply
<1>2. {lastResult', lastHex'} \subseteq Runs \cup {NoTab} /\ priming' \subseteq Runs
  <2>1. CASE Clear \/ UNCHANGED outputVars
    BY <2>1, ClearKeeps
  <2>2. CASE lastResult' = r /\ priming' = priming \cup {r} /\ UNCHANGED lastHex
    BY <2>2 DEF SessionTypeOK
  <2> QED BY <2>1, <2>2 DEF Apply
<1> QED BY <1>1, <1>2

\* A step of a run leaves the editor and the flasher alone.
LEMMA RunStepKeeps ==
  ASSUME NEW r \in Runs, SessionTypeOK, UNCHANGED <<shown, started, flashVars>>,
         NEW rec \in RunType,
         \/ Becomes(r, rec) /\ UNCHANGED active /\ (Clear \/ UNCHANGED outputVars)
         \/ Finished(r, rec) /\ (Clear \/ UNCHANGED outputVars)
         \/ Apply(r, rec)
  PROVE  SessionTypeOK'
<1>1. /\ tab' \in [Runs -> RunType] /\ active' \in Runs \cup {NoTab}
      /\ {lastResult', lastHex'} \subseteq Runs \cup {NoTab} /\ priming' \subseteq Runs
  <2>1. CASE Becomes(r, rec) /\ UNCHANGED active /\ (Clear \/ UNCHANGED outputVars)
    BY <2>1, BecomesKeeps, ClearKeeps DEF SessionTypeOK
  <2>2. CASE Finished(r, rec) /\ (Clear \/ UNCHANGED outputVars)
    BY <2>2, FinishKeeps, ClearKeeps
  <2>3. CASE Apply(r, rec)
    BY <2>3, ApplyKeeps
  <2> QED BY <2>1, <2>2, <2>3
<1> QED BY <1>1 DEF SessionTypeOK, flashVars

\* The variables of the handlers of app.js keep to their ranges, for any number
\* of compiles and contexts.
THEOREM SessionTypes == SessionSpec => []SessionTypeOK
<1>1. SessionInit => SessionTypeOK
  <2> SUFFICES ASSUME SessionInit PROVE SessionTypeOK
    OBVIOUS
  <2>1. tab \in [Runs -> RunType]
    BY UnusedIsRun DEF SessionInit
  <2>2. started \in 0 .. MaxRuns
    BY PageConstants DEF SessionInit
  <2> QED BY <2>1, <2>2 DEF SessionInit, SessionTypeOK
<1>2. SessionTypeOK /\ [SessionNext]_sessionVars => SessionTypeOK'
  <2> SUFFICES ASSUME SessionTypeOK, [SessionNext]_sessionVars PROVE SessionTypeOK'
    OBVIOUS
  <2>0. \A r \in Runs : tab[r] \in RunType
    BY DEF SessionTypeOK
  <2>1. CASE UNCHANGED sessionVars
    BY <2>1 DEF sessionVars, outputVars, flashVars, SessionTypeOK
  <2>2. CASE ContextChanges
    BY <2>2, ClearKeeps DEF ContextChanges, SessionTypeOK, flashVars
  <2>3. CASE CompileClicked
    <3>1. started' \in Runs /\ started' \in 0 .. MaxRuns
      BY <2>3, PageConstants DEF CompileClicked, SessionTypeOK, Runs
    <3>2. [Unused(shown) EXCEPT !.at = "browser"] \in RunType
      BY DEF Unused, RunType, SessionTypeOK
    <3>3. tab' \in [Runs -> RunType]
      BY <2>3, <3>1, <3>2, BecomesKeeps DEF CompileClicked, SessionTypeOK
    <3> QED BY <2>3, <3>1, <3>3, ClearKeeps DEF CompileClicked, SessionTypeOK, flashVars
  <2>4. ASSUME NEW r \in Runs, BrowserReturns(r) PROVE SessionTypeOK'
    <3>1. [tab[r] EXCEPT !.at = "returned"] \in RunType
      BY <2>0 DEF RunType
    <3>2. [[tab[r] EXCEPT !.at = "returned"] EXCEPT !.at = "posting"] \in RunType
      BY <2>0 DEF RunType
    <3> QED BY <2>4, <3>1, <3>2, RunStepKeeps DEF BrowserReturns
  <2>5. ASSUME NEW r \in Runs, PostAnswered(r) PROVE SessionTypeOK'
    <3>1. \A handle \in BOOLEAN :
            [tab[r] EXCEPT !.at = "storing", !.handle = handle, !.job = "running"] \in RunType
      BY <2>0 DEF RunType
    <3>2. [tab[r] EXCEPT !.at = "returned"] \in RunType
      BY <2>0 DEF RunType
    <3> QED BY <2>5, <3>1, <3>2, RunStepKeeps DEF PostAnswered
  <2>6. ASSUME NEW r \in Runs, Stored(r) PROVE SessionTypeOK'
    <3> DEFINE over == [tab[r] EXCEPT !.at = "returned", !.cancelRequested = FALSE]
    <3>1. over \in RunType
      BY <2>0 DEF RunType
    <3>2. /\ [over EXCEPT !.listening = (active = r)] \in RunType
          /\ [over EXCEPT !.calls = @ \cup {"delete"}] \in RunType
      BY <2>0 DEF RunType
    <3> QED BY <2>6, <3>1, <3>2, RunStepKeeps DEF Stored
  <2>7. ASSUME NEW r \in Runs, CancelClicked(r) PROVE SessionTypeOK'
    <3>1. /\ [tab[r] EXCEPT !.cancelRequested = TRUE, !.cancelling = TRUE] \in RunType
          /\ [tab[r] EXCEPT !.cancelling = TRUE, !.calls = @ \cup {"delete"}] \in RunType
      BY <2>0 DEF RunType
    <3> QED BY <2>7, <3>1, RunStepKeeps DEF CancelClicked
  <2>8. ASSUME NEW r \in Runs, CancelAnswered(r) PROVE SessionTypeOK'
    <3> DEFINE answered == [tab[r] EXCEPT !.calls = @ \ {"delete"}]
    <3>1. answered \in RunType /\ [answered EXCEPT !.calls = @ \cup {"body"}] \in RunType
      BY <2>0 DEF RunType
    <3>2. AfterFailedDelete(answered) \in RunType
      BY <3>1, RunsStayRuns
    <3> QED BY <2>8, <3>1, <3>2, RunStepKeeps DEF CancelAnswered
  <2>20. ASSUME NEW r \in Runs, CancelRead(r) PROVE SessionTypeOK'
    <3> DEFINE read == [tab[r] EXCEPT !.calls = @ \ {"body"}]
               open == [read EXCEPT !.cancelling = FALSE]
               again == [open EXCEPT !.handle = FALSE, !.calls = @ \cup {"store"}]
               refused == IF active = r THEN AfterFailedDelete(read) ELSE read
               toolate == IF active = r THEN Asked(open) ELSE open
    <3>1. read \in RunType /\ open \in RunType /\ again \in RunType
      BY <2>0 DEF RunType
    <3>2. refused \in RunType /\ toolate \in RunType
      BY <3>1, RunsStayRuns
    <3>3. /\ UNCHANGED <<shown, started, flashVars>>
          /\ \/ /\ Becomes(r, again) \/ Becomes(r, refused) \/ Becomes(r, toolate)
                /\ UNCHANGED <<active, outputVars>>
             \/ Finished(r, read) /\ Clear
             \/ Becomes(r, read) /\ UNCHANGED active /\ Clear
      BY <2>20 DEF CancelRead
    <3> HIDE DEF read, open, again, refused, toolate
    <3> QED BY <3>1, <3>2, <3>3, RunStepKeeps
  <2>9. ASSUME NEW r \in Runs, StoredAgain(r) PROVE SessionTypeOK'
    <3> DEFINE answered == [tab[r] EXCEPT !.calls = @ \ {"store"}]
    <3>1. answered \in RunType
      BY <2>0 DEF RunType
    <3>2. (IF active = r THEN Asked(answered) ELSE answered) \in RunType
      BY <3>1, RunsStayRuns
    <3> QED BY <2>9, <3>2, RunStepKeeps DEF StoredAgain
  <2>10. ASSUME NEW r \in Runs, TimerFires(r) PROVE SessionTypeOK'
    <3>1. [tab[r] EXCEPT !.timer = FALSE] \in RunType
      BY <2>0 DEF RunType
    <3>2. Asked([tab[r] EXCEPT !.timer = FALSE]) \in RunType
      BY <3>1, RunsStayRuns
    <3> QED BY <2>10, <3>2, RunStepKeeps DEF TimerFires
  <2>11. \A r \in Runs : StatusIn(r) \in RunType
    BY <2>0 DEF StatusIn, RunType
  <2>12. ASSUME NEW r \in Runs, StatusUnknown(r) PROVE SessionTypeOK'
    <3>1. (IF active = r THEN Scheduled(StatusIn(r)) ELSE StatusIn(r)) \in RunType
      BY <2>11, RunsStayRuns
    <3> QED BY <2>12, <3>1, RunStepKeeps DEF StatusUnknown
  <2>13. ASSUME NEW r \in Runs, StatusTold(r) PROVE SessionTypeOK'
    BY <2>11, <2>13, RunStepKeeps DEF StatusTold
  <2>14. ASSUME NEW r \in Runs, StreamDone(r) PROVE SessionTypeOK'
    BY <2>0, <2>14, RunStepKeeps DEF StreamDone
  <2>15. ASSUME NEW r \in Runs, StreamError(r) PROVE SessionTypeOK'
    BY <2>0, <2>15, RunsStayRuns, RunStepKeeps DEF StreamError
  <2>16. ASSUME NEW r \in Runs, JobEnds(r) \/ JobForgotten(r) PROVE SessionTypeOK'
    <3>1. /\ [tab[r] EXCEPT !.job = "over"] \in RunType
          /\ [tab[r] EXCEPT !.job = "forgotten"] \in RunType
      BY <2>0 DEF RunType
    <3> QED BY <2>16, <3>1, RunStepKeeps DEF JobEnds, JobForgotten
  <2>17. ASSUME NEW r \in Runs, Primed(r) PROVE SessionTypeOK'
    BY <2>17 DEF Primed, SessionTypeOK, flashVars
  <2>18. CASE FlashClicked
    BY <2>18, ClearKeeps DEF FlashClicked, SessionTypeOK, flashVars
  <2>19. CASE PortChosen \/ HexFetched \/ PortOpened \/ FlashEnds
    BY <2>19 DEF PortChosen, HexFetched, PortOpened, FlashEnds, SessionTypeOK, outputVars
  <2> QED
    BY <2>1, <2>2, <2>3, <2>4, <2>5, <2>6, <2>7, <2>8, <2>9, <2>10, <2>12, <2>13, <2>14,
       <2>15, <2>16, <2>17, <2>18, <2>19, <2>20 DEF SessionNext
<1> QED BY <1>1, <1>2, PTL DEF SessionSpec

\* The variables of flashEsp32() and of the chips keep to their ranges.
THEOREM FlasherTypes == FlasherSpec => []FlasherTypeOK
<1>1. FlashInv => FlasherTypeOK
  BY DEF FlashInv
<1> QED BY <1>1, FlashStartsOut, FlashSteps, PTL DEF FlasherSpec
=============================================================================
