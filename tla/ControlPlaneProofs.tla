------------------------- MODULE ControlPlaneProofs -------------------------
(***************************************************************************)
(* Proofs about the parts around the queue: the submission lock in real    *)
(* time, the slots of a host, the end of a worker, the autoscaler, the     *)
(* rate limit and the project quotas, one section each and in this order.  *)
(* They hold for any number of processes, slots, requests, windows and     *)
(* projects, and any timing the assumptions on the constants admit.        *)
(***************************************************************************)
EXTENDS MCControlPlane, TotalLemmas, FiniteSetTheorems, TLAPS

(***************************************************************************)
(* The submission lock: how long the lease has to be for it to exclude.    *)
(***************************************************************************)
\* Every round trip of the longest section, and of the SET before it, may take
\* as long as a command can.
LeaseSuffices == (1 + SubmitTrips) * CommandTimeout < TTL

\* A gateway inside a section has the lock for longer than the rest of the
\* section can take.
LeaseInv ==
  \A g \in Gateways :
    Inside(g) => lock = g /\ left[g] + (todo[g] - 1) * CommandTimeout < ttl

LEMMA MoreTrips ==
  ASSUME NEW a \in Nat, NEW b \in Nat, NEW t \in Nat, a <= b
  PROVE  a * t \in Nat /\ a * t <= b * t /\ (a + 1) * t = a * t + t
<1>1. PICK d \in Nat : b = a + d
  <2>1. b - a \in Nat /\ b = a + (b - a)
    OBVIOUS
  <2> QED BY <2>1
<1>2. b * t = a * t + d * t
  BY <1>1
<1>3. a * t \in Nat /\ d * t \in Nat
  OBVIOUS
<1> QED BY <1>2, <1>3

LEMMA Trips ==
  /\ SubmitTrips \in Nat /\ CancelTrips \in Nat /\ ReconcileTrips \in Nat
  /\ PrepareTrips \in Nat
  /\ CancelTrips <= SubmitTrips /\ ReconcileTrips <= SubmitTrips
  /\ PrepareTrips <= SubmitTrips
  BY LockConstants DEF LockConstants, SubmitTrips, LedgerTrips, CancelTrips, ReconcileTrips,
     PrepareTrips

LEMMA TypeInit == Init => TypeOK
  BY LockConstants, Trips DEF Init, TypeOK, LockConstants

LEMMA EnterTypes ==
  ASSUME TypeOK, NEW p \in Procs, NEW n \in Nat, n <= SubmitTrips, Enter(p, n)
  PROVE  TypeOK'
  BY LockConstants, Trips DEF Enter, TypeOK, LockConstants

LEMMA TypeNext == TypeOK /\ [Next]_vars => TypeOK'
<1> SUFFICES ASSUME TypeOK, [Next]_vars PROVE TypeOK'
  OBVIOUS
<1> USE LockConstants, Trips DEF LockConstants
<1>1. CASE Tick
  BY <1>1 DEF Tick, Remaining, TypeOK
<1>2. ASSUME NEW p \in Procs, Submit(p) \/ Cancel(p) \/ Reconcile(p) \/ Prepare(p)
      PROVE  TypeOK'
  BY <1>2, EnterTypes DEF Submit, Cancel, Reconcile, Prepare
<1>3. ASSUME NEW p \in Procs, RoundTrip(p) PROVE TypeOK'
  BY <1>3 DEF RoundTrip, TypeOK
<1>4. ASSUME NEW p \in Procs, Exit(p) PROVE TypeOK'
  BY <1>4 DEF Exit, Released, TypeOK
<1>5. ASSUME NEW p \in Procs, Die(p) PROVE TypeOK'
  BY <1>5 DEF Die, TypeOK
<1>6. CASE UNCHANGED vars
  BY <1>6 DEF vars, TypeOK
<1> QED BY <1>1, <1>2, <1>3, <1>4, <1>5, <1>6 DEF Next

LEMMA EnterLease ==
  ASSUME LeaseSuffices, TypeOK, LeaseInv, NEW p \in Procs, NEW n \in Nat,
         n <= SubmitTrips, Enter(p, n)
  PROVE  LeaseInv'
<1>1. \A g \in Gateways : ~Inside(g)
  BY LockConstants DEF Enter, LeaseInv, LockConstants, Procs
<1>2. (1 + n) * CommandTimeout < TTL
  <2>1. 1 + n \in Nat /\ 1 + SubmitTrips \in Nat /\ 1 + n <= 1 + SubmitTrips
    BY Trips
  <2>2. (1 + n) * CommandTimeout <= (1 + SubmitTrips) * CommandTimeout
    BY <2>1, MoreTrips, LockConstants DEF LockConstants
  <2>3. (1 + n) * CommandTimeout \in Nat /\ (1 + SubmitTrips) * CommandTimeout \in Nat
    BY <2>1, MoreTrips, LockConstants DEF LockConstants
  <2> QED BY <2>2, <2>3, LockConstants DEF LeaseSuffices, LockConstants
<1>3. CommandTimeout + n * CommandTimeout < TTL
  BY <1>2, MoreTrips, LockConstants DEF LockConstants
<1>4. /\ lock' = p /\ ttl' = TTL /\ todo'[p] = 1 + n /\ left'[p] = CommandTimeout
      /\ \A g \in Gateways \ {p} : todo'[g] = todo[g]
  BY DEF Enter, TypeOK
<1>5. (1 + n) - 1 = n
  OBVIOUS
<1> QED BY <1>1, <1>3, <1>4, <1>5 DEF LeaseInv, Inside, Procs

LEMMA LeaseNext ==
  ASSUME LeaseSuffices, TypeOK, LeaseInv, [Next]_vars
  PROVE  LeaseInv'
<1> USE LockConstants, Trips DEF LockConstants, Procs, Inside
<1>1. CASE Tick
  <2> SUFFICES ASSUME NEW g \in Gateways, Inside(g)'
               PROVE  lock' = g /\ left'[g] + (todo'[g] - 1) * CommandTimeout < ttl'
    BY DEF LeaseInv
  <2> DEFINE rest == (todo[g] - 1) * CommandTimeout
  <2>1. /\ Inside(g) /\ lock = g /\ left[g] + rest < ttl /\ left[g] > 0
        /\ todo[g] - 1 \in Nat /\ ttl \in Nat /\ left[g] \in Nat
    BY <1>1 DEF Tick, LeaseInv, TypeOK
  <2>2. rest \in Nat
    BY <2>1, MoreTrips
  <2>3. left'[g] = left[g] - 1 /\ ttl' = ttl - 1 /\ todo'[g] = todo[g]
    <3>1. ttl > 0
      BY <2>1, <2>2
    <3> QED BY <1>1, <2>1, <3>1 DEF Tick, Remaining
  <2> HIDE DEF rest
  <2>4. left'[g] + rest < ttl' /\ ttl' # 0
    BY <2>1, <2>2, <2>3
  <2>5. lock' = lock
    BY <1>1, <2>4 DEF Tick
  <2> QED BY <2>1, <2>3, <2>4, <2>5 DEF rest
<1>2. ASSUME NEW p \in Procs, Submit(p) \/ Cancel(p) \/ Reconcile(p) \/ Prepare(p)
      PROVE  LeaseInv'
  BY <1>2, EnterLease DEF Submit, Cancel, Reconcile, Prepare
<1>3. ASSUME NEW p \in Procs, RoundTrip(p) PROVE LeaseInv'
  <2> SUFFICES ASSUME NEW g \in Gateways, Inside(g)'
               PROVE  lock' = g /\ left'[g] + (todo'[g] - 1) * CommandTimeout < ttl'
    BY DEF LeaseInv
  <2>1. CASE g # p
    BY <1>3, <2>1 DEF RoundTrip, LeaseInv, TypeOK
  <2>2. CASE g = p
    <3>1. /\ lock' = g /\ ttl' = ttl /\ left'[g] = CommandTimeout /\ todo'[g] = todo[g] - 1
          /\ left[g] \in Nat /\ ttl \in Nat /\ todo[g] \in Nat /\ todo[g] - 2 \in Nat
          /\ left[g] + (todo[g] - 1) * CommandTimeout < ttl
      BY <1>3, <2>2 DEF RoundTrip, LeaseInv, TypeOK
    <3> DEFINE after == (todo[g] - 2) * CommandTimeout
    <3>2. (todo[g] - 1) * CommandTimeout = after + CommandTimeout /\ after \in Nat
      <4>1. ((todo[g] - 2) + 1) * CommandTimeout = after + CommandTimeout /\ after \in Nat
        BY <3>1, MoreTrips
      <4>2. (todo[g] - 2) + 1 = todo[g] - 1
        BY <3>1
      <4> QED BY <4>1, <4>2
    <3>3. todo'[g] - 1 = todo[g] - 2
      BY <3>1
    <3>4. left[g] + (after + CommandTimeout) < ttl
      BY <3>1, <3>2
    <3> HIDE DEF after
    <3>5. left'[g] + after < ttl'
      BY <3>1, <3>2, <3>4
    <3>6. lock' = g /\ (todo'[g] - 1) * CommandTimeout = after
      BY <3>1, <3>3 DEF after
    <3> QED BY <3>5, <3>6
  <2> QED BY <2>1, <2>2
<1>4. ASSUME NEW p \in Procs, Exit(p) PROVE LeaseInv'
  BY <1>4 DEF Exit, Released, LeaseInv, TypeOK
<1>5. ASSUME NEW p \in Procs, Die(p) PROVE LeaseInv'
  BY <1>5 DEF Die, LeaseInv, TypeOK
<1>6. CASE UNCHANGED vars
  BY <1>6 DEF vars, LeaseInv
<1> QED BY <1>1, <1>2, <1>3, <1>4, <1>5, <1>6 DEF Next

\* Every variable of the lock keeps to its range, for any lease and any trips.
THEOREM LockTypes == Spec => []TypeOK
  BY TypeInit, TypeNext, PTL DEF Spec

LEMMA LeaseHolds == LeaseSuffices => (Spec => [](TypeOK /\ LeaseInv))
<1> SUFFICES ASSUME LeaseSuffices PROVE Spec => [](TypeOK /\ LeaseInv)
  OBVIOUS
<1> DEFINE Inv == TypeOK /\ LeaseInv
<1>1. Init => Inv
  BY TypeInit DEF Init, LeaseInv, Inside, Procs
<1>2. Inv /\ [Next]_vars => Inv'
  BY TypeNext, LeaseNext
<1> QED BY <1>1, <1>2, PTL DEF Spec

\* If the TTL exceeds the SET and the longest section at one command timeout
\* per round trip, no gateway loses the lock midway, whatever number of
\* gateways and hanging workers there is (RedisCompileQueueLock.run).  The
\* defaults do not meet the premise: 12 * 1500 ms is more than 15 000 ms.
THEOREM LongLeaseExcludes == LeaseSuffices => (Spec => []LeaseOutlivesAdmission)
<1>1. LeaseInv => LeaseOutlivesAdmission
  BY DEF LeaseInv, LeaseOutlivesAdmission
<1> QED BY <1>1, LeaseHolds, PTL

(***************************************************************************)
(* The refinement: the lock is a permit for one.                           *)
(***************************************************************************)
Admitting == {g \in Gateways : Inside(g)}

LEMMA EnterPermits ==
  ASSUME TypeOK, LeaseInv, NEW p \in Procs, NEW n \in Nat, Enter(p, n)
  PROVE  [LockPermit!Next]_Admitting
<1>1. Admitting = {}
  BY LockConstants DEF Enter, LeaseInv, LockConstants, Procs, Admitting
<1>2. LockPermit!Cardinality(Admitting) < 1
  <2>1. Cardinality({}) = 0
    BY FS_EmptySet
  <2>2. LockPermit!Cardinality({}) = Cardinality({})
    BY Zenon DEF LockPermit!Cardinality, Cardinality
  <2> QED BY <1>1, <2>1, <2>2
<1>3. todo' = [todo EXCEPT ![p] = 1 + n]
  BY DEF Enter
<1>4. CASE p \in Gateways
  <2>1. Admitting' = Admitting \cup {p}
    BY <1>3, <1>4, LockConstants DEF Admitting, Inside, TypeOK, Procs
  <2> QED BY <1>1, <1>2, <1>4, <2>1 DEF LockPermit!Next, LockPermit!Enter, Admitting
<1>5. CASE p \notin Gateways
  BY <1>3, <1>5 DEF Admitting, Inside, TypeOK, Procs
<1> QED BY <1>4, <1>5

LEMMA LockPermitNext ==
  ASSUME TypeOK, LeaseInv, [Next]_vars
  PROVE  [LockPermit!Next]_Admitting
<1>1. ASSUME NEW p \in Procs, Submit(p) \/ Cancel(p) \/ Reconcile(p) \/ Prepare(p)
      PROVE  [LockPermit!Next]_Admitting
  BY <1>1, EnterPermits, Trips DEF Submit, Cancel, Reconcile, Prepare
<1>2. ASSUME NEW p \in Procs, RoundTrip(p) PROVE Admitting' = Admitting
  BY <1>2 DEF RoundTrip, Admitting, Inside, TypeOK, Procs
<1>3. ASSUME NEW p \in Procs, Exit(p) \/ Die(p)
      PROVE  [LockPermit!Next]_Admitting
  <2>1. todo' = [todo EXCEPT ![p] = 0]
    BY <1>3 DEF Exit, Die
  <2>2. Admitting' \subseteq Admitting
    BY <2>1 DEF Admitting, Inside, TypeOK, Procs
  <2> QED BY <2>2 DEF LockPermit!Next, LockPermit!Leave, Admitting
<1>4. CASE Tick \/ UNCHANGED vars
  BY <1>4 DEF Tick, vars, Admitting, Inside
<1> QED BY <1>1, <1>2, <1>3, <1>4 DEF Next

\* With such a lease the lock admits one gateway at a time, as its callers
\* take for granted.
THEOREM LockAdmitsOne == LeaseSuffices => (Spec => LockIsPermit)
<1>1. Init => LockPermit!Init
  BY DEF Init, LockPermit!Init, Inside, Procs
<1>2. TypeOK /\ LeaseInv /\ [Next]_vars => [LockPermit!Next]_Admitting
  BY LockPermitNext
<1> QED BY <1>1, <1>2, LeaseHolds, PTL DEF Spec, LockIsPermit, LockPermit!Spec, Admitting

(***************************************************************************)
(* The slots of a host: why the TTL of a slot is enough without renewals.  *)
(***************************************************************************)
Compiling == {w \in Workers : phase[w] = "compiling"}

\* A run that compiles has its slot for longer than its deadline, and the
\* timer of the deadline, can leave it.
SlotInv ==
  \A w \in Workers :
    /\ phase[w] \in {"compiling", "leaving"} => held[w] \in Slots
    /\ phase[w] = "compiling" =>
         token[held[w]] = w /\ budget[w] + Lag < slotTtl[held[w]]

HostInv == CapacityTypeOK /\ SlotInv

LEMMA HostInit == CapacityInit => HostInv
  BY CapacityConstants DEF CapacityConstants, CapacityInit, HostInv, CapacityTypeOK, SlotInv

LEMMA TakeSlotKeeps ==
  ASSUME HostInv, NEW w \in Workers, NEW s \in Slots, TakeSlot(w, s)
  PROVE  HostInv'
<1> USE CapacityConstants DEF CapacityConstants
<1>1. /\ phase[w] = "asking" /\ token[s] = Free
      /\ slotTtl' = [slotTtl EXCEPT ![s] = SlotTTL]
      /\ UNCHANGED <<budget, patience>>
      /\ CapacityTypeOK /\ SlotInv
  BY DEF TakeSlot, HostInv
<1>2. CASE /\ token' = [token EXCEPT ![s] = w]
           /\ phase' = [phase EXCEPT ![w] = "compiling"]
           /\ held' = [held EXCEPT ![w] = s]
           /\ untried' = [untried EXCEPT ![w] = {}]
  <2>1. CapacityTypeOK'
    BY <1>1, <1>2 DEF CapacityTypeOK
  <2>2. ASSUME NEW v \in Workers
        PROVE  /\ phase'[v] \in {"compiling", "leaving"} => held'[v] \in Slots
               /\ phase'[v] = "compiling" =>
                    token'[held'[v]] = v /\ budget'[v] + Lag < slotTtl'[held'[v]]
    <3>1. CASE v = w
      BY <1>1, <1>2, <3>1 DEF CapacityTypeOK
    <3>2. CASE v # w
      BY <1>1, <1>2, <3>2 DEF CapacityTypeOK, SlotInv
    <3> QED BY <3>1, <3>2
  <2> QED BY <2>1, <2>2 DEF HostInv, SlotInv
<1>3. CASE /\ token' = [token EXCEPT ![s] = Stray]
           /\ untried' = [untried EXCEPT ![w] = @ \ {s}]
           /\ UNCHANGED <<phase, held>>
  <2>1. CapacityTypeOK'
    BY <1>1, <1>3 DEF CapacityTypeOK
  <2>2. \A v \in Workers : phase[v] = "compiling" => held[v] # s
    BY <1>1 DEF SlotInv
  <2>3. SlotInv'
    BY <1>1, <1>3, <2>2 DEF CapacityTypeOK, SlotInv
  <2> QED BY <2>1, <2>3 DEF HostInv
<1> QED BY <1>1, <1>2, <1>3 DEF TakeSlot

LEMMA LeaveSlotKeeps ==
  ASSUME HostInv, NEW w \in Workers, LeaveSlot(w)
  PROVE  HostInv'
<1> USE CapacityConstants DEF CapacityConstants
<1> DEFINE s == held[w]
<1>1. /\ CapacityTypeOK /\ SlotInv /\ s \in Slots /\ phase[w] = "leaving"
      /\ phase' = [phase EXCEPT ![w] = "idle"]
      /\ held' = [held EXCEPT ![w] = Free]
      /\ slotTtl' = [r \in Slots |-> IF token'[r] = Free THEN 0 ELSE slotTtl[r]]
      /\ UNCHANGED <<untried, budget, patience>>
  BY DEF LeaveSlot, HostInv, SlotInv
<1>2. /\ token' \in [Slots -> Workers \cup {Free, Stray}]
      /\ \A r \in Slots : token[r] # w => token'[r] = token[r]
      /\ \A r \in Slots : token'[r] # Free => token[r] # Free
  <2>1. \/ token' = [token EXCEPT ![s] = IF token[s] = w THEN Free ELSE token[s]]
        \/ token' = [token EXCEPT ![s] = IF token[s] = w THEN Stray ELSE token[s]]
    BY DEF LeaveSlot, Returned
  <2> HIDE DEF s
  <2> QED BY <1>1, <2>1 DEF CapacityTypeOK
<1>3. CapacityTypeOK'
  BY <1>1, <1>2 DEF CapacityTypeOK
<1>4. ASSUME NEW v \in Workers
      PROVE  /\ phase'[v] \in {"compiling", "leaving"} => held'[v] \in Slots
             /\ phase'[v] = "compiling" =>
                  token'[held'[v]] = v /\ budget'[v] + Lag < slotTtl'[held'[v]]
  <2>1. CASE v = w
    BY <1>1, <2>1 DEF CapacityTypeOK
  <2>2. CASE v # w
    <3>1. phase'[v] = phase[v] /\ held'[v] = held[v] /\ budget'[v] = budget[v]
      BY <1>1, <2>2 DEF CapacityTypeOK
    <3>2. phase[v] = "compiling" =>
            token'[held[v]] = v /\ slotTtl'[held[v]] = slotTtl[held[v]]
      BY <1>1, <1>2, <2>2 DEF SlotInv
    <3> QED BY <1>1, <3>1, <3>2 DEF SlotInv
  <2> QED BY <2>1, <2>2
<1> QED BY <1>3, <1>4 DEF HostInv, SlotInv

LEMMA SlotTickKeeps ==
  ASSUME HostInv, CapacityTick
  PROVE  HostInv'
<1> USE CapacityConstants DEF CapacityConstants
<1>1. /\ CapacityTypeOK /\ SlotInv
      /\ slotTtl' = [s \in Slots |-> IF slotTtl[s] > 0 THEN slotTtl[s] - 1 ELSE 0]
      /\ token' = [s \in Slots |-> IF slotTtl'[s] = 0 THEN Free ELSE token[s]]
      /\ budget' = [w \in Workers |->
           IF budget[w] > -Lag /\ phase[w] \in {"asking", "compiling"}
             THEN budget[w] - 1 ELSE budget[w]]
      /\ UNCHANGED <<phase, held, untried>>
  BY DEF CapacityTick, HostInv, Down, BudgetFrom
<1>2. CapacityTypeOK'
  <2>1. slotTtl' \in [Slots -> 0..SlotTTL]
    BY <1>1 DEF CapacityTypeOK
  <2>2. \A s \in Slots : token'[s] = Free <=> slotTtl'[s] = 0
    BY <1>1 DEF CapacityTypeOK
  <2>3. budget' \in [Workers -> (-Lag)..JobTimeout]
    BY <1>1 DEF CapacityTypeOK
  <2>4. patience' \in [Workers -> 0..MaxWait]
    BY <1>1 DEF CapacityTick, Down, CapacityTypeOK
  <2> QED BY <1>1, <2>1, <2>2, <2>3, <2>4 DEF CapacityTypeOK
<1>3. ASSUME NEW w \in Workers, phase[w] = "compiling"
      PROVE  token'[held[w]] = w /\ budget'[w] + Lag < slotTtl'[held[w]]
  <2>1. budget[w] > -Lag
    BY <1>3 DEF CapacityTick
  <2>2. /\ held[w] \in Slots /\ token[held[w]] = w /\ budget[w] + Lag < slotTtl[held[w]]
        /\ budget[w] \in Int /\ slotTtl[held[w]] \in Nat
    BY <1>1, <1>3 DEF SlotInv, CapacityTypeOK
  <2>3. budget'[w] = budget[w] - 1 /\ slotTtl'[held[w]] = slotTtl[held[w]] - 1
    BY <1>1, <1>3, <2>1, <2>2
  <2> QED BY <1>1, <2>1, <2>2, <2>3
<1> QED BY <1>1, <1>2, <1>3 DEF HostInv, SlotInv

LEMMA HostNext == HostInv /\ [CapacityNext]_capacityVars => HostInv'
<1> SUFFICES ASSUME HostInv, [CapacityNext]_capacityVars PROVE HostInv'
  OBVIOUS
<1> USE CapacityConstants DEF CapacityConstants
<1>0. CapacityTypeOK /\ SlotInv
  BY DEF HostInv
<1>1. ASSUME NEW w \in Workers, Assign(w) PROVE HostInv'
  BY <1>0, <1>1 DEF Assign, HostInv, CapacityTypeOK, SlotInv
<1>2. ASSUME NEW w \in Workers, GiveUp(w) PROVE HostInv'
  BY <1>0, <1>2 DEF GiveUp, HostInv, CapacityTypeOK, SlotInv
<1>3. ASSUME NEW w \in Workers, AskAgain(w) PROVE HostInv'
  BY <1>0, <1>3 DEF AskAgain, HostInv, CapacityTypeOK, SlotInv
<1>4. ASSUME NEW w \in Workers, RenewSlot(w) PROVE HostInv'
  <2>1. /\ phase[w] = "compiling" /\ held[w] \in Slots /\ token[held[w]] = w
        /\ slotTtl' = [slotTtl EXCEPT ![held[w]] = SlotTTL]
        /\ UNCHANGED <<token, phase, held, untried, budget, patience>>
    BY <1>0, <1>4 DEF RenewSlot, SlotInv
  <2>2. CapacityTypeOK'
    BY <1>0, <2>1 DEF CapacityTypeOK
  <2>3. SlotInv'
    BY <1>0, <2>1 DEF CapacityTypeOK, SlotInv
  <2> QED BY <2>2, <2>3 DEF HostInv
<1>5. ASSUME NEW w \in Workers, TaskOver(w) PROVE HostInv'
  BY <1>0, <1>5 DEF TaskOver, HostInv, CapacityTypeOK, SlotInv
<1>6. ASSUME NEW w \in Workers, LeaveSlot(w) PROVE HostInv'
  BY <1>6, LeaveSlotKeeps
<1>7. ASSUME NEW w \in Workers, AbortJob(w) PROVE HostInv'
  BY <1>0, <1>7 DEF AbortJob, HostInv, CapacityTypeOK, SlotInv
<1>8. ASSUME NEW w \in Workers, WorkerDies(w) PROVE HostInv'
  <2>1. CapacityTypeOK'
    BY <1>0, <1>8 DEF WorkerDies, CapacityTypeOK
  <2>2. SlotInv'
    BY <1>0, <1>8 DEF WorkerDies, CapacityTypeOK, SlotInv
  <2> QED BY <2>1, <2>2 DEF HostInv
<1>9. ASSUME NEW w \in Workers, NEW s \in Slots, TakeSlot(w, s) PROVE HostInv'
  BY <1>9, TakeSlotKeeps
<1>10. ASSUME NEW w \in Workers, NEW s \in Slots, SlotTaken(w, s) PROVE HostInv'
  BY <1>0, <1>10 DEF SlotTaken, HostInv, CapacityTypeOK, SlotInv
<1>11. CASE CapacityTick
  BY <1>11, SlotTickKeeps
<1>12. CASE UNCHANGED capacityVars
  BY <1>0, <1>12 DEF capacityVars, HostInv, CapacityTypeOK, SlotInv
<1> QED
  BY <1>1, <1>2, <1>3, <1>4, <1>5, <1>6, <1>7, <1>8, <1>9, <1>10, <1>11, <1>12
  DEF CapacityNext

LEMMA HostInvHolds == CapacitySpec => []HostInv
  BY HostInit, HostNext, PTL DEF CapacitySpec

\* Every variable of the lease keeps to its range, for any number of workers
\* and slots and any timing the assumptions admit.
THEOREM CapacityTypes == CapacitySpec => []CapacityTypeOK
  BY HostInvHolds, PTL DEF HostInv

\* No renewal is needed: a bounded job never loses its slot while it compiles
\* (RedisCompileCapacity.run, and the TTL worker.ts gives it).
THEOREM SlotOutlivesJob == CapacitySpec => []CompilerOwnsSlot
<1>1. HostInv => CompilerOwnsSlot
  BY DEF HostInv, SlotInv, CompilerOwnsSlot
<1> QED BY <1>1, HostInvHolds, PTL

(***************************************************************************)
(* The refinement: the slots are permits.                                  *)
(***************************************************************************)
\* Those who have a seat each are no more than the seats.
LEMMA SeatsLimit ==
  ASSUME NEW P, NEW T, IsFiniteSet(T), NEW seat \in Injection(P, T)
  PROVE  IsFiniteSet(P) /\ Cardinality(P) <= Cardinality(T)
<1> DEFINE onto == seat \in Surjection(P, T)
<1>1. /\ IsFiniteSet(P)
      /\ Cardinality(P) <= Cardinality(T)
      /\ Cardinality(P) = Cardinality(T) <=> onto
  BY FS_Injection
<1> QED BY <1>1

\* Compiles have slots of their own, so there are no more of them than slots.
\* One that takes a slot that is free finds fewer of them.
LEMMA NoMoreThanSlots ==
  ASSUME SlotInv, NEW s \in Slots, token[s] = Free
  PROVE  /\ IsFiniteSet(Compiling)
         /\ Cardinality(Compiling) < Cardinality(Slots)
<1> DEFINE seat == [w \in Compiling |-> held[w]]
<1> DEFINE others == Slots \ {s}
<1>1. seat \in [Compiling -> others]
  BY CapacityConstants DEF SlotInv, Compiling, CapacityConstants
<1>2. \A v, w \in Compiling : seat[v] = seat[w] => v = w
  BY DEF SlotInv, Compiling
<1>3. seat \in Injection(Compiling, others)
  BY <1>1, <1>2 DEF Injection, IsInjective
<1>4. /\ IsFiniteSet(others) /\ IsFiniteSet(Slots)
      /\ Cardinality(others) = Cardinality(Slots) - 1
  BY CapacityConstants, FS_RemoveElement DEF CapacityConstants
<1>5. IsFiniteSet(Compiling) /\ Cardinality(Compiling) <= Cardinality(others)
  <2> HIDE DEF seat, others
  <2> QED BY <1>3, <1>4, SeatsLimit
<1>6. Cardinality(Compiling) \in Nat /\ Cardinality(Slots) \in Nat
  BY <1>4, <1>5, FS_CardinalityType
<1> HIDE DEF others
<1> QED BY <1>4, <1>5, <1>6

LEMMA PermitsNext ==
  ASSUME HostInv, HostInv', [CapacityNext]_capacityVars
  PROVE  [HostPermits!Next]_Compiling
<1>0. CapacityTypeOK /\ SlotInv /\ SlotInv'
  BY DEF HostInv
<1>1. ASSUME NEW w \in Workers, NEW s \in Slots, TakeSlot(w, s)
      PROVE  [HostPermits!Next]_Compiling
  <2>1. w \notin Compiling
    BY <1>1 DEF TakeSlot, Compiling
  <2>2. CASE phase' = [phase EXCEPT ![w] = "compiling"]
    <3>1. Compiling' = Compiling \cup {w}
      BY <1>0, <2>2 DEF Compiling, CapacityTypeOK
    <3>2. Cardinality(Compiling) < Cardinality(Slots)
      BY <1>0, <1>1, NoMoreThanSlots DEF TakeSlot
    <3>3. HostPermits!Cardinality(Compiling) = Cardinality(Compiling)
      BY Zenon DEF HostPermits!Cardinality, Cardinality
    <3> QED BY <2>1, <3>1, <3>2, <3>3 DEF HostPermits!Next, HostPermits!Enter, Compiling
  <2>3. CASE phase' = phase
    BY <2>3 DEF Compiling
  <2> QED BY <1>1, <2>2, <2>3 DEF TakeSlot
<1>2. ASSUME NEW w \in Workers,
             \/ Assign(w) \/ GiveUp(w) \/ AskAgain(w) \/ RenewSlot(w) \/ TaskOver(w)
             \/ LeaveSlot(w) \/ AbortJob(w) \/ WorkerDies(w)
             \/ \E s \in Slots : SlotTaken(w, s)
      PROVE  [HostPermits!Next]_Compiling
  <2>1. phase' \in {phase, [phase EXCEPT ![w] = "asking"], [phase EXCEPT ![w] = "idle"],
                    [phase EXCEPT ![w] = "leaving"]}
    BY <1>2 DEF Assign, GiveUp, AskAgain, RenewSlot, TaskOver, LeaveSlot, AbortJob,
       WorkerDies, SlotTaken
  <2>2. Compiling' \subseteq Compiling
    BY <1>0, <2>1 DEF Compiling, CapacityTypeOK
  <2> QED BY <2>2 DEF HostPermits!Next, HostPermits!Leave, Compiling
<1>3. CASE CapacityTick \/ UNCHANGED capacityVars
  BY <1>3 DEF CapacityTick, capacityVars, Compiling
<1> QED BY <1>1, <1>2, <1>3 DEF CapacityNext

\* The host never runs more compiles than it has slots, whatever workers die,
\* whatever answers are lost and however late a release arrives.
THEOREM SlotsArePermits == CapacitySpec => HostCapacityHolds
<1>1. CapacityInit => HostPermits!Init
  BY DEF CapacityInit, HostPermits!Init
<1>2. HostInv /\ HostInv' /\ [CapacityNext]_capacityVars => [HostPermits!Next]_Compiling
  BY PermitsNext
<1> QED
  BY <1>1, <1>2, HostInvHolds, PTL
  DEF CapacitySpec, HostCapacityHolds, HostPermits!Spec, Compiling

(***************************************************************************)
(* The end of a worker.                                                    *)
(***************************************************************************)

LEMMA LifecycleStarts == LifecycleInit => LifecycleTypeOK
BY LifecycleConstants DEF LifecycleInit, LifecycleTypeOK

LEMMA LifecycleKept ==
  LifecycleTypeOK /\ [LifecycleNext]_lifecycleVars => LifecycleTypeOK'
<1> SUFFICES ASSUME LifecycleTypeOK, [LifecycleNext]_lifecycleVars
             PROVE  LifecycleTypeOK'
  OBVIOUS
<1> USE LifecycleConstants DEF LifecycleTypeOK
<1>1. CASE Start \/ Beat \/ ServeBeat
  BY <1>1 DEF Start, Beat, ServeBeat
<1>2. CASE SendDel \/ ServeDel \/ DelFails \/ RedisHangs
  BY <1>2 DEF SendDel, ServeDel, DelFails, RedisHangs
<1>3. CASE Fetch \/ Deliver \/ FetchCut \/ JobEnds
  BY <1>3 DEF Fetch, Deliver, FetchCut, JobEnds
<1>4. CASE Shutdown \/ Paused
  BY <1>4 DEF Shutdown, Paused, DrainTime
<1>5. CASE Drained \/ TimedOut \/ PauseFailed
  BY <1>5 DEF Drained, TimedOut, PauseFailed, Resolve
<1>6. CASE Close \/ Disconnect \/ Killed
  BY <1>6 DEF Close, Disconnect, Killed
<1>7. CASE LifecycleTick
  BY <1>7 DEF LifecycleTick, LessOne
<1>8. CASE UNCHANGED lifecycleVars
  BY <1>8 DEF lifecycleVars
<1> QED
  BY <1>1, <1>2, <1>3, <1>4, <1>5, <1>6, <1>7, <1>8 DEF LifecycleNext

\* Every variable of the worker keeps to its range.
THEOREM LifecycleTypes == LifecycleSpec => []LifecycleTypeOK
BY LifecycleStarts, LifecycleKept, PTL DEF LifecycleSpec

\* The revocation is sent when no beat is under way, and no beat follows it.
RevokeIsLast ==
  /\ revoke \in {"sent", "settled"} => beats = 0
  /\ lifecycle \in {"starting", "running"} => revoke = "no"

\* The loop stops in the shutdown only, and by then has no job; a promise of
\* the shutdown is resolved in the shutdown only.
StopIsFinal ==
  /\ lifecycle \in {"starting", "running"} => loop # "stopped" /\ outcome = "none"
  /\ lifecycle = "draining" /\ loop = "stopped" => job = "none"

\* The drain timer was set when the job at work had at most its whole time.
TimerIsLater == lifecycle = "draining" /\ job = "early" => jobLeft <= drainLeft

DrainInv == RevokeIsLast /\ StopIsFinal /\ DrainedIsQuiet /\ TimerIsLater

LEMMA DrainInvStep ==
  ASSUME LifecycleTypeOK, DrainInv, [LifecycleNext]_lifecycleVars
  PROVE  DrainInv'
<1> USE DEF DrainInv, LifecycleTypeOK
<1>1. RevokeIsLast'
  BY DEF RevokeIsLast, LifecycleNext, lifecycleVars, Start, Beat, MayBeat, ServeBeat,
         SendDel, ServeDel, DelFails, RedisHangs, Fetch, Deliver, FetchCut, JobEnds,
         Shutdown, Paused, Drained, TimedOut, PauseFailed, Resolve, Close, Disconnect,
         Killed, LifecycleTick
<1>2. StopIsFinal'
  BY DEF StopIsFinal, LifecycleNext, lifecycleVars, Start, Beat, ServeBeat, SendDel,
         ServeDel, DelFails, RedisHangs, Fetch, Deliver, FetchCut, JobEnds, Shutdown,
         Paused, Drained, TimedOut, PauseFailed, Resolve, Close, Disconnect, Killed,
         LifecycleTick
<1>3. DrainedIsQuiet'
  <2> SUFFICES ASSUME outcome' = "drained"
               PROVE  /\ job' = "none" /\ loop' = "stopped"
                      /\ beats' = 0 /\ revoke' = "settled"
    BY DEF DrainedIsQuiet
  <2>1. CASE outcome = "drained"
    BY <2>1 DEF DrainedIsQuiet, StopIsFinal, LifecycleNext, lifecycleVars, Start, Beat,
         MayBeat, ServeBeat, SendDel, ServeDel, DelFails, RedisHangs, Fetch, Deliver,
         FetchCut, JobEnds, Shutdown, Paused, Drained, TimedOut, PauseFailed, Resolve,
         Close, Disconnect, Killed, LifecycleTick
  <2>2. CASE outcome # "drained"
    <3>1. Drained
      BY <2>2 DEF LifecycleNext, lifecycleVars, Start, Beat, ServeBeat, SendDel, ServeDel,
         DelFails, RedisHangs, Fetch, Deliver, FetchCut, JobEnds, Shutdown, Paused,
         TimedOut, PauseFailed, Resolve, Close, Disconnect, Killed, LifecycleTick
    <3> QED
      BY <3>1 DEF Drained, Quiescent, Resolve, RevokeIsLast, StopIsFinal
  <2> QED
    BY <2>1, <2>2
<1>4. TimerIsLater'
  <2> SUFFICES ASSUME lifecycle' = "draining", job' = "early"
               PROVE  jobLeft' <= drainLeft'
    BY DEF TimerIsLater
  <2>1. CASE Shutdown
    BY <2>1, LifecycleConstants DEF Shutdown, DrainTime
  <2>2. CASE LifecycleTick
    BY <2>2 DEF LifecycleTick, LessOne, TimerIsLater
  <2>3. CASE ~Shutdown /\ ~LifecycleTick
    BY <2>3 DEF TimerIsLater, LifecycleNext, lifecycleVars, Start, Beat, ServeBeat,
         SendDel, ServeDel, DelFails, RedisHangs, Fetch, Deliver, FetchCut, JobEnds,
         Paused, Drained, TimedOut, PauseFailed, Resolve, Close, Disconnect, Killed
  <2> QED
    BY <2>1, <2>2, <2>3
<1> QED
  BY <1>1, <1>2, <1>3, <1>4

LEMMA DrainInvAlways == LifecycleSpec => []DrainInv
<1>1. LifecycleInit => DrainInv
  BY DEF LifecycleInit, DrainInv, RevokeIsLast, StopIsFinal, DrainedIsQuiet, TimerIsLater
<1> QED
  BY <1>1, DrainInvStep, LifecycleTypes, PTL DEF LifecycleSpec

\* "drained" means that no job is left or can come, and that no command that
\* advertises the worker is under way.
THEOREM DrainedAlwaysQuiet == LifecycleSpec => []DrainedIsQuiet
<1>1. DrainInv => DrainedIsQuiet
  BY DEF DrainInv
<1> QED
  BY <1>1, DrainInvAlways, PTL

\* Once the revocation has settled, even by an error, the capability key of the
\* worker only runs out.
THEOREM RevokedForGood == LifecycleSpec => NeverReadvertised
<1>1. LifecycleTypeOK /\ DrainInv /\ [LifecycleNext]_lifecycleVars
        => [revoke = "settled" => key' <= key]_lifecycleVars
  <2> SUFFICES ASSUME LifecycleTypeOK, RevokeIsLast, LifecycleNext, revoke = "settled"
               PROVE  key' <= key
    BY DEF DrainInv
  <2> QED
    BY DEF LifecycleTypeOK, RevokeIsLast, LifecycleNext, Start, Beat, ServeBeat, SendDel,
         ServeDel, DelFails, RedisHangs, Fetch, Deliver, FetchCut, JobEnds, Shutdown,
         Paused, Drained, TimedOut, PauseFailed, Resolve, Close, Disconnect, Killed,
         LifecycleTick, LessOne
<1> QED
  BY <1>1, DrainInvAlways, LifecycleTypes, PTL DEF LifecycleSpec, NeverReadvertised

\* The drain timeout cuts off no job of before the shutdown that still had time.
THEOREM DrainNeverCutsShort == LifecycleSpec => DrainOutlivesJobs
<1>1. LifecycleTypeOK /\ DrainInv /\ [LifecycleNext]_lifecycleVars
        => [outcome = "none" /\ outcome' = "timeout" /\ job = "early"
              => jobLeft = 0]_lifecycleVars
  <2> SUFFICES ASSUME LifecycleTypeOK, TimerIsLater, LifecycleNext,
                      outcome = "none", outcome' = "timeout", job = "early"
               PROVE  jobLeft = 0
    BY DEF DrainInv
  <2>1. TimedOut
    BY DEF LifecycleNext, Start, Beat, ServeBeat, SendDel, ServeDel, DelFails, RedisHangs,
         Fetch, Deliver, FetchCut, JobEnds, Shutdown, Paused, Drained, PauseFailed,
         Resolve, Close, Disconnect, Killed, LifecycleTick
  <2> QED
    BY <2>1 DEF LifecycleTypeOK, TimerIsLater, TimedOut, TimerFires, Resolve
<1> QED
  BY <1>1, DrainInvAlways, LifecycleTypes, PTL DEF LifecycleSpec, DrainOutlivesJobs

(***************************************************************************)
(* The autoscaler.                                                         *)
(***************************************************************************)
\* What a decision that changes anything is, by load and replicas alone:
\* state and clock say whether there is a change, never which.
Share(n) == IF n > 0 THEN 1 ELSE PerReplica
Needed(a, n) == CeilDiv(a, Share(n))
Wanted(w, a, n) ==
  Clamp(Larger(IF w + a = 0 THEN MinReplicas ELSE CeilDiv(w + a, Share(n) * TargetJobs),
               Needed(a, n)))
Change(w, a, n) ==
  IF n < MinReplicas THEN [to |-> MinReplicas, reason |-> "below-minimum"]
  ELSE IF n > MaxReplicas
    THEN [to |-> MaxReplicas,
          reason |-> IF Needed(a, n) < n THEN "above-maximum" ELSE "steady"]
  ELSE IF Wanted(w, a, n) > n THEN [to |-> Wanted(w, a, n), reason |-> "scale-up"]
  ELSE [to |-> Larger(Larger(Wanted(w, a, n), Needed(a, n)), n - 1), reason |-> "scale-down"]

OrderFor(w, a, n) ==
  [queue |-> <<w, a>>, from |-> n, to |-> Change(w, a, n).to, why |-> Change(w, a, n).reason]

\* Records of the state that is kept in Redis.
Ages(s) == s = [since |-> s.since, idle |-> s.idle]
           /\ s.since \in 0..Long \cup {Never} /\ s.idle \in 0..Long \cup {Never}

ScaleRanges ==
  /\ waiting \in Nat /\ active \in Nat
  /\ replicas \in Nat /\ target \in MinReplicas..MaxReplicas
  /\ step \in {"off", "asleep", "posting", "recording"}
  /\ Ages(next) /\ Ages(saved)
  /\ calm \in BOOLEAN

\* The order that is about to be posted is one for the load and the replicas it
\* names; the one that the receiver has is one for the load there is, while calm.
OrderInv ==
  /\ step = "posting" =>
       /\ order.to \in MinReplicas..MaxReplicas
       /\ order = OrderFor(order.queue[1], order.queue[2], order.from)
  /\ calm => last = OrderFor(waiting, active, last.from)

ScaleInv == ScaleRanges /\ OrderInv

LEMMA LongIsNat == Long \in Nat
BY AutoscaleConstants DEF AutoscaleConstants, Long, Larger

\* Rounding up a division yields a number.
LEMMA CeilIsInt ==
  ASSUME NEW a \in Nat, NEW b \in Nat \ {0}
  PROVE  CeilDiv(a, b) \in Int
BY DEF CeilDiv

\* A decision that changes the replicas is that of the load and the replicas,
\* and keeps them between the bounds.
LEMMA DecisionIsOfTheLoad ==
  ASSUME ScaleRanges, NEW since, NEW idle, Decision(since, idle).to # replicas
  PROVE  /\ Decision(since, idle) = Change(waiting, active, replicas)
         /\ Decision(since, idle).to \in MinReplicas..MaxReplicas
<1> DEFINE n == replicas
           W == Wanted(waiting, active, replicas)
           F == Needed(active, replicas)
           D == Decision(since, idle)
<1>1. /\ waiting \in Nat /\ active \in Nat /\ n \in Nat
      /\ MinReplicas \in Nat /\ MaxReplicas \in Nat /\ MinReplicas <= MaxReplicas
      /\ TargetJobs \in Nat \ {0} /\ PerReplica \in Nat \ {0}
  BY AutoscaleConstants DEF AutoscaleConstants, ScaleRanges
<1>2. RawDesired = W /\ ActiveFloor = F
  BY DEF RawDesired, ActiveFloor, Wanted, Needed, Share, Average, Demand
<1>3. Share(n) \in Nat \ {0}
  BY <1>1 DEF Share
<1>4. F \in Int
  BY <1>1, <1>3, CeilIsInt DEF Needed
<1>5. W \in MinReplicas..MaxReplicas /\ (W < MaxReplicas => F <= W)
  <2>1. Share(n) * TargetJobs \in Nat \ {0}
    BY <1>1, <1>3
  <2>2. waiting + active \in Nat
    BY <1>1
  <2>3. CeilDiv(waiting + active, Share(n) * TargetJobs) \in Int
    BY <2>1, <2>2, CeilIsInt
  <2> QED BY <1>1, <1>4, <2>3 DEF Wanted, Clamp, Larger, Smaller
<1> HIDE DEF W, F
<1>6. CASE n < MinReplicas
  <2>1. D = [to |-> MinReplicas, reason |-> "below-minimum"]
    BY <1>6 DEF Decision
  <2>2. Change(waiting, active, n) = [to |-> MinReplicas, reason |-> "below-minimum"]
    BY <1>6 DEF Change
  <2> QED BY <1>1, <2>1, <2>2
<1>7. CASE ~(n < MinReplicas) /\ n > MaxReplicas
  <2>1. D = [to |-> MaxReplicas, reason |-> IF F < n THEN "above-maximum" ELSE "steady"]
    BY <1>2, <1>7 DEF Decision
  <2>2. Change(waiting, active, n)
          = [to |-> MaxReplicas, reason |-> IF F < n THEN "above-maximum" ELSE "steady"]
    BY <1>7 DEF Change, F
  <2> QED BY <1>1, <2>1, <2>2
<1>8. CASE ~(n < MinReplicas) /\ ~(n > MaxReplicas) /\ W > n
  <2>1. D = ScaleUp(since)
    BY <1>2, <1>8 DEF Decision
  <2>2. D = [to |-> W, reason |-> "scale-up"]
    <3>1. D = Keep("hysteresis") \/ D = Keep("cooldown") \/ D = [to |-> W, reason |-> "scale-up"]
      BY <1>2, <2>1 DEF ScaleUp, UpTarget
    <3> QED BY <3>1 DEF Keep
  <2>3. Change(waiting, active, n) = [to |-> W, reason |-> "scale-up"]
    BY <1>8 DEF Change, W
  <2> QED BY <1>5, <2>2, <2>3
<1>9. CASE ~(n < MinReplicas) /\ ~(n > MaxReplicas) /\ ~(W > n)
  <2> DEFINE down == [to |-> Larger(Larger(W, F), n - 1), reason |-> "scale-down"]
  <2>1. D = ScaleDown(since, idle) \/ D = Keep("steady")
    BY <1>2, <1>9 DEF Decision
  <2>2. D = ScaleDown(since, idle) /\ W < n
    <3>1. (D = ScaleDown(since, idle) /\ W < n) \/ D = Keep("steady")
      BY <1>2, <1>9 DEF Decision
    <3> QED BY <3>1 DEF Keep
  <2>3. D = down
    <3>1. D = Keep("idle-grace") \/ D = Keep("hysteresis") \/ D = Keep("cooldown") \/ D = down
      BY <1>2, <2>2 DEF ScaleDown
    <3> QED BY <3>1 DEF Keep
  <2>4. Change(waiting, active, n) = down
    BY <1>9 DEF Change, W, F
  <2>5. Larger(Larger(W, F), n - 1) \in MinReplicas..MaxReplicas
    BY <1>1, <1>4, <1>5, <1>9, <2>2 DEF Larger
  <2> QED BY <2>3, <2>4, <2>5
<1> QED BY <1>6, <1>7, <1>8, <1>9

LEMMA OlderAges ==
  ASSUME NEW age \in 0..Long \cup {Never}
  PROVE  Older(age) \in 0..Long \cup {Never}
BY LongIsNat DEF Older, Smaller

\* Observe plans an order only for a change, and the one for this load.
LEMMA ObserveKeeps ==
  ASSUME ScaleInv, Observe
  PROVE  /\ ScaleInv'
         /\ step' = "posting" => order' = OrderFor(waiting, active, replicas)
<1> DEFINE since == Older(saved.since)
           idle  == IF Demand > 0 THEN Never
                    ELSE IF saved.idle = Never THEN 0 ELSE Older(saved.idle)
           d     == Decision(since, idle)
<1>1. /\ step' = IF d.to # replicas THEN "posting" ELSE "recording"
      /\ order' = DecisionId(d, since)
      /\ next' = NextState(d, since, idle)
      /\ saved' = [since |-> since, idle |-> Older(saved.idle)]
      /\ UNCHANGED <<waiting, active, replicas, target, last, calm>>
  BY DEF Observe, queueVars, auditVars
<1>2. since \in 0..Long \cup {Never} /\ Older(saved.idle) \in 0..Long \cup {Never}
  BY OlderAges DEF ScaleInv, ScaleRanges, Ages
<1>3. idle \in 0..Long \cup {Never}
  BY <1>2, LongIsNat
<1> HIDE DEF since, idle
<1>4. Ages(saved')
  BY <1>1, <1>2 DEF Ages
<1>5. Ages(next')
  <2>1. next' = [since |-> IF d.to # replicas THEN 0 ELSE since, idle |-> idle]
    BY <1>1 DEF NextState
  <2>2. (IF d.to # replicas THEN 0 ELSE since) \in 0..Long \cup {Never}
    BY <1>2, LongIsNat
  <2> QED BY <1>3, <2>1, <2>2 DEF Ages
<1>6. order' = [queue |-> <<waiting, active>>, from |-> replicas, to |-> d.to, why |-> d.reason]
  BY <1>1 DEF DecisionId
<1>7. ASSUME step' = "posting"
      PROVE  /\ order' = OrderFor(waiting, active, replicas)
             /\ order'.to \in MinReplicas..MaxReplicas
  <2>1. d.to # replicas
    BY <1>1, <1>7
  <2>2. d = Change(waiting, active, replicas) /\ d.to \in MinReplicas..MaxReplicas
    BY <2>1, DecisionIsOfTheLoad DEF ScaleInv
  <2> QED BY <1>6, <2>2 DEF OrderFor
<1>8. ScaleRanges'
  BY <1>1, <1>4, <1>5 DEF ScaleInv, ScaleRanges
<1>9. OrderInv'
  <2>1. step' = "posting" =>
          /\ order'.to \in MinReplicas..MaxReplicas
          /\ order' = OrderFor(order'.queue[1], order'.queue[2], order'.from)
    <3>1. order'.queue[1] = waiting /\ order'.queue[2] = active /\ order'.from = replicas
      BY <1>6
    <3> QED BY <1>7, <3>1
  <2>2. calm' => last' = OrderFor(waiting', active', last'.from)
    BY <1>1 DEF ScaleInv, OrderInv
  <2> QED BY <2>1, <2>2 DEF OrderInv
<1> QED BY <1>7, <1>8, <1>9 DEF ScaleInv

\* The receiver has, from now on, the order of its load and its replicas.
LEMMA PostKeeps ==
  ASSUME ScaleInv, Post
  PROVE  ScaleInv'
<1>1. /\ step = "posting" /\ step' \in {"asleep", "recording"}
      /\ target' = order.to /\ last' = order
      /\ calm' = (replicas = order.from /\ <<waiting, active>> = order.queue)
      /\ UNCHANGED <<waiting, active, replicas, next, saved>>
  BY DEF Post
<1>2. /\ order.to \in MinReplicas..MaxReplicas
      /\ order = OrderFor(order.queue[1], order.queue[2], order.from)
  BY <1>1 DEF ScaleInv, OrderInv
<1>3. ScaleRanges'
  BY <1>1, <1>2 DEF ScaleInv, ScaleRanges
<1>4. ASSUME calm' PROVE last' = OrderFor(waiting', active', last'.from)
  <2>1. replicas = order.from /\ <<waiting, active>> = order.queue
    BY <1>1, <1>4, Zenon
  <2>2. order.queue[1] = waiting /\ order.queue[2] = active
    BY <2>1
  <2> QED BY <1>1, <1>2, <2>2
<1> QED BY <1>1, <1>3, <1>4 DEF ScaleInv, OrderInv

LEMMA ScaleStarts == AutoscaleInit => ScaleInv
<1> SUFFICES ASSUME AutoscaleInit PROVE ScaleInv
  OBVIOUS
<1>1. Ages(Blank)
  BY DEF Ages, Blank
<1>2. ScaleRanges
  <2>1. MinReplicas \in Nat /\ MinReplicas \in MinReplicas..MaxReplicas
    BY AutoscaleConstants DEF AutoscaleConstants
  <2>2. Ages(next) /\ Ages(saved)
    BY <1>1 DEF AutoscaleInit
  <2> QED BY <2>1, <2>2 DEF AutoscaleInit, ScaleRanges
<1>3. OrderInv
  BY DEF AutoscaleInit, OrderInv
<1> QED BY <1>2, <1>3 DEF ScaleInv

LEMMA ScaleSteps == ScaleInv /\ [AutoscaleNext]_autoscaleVars => ScaleInv'
<1> SUFFICES ASSUME ScaleInv, [AutoscaleNext]_autoscaleVars PROVE ScaleInv'
  OBVIOUS
<1>1. CASE StartService \/ PostFails \/ RecordFails
  BY <1>1 DEF StartService, PostFails, RecordFails, queueVars, auditVars, ScaleInv, ScaleRanges,
              OrderInv
<1>2. CASE Record \/ StateLost
  BY <1>2, LongIsNat DEF Record, StateLost, queueVars, auditVars, ScaleInv, ScaleRanges, OrderInv, Ages, Blank
<1>3. CASE QueueMoves
  <2>1. PICK load \in Loads : waiting' = load[1] /\ active' = load[2]
    BY <1>3 DEF QueueMoves
  <2>2. Loads \subseteq Nat \X Nat
    BY AutoscaleConstants DEF AutoscaleConstants
  <2>3. waiting' \in Nat /\ active' \in Nat
    BY <2>1, <2>2
  <2>4. calm' = FALSE /\ UNCHANGED <<replicas, target, step, order, next, saved>>
    BY <1>3 DEF QueueMoves
  <2> QED BY <2>3, <2>4 DEF ScaleInv, ScaleRanges, OrderInv
<1>4. CASE Orchestrate
  <2>1. target \in Nat /\ replicas \in Nat
    BY AutoscaleConstants DEF AutoscaleConstants, ScaleInv, ScaleRanges
  <2>2. replicas' \in Nat
    BY <1>4, <2>1 DEF Orchestrate
  <2> QED BY <1>4, <2>2 DEF Orchestrate, auditVars, ScaleInv, ScaleRanges, OrderInv
<1>5. CASE ReplicaFault
  <2>1. calm' = FALSE /\ UNCHANGED <<waiting, active, target, step, order, next, saved>>
    BY <1>5 DEF ReplicaFault
  <2>2. replicas' \in Nat
    BY <1>5 DEF ReplicaFault, ScaleInv, ScaleRanges
  <2> QED BY <2>1, <2>2 DEF ScaleInv, ScaleRanges, OrderInv
<1>6. CASE UNCHANGED autoscaleVars
  BY <1>6 DEF autoscaleVars, queueVars, auditVars, ScaleInv, ScaleRanges, OrderInv
<1> QED BY <1>1, <1>2, <1>3, <1>4, <1>5, <1>6, ObserveKeeps, PostKeeps DEF AutoscaleNext

LEMMA ScaleInvTypes == ScaleInv => AutoscaleTypeOK
BY DEF ScaleInv, ScaleRanges, Ages, AutoscaleTypeOK

\* The variables keep to their ranges: no order asks for fewer replicas than the
\* minimum or for more than the maximum, whatever the load and the replicas
\* (decideWorkerReplicas).
THEOREM OrdersKeepTheBounds == AutoscaleSpec => []AutoscaleTypeOK
BY ScaleInvTypes, ScaleStarts, ScaleSteps, PTL DEF AutoscaleSpec

\* An order that the receiver has already is never posted under another
\* decisionId while load and replicas are what they were: the hash leaves out
\* the time, and what is decided depends on it only in whether to decide.
THEOREM RetriesAreIdempotent == AutoscaleSpec => RetryIsIdempotent
<1>1. ScaleInv /\ [AutoscaleNext]_autoscaleVars
        => [Decides /\ calm /\ replicas = last.from => order' = last]_autoscaleVars
  <2>1. SUFFICES ASSUME ScaleInv, AutoscaleNext, Decides, calm, replicas = last.from
                 PROVE  order' = last
    OBVIOUS
  <2>2. Observe
    BY <2>1 DEF Decides, AutoscaleNext, StartService, Post, PostFails, Record, RecordFails, StateLost,
                QueueMoves, Orchestrate, ReplicaFault
  <2>3. order' = OrderFor(waiting, active, replicas)
    BY <2>1, <2>2, ObserveKeeps DEF Decides
  <2>4. last = OrderFor(waiting, active, last.from)
    BY <2>1 DEF ScaleInv, OrderInv
  <2> QED BY <2>1, <2>3, <2>4
<1> QED BY <1>1, ScaleStarts, ScaleSteps, PTL DEF AutoscaleSpec, RetryIsIdempotent

(***************************************************************************)
(* The rate limit: what is charged, and why no window grants commands that *)
(* come within the slack more than its budget.                             *)
(***************************************************************************)
\* What a request has paid at each stage.
PayInv ==
  \A r \in Requests :
    /\ stage[r] \in {"new", "base"} => paid[r] = 0
    /\ stage[r] \in {"parsed", "rest"} => paid[r] = BaseCost
    /\ stage[r] = "rest" => FullCost[r] > BaseCost
    /\ stage[r] = "admitted" => paid[r] = FullCost[r]

ChargeInv == RateTypeOK /\ PayInv

LEMMA CostIsPositive ==
  ASSUME ChargeInv, NEW r \in Requests, UnderWay(r)
  PROVE  Cost(r) \in Nat \ {0}
BY RateConstants DEF ChargeInv, RateTypeOK, PayInv, UnderWay, Cost, BaseCost, Remainder

LEMMA SendKeeps ==
  ASSUME ChargeInv, NEW r \in Requests, NEW to \in {"base", "rest"}, Send(r, to),
         to = "base" => stage[r] = "new",
         to = "rest" => stage[r] = "parsed" /\ Remainder(r) > 0
  PROVE  ChargeInv'
<1> USE RateConstants
<1>1. /\ bucket' \in [Requests -> Buckets]
      /\ stage' = [stage EXCEPT ![r] = to] /\ due' = [due EXCEPT ![r] = AnswerTime]
      /\ resent' = [resent EXCEPT ![r] = FALSE]
      /\ UNCHANGED <<clock, counts, expires, paid, punctual>>
  BY DEF Send, ChargeInv, RateTypeOK
<1>2. RateTypeOK'
  BY <1>1 DEF ChargeInv, RateTypeOK
<1>3. PayInv'
  BY <1>1 DEF ChargeInv, RateTypeOK, PayInv, Remainder, BaseCost
<1> QED BY <1>2, <1>3 DEF ChargeInv

LEMMA ChargeCounts ==
  ASSUME ChargeInv, NEW r \in Requests, Charge(r)
  PROVE  /\ counts' \in [Keys -> Nat] /\ \A k \in Keys : counts'[k] <= Budget[k[1]]
         /\ expires' \in [Keys -> 0..(Window + Slack)]
         /\ \A k \in Keys : counts'[k] > 0 <=> expires'[k] > 0
         /\ punctual' \in [Keys -> Nat]
<1> DEFINE c == Cost(r)
           T == Touched(r)
<1>1. c \in Nat \ {0}
  BY CostIsPositive DEF Charge
<1>2. /\ counts' = [k \in Keys |-> IF k \in T THEN counts[k] + c ELSE counts[k]]
      /\ expires' = [k \in Keys |-> IF k \in T /\ expires[k] = 0 THEN Life ELSE expires[k]]
      /\ \/ punctual' = [k \in Keys |->
              IF k \in T /\ InTime(k[2]) THEN punctual[k] + c ELSE punctual[k]]
         \/ UNCHANGED punctual
      /\ \A k \in T : counts[k] + c <= Budget[k[1]]
  BY DEF Charge, Fits
<1>3. Life \in 0..(Window + Slack) /\ Life > 0
  BY RateConstants DEF Life
<1>4. /\ counts \in [Keys -> Nat] /\ \A k \in Keys : counts[k] <= Budget[k[1]]
      /\ expires \in [Keys -> 0..(Window + Slack)]
      /\ \A k \in Keys : counts[k] > 0 <=> expires[k] > 0
      /\ punctual \in [Keys -> Nat]
  BY DEF ChargeInv, RateTypeOK
<1> HIDE DEF c, T
<1> QED BY <1>1, <1>2, <1>3, <1>4

LEMMA ChargeKeeps ==
  ASSUME ChargeInv, NEW r \in Requests, Charge(r)
  PROVE  ChargeInv'
<1> USE RateConstants
<1> DEFINE c == Cost(r)
<1>1. UnderWay(r) /\ c \in Nat \ {0}
  BY CostIsPositive DEF Charge
<1>2. /\ \/ /\ stage' = [stage EXCEPT ![r] = IF @ = "base" THEN "parsed" ELSE "admitted"]
            /\ paid' = [paid EXCEPT ![r] = @ + c]
            /\ UNCHANGED resent
         \/ resent' = [resent EXCEPT ![r] = TRUE] /\ UNCHANGED <<stage, paid>>
         \/ stage' = [stage EXCEPT ![r] = "failed"] /\ UNCHANGED <<resent, paid>>
      /\ UNCHANGED <<clock, bucket, due>>
  BY DEF Charge
<1>3. RateTypeOK'
  <2>1. /\ counts' \in [Keys -> Nat] /\ \A k \in Keys : counts'[k] <= Budget[k[1]]
        /\ expires' \in [Keys -> 0..(Window + Slack)]
        /\ \A k \in Keys : counts'[k] > 0 <=> expires'[k] > 0
        /\ punctual' \in [Keys -> Nat]
    BY ChargeCounts
  <2>2. /\ stage' \in [Requests ->
              {"new", "base", "parsed", "rest", "admitted", "refused", "failed"}]
        /\ paid' \in [Requests -> Nat] /\ resent' \in [Requests -> BOOLEAN]
    <3>1. /\ stage \in [Requests ->
                {"new", "base", "parsed", "rest", "admitted", "refused", "failed"}]
          /\ paid \in [Requests -> Nat] /\ resent \in [Requests -> BOOLEAN]
      BY DEF ChargeInv, RateTypeOK
    <3>2. c \in Nat
      BY <1>1
    <3> HIDE DEF c
    <3>3. stage' \in [Requests ->
            {"new", "base", "parsed", "rest", "admitted", "refused", "failed"}]
      BY <1>2, <3>1
    <3>4. paid' \in [Requests -> Nat]
      BY <1>2, <3>1, <3>2
    <3>5. resent' \in [Requests -> BOOLEAN]
      BY <1>2, <3>1
    <3> QED BY <3>3, <3>4, <3>5
  <2> QED BY <1>2, <2>1, <2>2 DEF ChargeInv, RateTypeOK
<1>4. PayInv'
  BY <1>1, <1>2 DEF ChargeInv, RateTypeOK, PayInv, UnderWay, Cost, Remainder, BaseCost
<1> QED BY <1>3, <1>4 DEF ChargeInv

LEMMA EndsKeeps ==
  ASSUME ChargeInv, NEW r \in Requests,
         \/ stage' = [stage EXCEPT ![r] = "refused"]
         \/ stage' = [stage EXCEPT ![r] = "failed"]
         \/ /\ stage[r] = "parsed" /\ Remainder(r) <= 0
            /\ stage' = [stage EXCEPT ![r] = "admitted"],
         UNCHANGED <<clock, counts, expires, bucket, due, resent, paid, punctual>>
  PROVE  ChargeInv'
<1> USE RateConstants
<1>1. RateTypeOK'
  BY DEF ChargeInv, RateTypeOK
<1>2. /\ stage \in [Requests ->
            {"new", "base", "parsed", "rest", "admitted", "refused", "failed"}]
      /\ paid \in [Requests -> Nat] /\ paid' = paid /\ FullCost \in [Requests -> Nat \ {0}]
      /\ PayInv
  BY DEF ChargeInv, RateTypeOK
<1>3. PayInv'
  BY <1>2 DEF PayInv, Remainder, BaseCost
<1> QED BY <1>1, <1>3 DEF ChargeInv

LEMMA RateTickKeeps ==
  ASSUME ChargeInv, RateTick
  PROVE  ChargeInv'
<1>1. RateTypeOK'
  <2>1. /\ clock' \in 0..MaxTime /\ due' \in [Requests -> 0..AnswerTime]
        /\ expires' \in [Keys -> 0..(Window + Slack)]
        /\ UNCHANGED <<stage, bucket, resent, paid, punctual>>
    BY RateConstants DEF ChargeInv, RateTypeOK, RateTick, Less
  <2>2. /\ counts' \in [Keys -> Nat] /\ \A k \in Keys : counts'[k] <= Budget[k[1]]
        /\ \A k \in Keys : counts'[k] > 0 <=> expires'[k] > 0
    <3> SUFFICES ASSUME NEW k \in Keys
                 PROVE  /\ counts'[k] \in Nat /\ counts'[k] <= Budget[k[1]]
                        /\ counts'[k] > 0 <=> expires'[k] > 0
      BY DEF RateTick
    <3>1. /\ counts[k] \in Nat /\ counts[k] <= Budget[k[1]] /\ expires[k] \in Nat
          /\ k[1] \in Counters
          /\ counts[k] > 0 <=> expires[k] > 0
      BY DEF ChargeInv, RateTypeOK, Keys
    <3>2. /\ expires'[k] \in {expires[k], expires[k] - 1}
          /\ expires[k] = 0 => expires'[k] = 0
          /\ counts'[k] = IF expires'[k] = 0 THEN 0 ELSE counts[k]
          /\ expires'[k] \in Nat
      BY <3>1 DEF RateTick, Less
    <3> QED BY <3>1, <3>2, RateConstants
  <2> QED BY <2>1, <2>2 DEF ChargeInv, RateTypeOK
<1>2. PayInv'
  BY DEF ChargeInv, PayInv, RateTick
<1> QED BY <1>1, <1>2 DEF ChargeInv

LEMMA ChargeStarts == RateInit => ChargeInv
BY RateConstants DEF RateInit, ChargeInv, RateTypeOK, PayInv, Keys, Buckets

LEMMA ChargeKept == ChargeInv /\ [RateNext]_rateVars => ChargeInv'
<1> SUFFICES ASSUME ChargeInv, [RateNext]_rateVars
             PROVE  ChargeInv'
  OBVIOUS
<1>1. CASE RateTick
  BY <1>1, RateTickKeeps
<1>2. ASSUME NEW r \in Requests, Request(r)
      PROVE  ChargeInv'
  BY <1>2, SendKeeps DEF Request
<1>3. ASSUME NEW r \in Requests, ChargeArchitecture(r)
      PROVE  ChargeInv'
  BY <1>3, SendKeeps, EndsKeeps DEF ChargeArchitecture
<1>4. ASSUME NEW r \in Requests, Charge(r)
      PROVE  ChargeInv'
  BY <1>4, ChargeKeeps
<1>5. ASSUME NEW r \in Requests, Refuse(r) \/ CommandFails(r)
      PROVE  ChargeInv'
  BY <1>5, EndsKeeps DEF Refuse, CommandFails
<1>6. CASE UNCHANGED rateVars
  BY <1>6 DEF rateVars, ChargeInv, RateTypeOK, PayInv
<1> QED BY <1>1, <1>2, <1>3, <1>4, <1>5, <1>6 DEF RateNext

LEMMA ChargeInvAlways == RateSpec => []ChargeInv
BY ChargeStarts, ChargeKept, PTL DEF RateSpec

\* Every variable keeps to its range, no counter exceeds its budget, and one
\* that counts has a TTL.
THEOREM RateTypes == RateSpec => []RateTypeOK
<1>1. ChargeInv => RateTypeOK
  BY DEF ChargeInv
<1> QED BY <1>1, ChargeInvAlways, PTL

\* An admitted compile has paid the cost of its architecture.
THEOREM AdmittedHasPaid == RateSpec => []PaysInFull
<1>1. ChargeInv => PaysInFull
  BY DEF ChargeInv, PayInv, PaysInFull
<1> QED BY <1>1, ChargeInvAlways, PTL

-----------------------------------------------------------------------------
(* The budget of a window. *)

\* Until when a command of the bucket comes in time.
LastCall(b) == (b + 1) * Window + Slack - Ahead

LEMMA LastCallOf ==
  ASSUME NEW b \in Buckets
  PROVE  b * Window \in Nat /\ LastCall(b) = b * Window + Life - Ahead
BY RateConstants DEF LastCall, Buckets, Life

\* A command under way is of a bucket that has begun, by the fastest clock.
CommandInv ==
  \A r \in Requests : UnderWay(r) => bucket[r] * Window <= clock + Ahead

\* A counter lives as long as commands of its bucket come in time, and until
\* then it counts all that they were granted.
BudgetInv ==
  \A k \in Keys :
    /\ expires[k] > 0 => clock + expires[k] >= LastCall(k[2])
    /\ punctual[k] <= counts[k] \/ clock >= LastCall(k[2])
    /\ punctual[k] <= Budget[k[1]]

WindowInv == CommandInv /\ BudgetInv

LEMMA KeysHaveBuckets == ASSUME NEW k \in Keys PROVE k[1] \in Counters /\ k[2] \in Buckets
BY DEF Keys

LEMMA SendKeepsWindows ==
  ASSUME ChargeInv, WindowInv, NEW r \in Requests, NEW to \in {"base", "rest"}, Send(r, to)
  PROVE  WindowInv'
<1>1. PICK b \in Buckets :
        b * Window <= clock + Offset[r] /\ bucket' = [bucket EXCEPT ![r] = b]
  BY DEF Send
<1>2. stage' = [stage EXCEPT ![r] = to] /\ UNCHANGED <<clock, counts, expires, punctual>>
  BY DEF Send
<1>3. CommandInv'
  <2> SUFFICES ASSUME NEW q \in Requests, UnderWay(q)'
               PROVE  bucket'[q] * Window <= clock' + Ahead
    BY DEF CommandInv
  <2>1. CASE q = r
    <3>1. bucket'[q] = b
      BY <1>1, <2>1 DEF ChargeInv, RateTypeOK
    <3>2. clock \in Nat /\ Offset[r] \in 0..Ahead /\ b * Window \in Nat /\ Ahead \in Nat
      BY RateConstants, LastCallOf DEF ChargeInv, RateTypeOK
    <3> QED BY <1>1, <1>2, <3>1, <3>2
  <2>2. CASE q # r
    <3>1. bucket'[q] = bucket[q] /\ UnderWay(q)
      BY <1>1, <1>2, <2>2 DEF ChargeInv, RateTypeOK, UnderWay
    <3> QED BY <1>2, <3>1 DEF WindowInv, CommandInv
  <2> QED BY <2>1, <2>2
<1>4. BudgetInv'
  BY <1>2 DEF WindowInv, BudgetInv, LastCall
<1> QED BY <1>3, <1>4 DEF WindowInv

LEMMA ChargeKeepsWindows ==
  ASSUME ChargeInv, WindowInv, NEW q \in Requests, Charge(q)
  PROVE  WindowInv'
<1>1. /\ UnderWay(q) /\ UNCHANGED <<clock, bucket, due>>
      /\ \A r \in Requests : UnderWay(r)' => UnderWay(r)
  BY DEF Charge, UnderWay, ChargeInv, RateTypeOK
<1>2. CommandInv'
  BY <1>1 DEF WindowInv, CommandInv
<1>3. BudgetInv'
  <2> SUFFICES ASSUME NEW k \in Keys
               PROVE  /\ expires'[k] > 0 => clock' + expires'[k] >= LastCall(k[2])
                      /\ punctual'[k] <= counts'[k] \/ clock' >= LastCall(k[2])
                      /\ punctual'[k] <= Budget[k[1]]
    BY DEF BudgetInv, LastCall
  <2> DEFINE c == Cost(q)
             b == k[2]
  <2>1. /\ k[1] \in Counters /\ b \in Buckets
        /\ b * Window \in Nat /\ LastCall(b) = b * Window + Life - Ahead
    BY KeysHaveBuckets, LastCallOf
  <2>2. /\ c \in Nat \ {0} /\ clock \in Nat /\ clock' = clock /\ Life \in Nat /\ Ahead \in Nat
        /\ counts[k] \in Nat /\ punctual[k] \in Nat /\ expires[k] \in Nat
        /\ Budget[k[1]] \in Nat
    BY <1>1, <2>1, CostIsPositive, RateConstants DEF ChargeInv, RateTypeOK, Life
  <2>3. /\ expires[k] > 0 => clock + expires[k] >= LastCall(b)
        /\ punctual[k] <= counts[k] \/ clock >= LastCall(b)
        /\ punctual[k] <= Budget[k[1]]
    BY DEF WindowInv, BudgetInv
  <2>4. CASE k \in Touched(q)
    <3>1. b * Window <= clock + Ahead
      BY <1>1, <2>4 DEF Touched, WindowInv, CommandInv
    <3>2. /\ expires'[k] = IF expires[k] = 0 THEN Life ELSE expires[k]
          /\ counts'[k] = counts[k] + c /\ counts'[k] <= Budget[k[1]]
      BY <2>4 DEF Charge, Fits, ChargeInv, RateTypeOK
    <3>3. \/ punctual'[k] = punctual[k]
          \/ clock < LastCall(b) /\ punctual'[k] = punctual[k] + c
      BY <2>4 DEF Charge, ChargeInv, RateTypeOK, InTime, LastCall
    <3> HIDE DEF c, b
    <3> QED BY <2>1, <2>2, <2>3, <3>1, <3>2, <3>3 DEF b
  <2>5. CASE k \notin Touched(q)
    <3>1. expires'[k] = expires[k] /\ counts'[k] = counts[k] /\ punctual'[k] = punctual[k]
      BY <2>5 DEF Charge
    <3> QED BY <2>2, <2>3, <3>1
  <2> QED BY <2>4, <2>5
<1> QED BY <1>2, <1>3 DEF WindowInv

LEMMA TickKeepsWindows ==
  ASSUME ChargeInv, WindowInv, RateTick
  PROVE  WindowInv'
<1>1. CommandInv'
  <2> SUFFICES ASSUME NEW r \in Requests, UnderWay(r)'
               PROVE  bucket'[r] * Window <= clock' + Ahead
    BY DEF CommandInv
  <2>1. UnderWay(r) /\ bucket' = bucket /\ clock' = clock + 1
    BY DEF RateTick, UnderWay
  <2>2. bucket[r] * Window <= clock + Ahead /\ bucket[r] \in Buckets
    BY <2>1 DEF WindowInv, CommandInv, ChargeInv, RateTypeOK
  <2>3. bucket[r] * Window \in Nat /\ clock \in Nat /\ Ahead \in Nat
    BY <2>2, LastCallOf, RateConstants DEF ChargeInv, RateTypeOK
  <2> QED BY <2>1, <2>2, <2>3
<1>2. BudgetInv'
  <2> SUFFICES ASSUME NEW k \in Keys
               PROVE  /\ expires'[k] > 0 => clock' + expires'[k] >= LastCall(k[2])
                      /\ punctual'[k] <= counts'[k] \/ clock' >= LastCall(k[2])
                      /\ punctual'[k] <= Budget[k[1]]
    BY DEF BudgetInv, LastCall
  <2> DEFINE call == LastCall(k[2])
  <2>1. call \in Int
    BY KeysHaveBuckets, LastCallOf, RateConstants DEF Life
  <2>2. /\ clock \in Nat /\ clock' = clock + 1
        /\ counts[k] \in Nat /\ punctual[k] \in Nat /\ expires[k] \in Nat
        /\ counts[k] > 0 <=> expires[k] > 0
        /\ punctual' = punctual
        /\ expires'[k] = (IF expires[k] > 0 THEN expires[k] - 1 ELSE 0)
        /\ counts'[k] = (IF expires'[k] = 0 THEN 0 ELSE counts[k])
    BY RateConstants DEF ChargeInv, RateTypeOK, RateTick, Less
  <2>3. /\ expires[k] > 0 => clock + expires[k] >= call
        /\ punctual[k] <= counts[k] \/ clock >= call
        /\ punctual[k] <= Budget[k[1]]
    BY DEF WindowInv, BudgetInv
  <2> HIDE DEF call
  <2>4. /\ expires'[k] > 0 => clock' + expires'[k] >= call
        /\ punctual'[k] <= counts'[k] \/ clock' >= call
    BY <2>1, <2>2, <2>3
  <2> QED BY <2>2, <2>3, <2>4 DEF call
<1> QED BY <1>1, <1>2 DEF WindowInv

LEMMA EndsKeepsWindows ==
  ASSUME WindowInv, UNCHANGED <<clock, counts, expires, bucket, punctual>>,
         \A r \in Requests : UnderWay(r)' => UnderWay(r)
  PROVE  WindowInv'
BY DEF WindowInv, CommandInv, BudgetInv, LastCall

\* Whatever the clocks of the gateways, the command timeout and the slack, a
\* window grants the commands that come within its slack no more than any of
\* its budgets.
THEOREM NoWindowOverspends == RateSpec => []WindowBounded
<1>1. RateInit => WindowInv
  <2> SUFFICES ASSUME RateInit
               PROVE  WindowInv
    OBVIOUS
  <2>1. CommandInv
    BY DEF RateInit, CommandInv, UnderWay
  <2>2. BudgetInv
    <3> SUFFICES ASSUME NEW k \in Keys
                 PROVE  /\ expires[k] = 0 /\ punctual[k] = 0 /\ counts[k] = 0
                        /\ Budget[k[1]] \in Nat
      BY DEF BudgetInv
    <3> QED BY RateConstants, KeysHaveBuckets DEF RateInit
  <2> QED BY <2>1, <2>2 DEF WindowInv
<1>2. ChargeInv /\ WindowInv /\ [RateNext]_rateVars => WindowInv'
  <2> SUFFICES ASSUME ChargeInv, WindowInv, [RateNext]_rateVars
               PROVE  WindowInv'
    OBVIOUS
  <2>1. CASE RateTick
    BY <2>1, TickKeepsWindows
  <2>2. ASSUME NEW r \in Requests, Request(r)
        PROVE  WindowInv'
    BY <2>2, SendKeepsWindows DEF Request
  <2>3. ASSUME NEW r \in Requests, ChargeArchitecture(r)
        PROVE  WindowInv'
    <3>1. CASE Send(r, "rest")
      BY <3>1, SendKeepsWindows
    <3>2. CASE ~Send(r, "rest")
      <4>1. /\ UNCHANGED <<clock, counts, expires, bucket, punctual>>
            /\ \A q \in Requests : UnderWay(q)' => UnderWay(q)
        BY <2>3, <3>2 DEF ChargeArchitecture, UnderWay, ChargeInv, RateTypeOK
      <4> QED BY <4>1, EndsKeepsWindows
    <3> QED BY <3>1, <3>2
  <2>4. ASSUME NEW r \in Requests, Charge(r)
        PROVE  WindowInv'
    BY <2>4, ChargeKeepsWindows
  <2>5. ASSUME NEW r \in Requests, Refuse(r) \/ CommandFails(r)
        PROVE  WindowInv'
    <3>1. /\ UNCHANGED <<clock, counts, expires, bucket, punctual>>
          /\ \A q \in Requests : UnderWay(q)' => UnderWay(q)
      BY <2>5 DEF Refuse, CommandFails, UnderWay, ChargeInv, RateTypeOK
    <3> QED BY <3>1, EndsKeepsWindows
  <2>6. CASE UNCHANGED rateVars
    <3>1. /\ UNCHANGED <<clock, counts, expires, bucket, punctual>>
          /\ \A q \in Requests : UnderWay(q)' => UnderWay(q)
      BY <2>6 DEF rateVars, UnderWay
    <3> QED BY <3>1, EndsKeepsWindows
  <2> QED BY <2>1, <2>2, <2>3, <2>4, <2>5, <2>6 DEF RateNext
<1>3. WindowInv => WindowBounded
  BY DEF WindowInv, BudgetInv, WindowBounded
<1> QED BY <1>1, <1>2, <1>3, ChargeInvAlways, PTL DEF RateSpec

(***************************************************************************)
(* The books of the cloud projects.                                        *)
(***************************************************************************)
QuotaRanges ==
  /\ stored \in [Tokens -> Sizes \cup {0}] /\ lives \in [Tokens -> 0..ProjectTTL]
  /\ counted \in [Tokens -> Nat] /\ owned \in [Tokens -> Nat]
  /\ index \subseteq Tokens /\ counter \in Nat
  /\ globalLeft \in 0..ProjectTTL /\ counterLeft \in 0..ProjectTTL
  /\ visitorLeft \in [Visitors -> 0..ProjectTTL]
  /\ looked = {} \/ \E t \in Tokens : looked = {t}

\* What the books say of a project that is stored is its size; the books of a
\* visitor know no project that the size hash of all projects lacks.
BooksTrue ==
  \A t \in Tokens :
    /\ stored[t] > 0 <=> lives[t] > 0
    /\ stored[t] > 0 => counted[t] = stored[t] /\ owned[t] = stored[t]
    /\ owned[t] > 0 => counted[t] = owned[t]

\* The books outlive the keys, and those of all visitors the visitor's.
BooksOutlive ==
  \A t \in Tokens :
    /\ lives[t] <= globalLeft /\ lives[t] <= visitorLeft[t[1]]
    /\ owned[t] > 0 => visitorLeft[t[1]] <= globalLeft

CounterCovers == counter = 0 \/ counter >= Total(counted, Tokens)

QuotaInv == QuotaRanges /\ BooksTrue /\ BooksOutlive /\ CounterCovers

\* Books that a script for v may leave, with these keys.
TrueBooks(books, v, keys) ==
  /\ books.counted \in [Tokens -> Nat] /\ books.owned \in [Tokens -> Nat]
  /\ books.index \subseteq Tokens /\ books.counter \in Nat
  /\ \A t \in Tokens :
       /\ keys[t] > 0 => books.counted[t] = keys[t] /\ books.owned[t] = keys[t]
       /\ books.owned[t] > 0 => /\ books.counted[t] = books.owned[t]
                                /\ t[1] = v => keys[t] > 0
                                /\ t[1] # v => owned[t] > 0

LEMMA QuotaTypes ==
  ASSUME QuotaInv
  PROVE  /\ \A t \in Tokens : /\ t[1] \in Visitors
                              /\ stored[t] \in Nat /\ counted[t] \in Nat /\ owned[t] \in Nat
                              /\ lives[t] \in Nat /\ lives[t] <= ProjectTTL
                              /\ visitorLeft[t[1]] \in Nat /\ visitorLeft[t[1]] <= ProjectTTL
         /\ Rows(stored, Tokens) /\ Rows(counted, Tokens) /\ Rows(owned, Tokens)
         /\ IsFiniteSet(Tokens)
         /\ counter \in Nat /\ globalLeft \in Nat /\ globalLeft <= ProjectTTL
         /\ ProjectTTL \in Nat /\ ProjectTTL > 0
<1>1. /\ Sizes \subseteq Nat /\ ProjectTTL \in Nat \ {0} /\ IsFiniteSet(Tokens)
      /\ \A t \in Tokens : t[1] \in Visitors
  BY QuotaConstants
<1>2. /\ stored \in [Tokens -> Sizes \cup {0}] /\ counted \in [Tokens -> Nat] /\ owned \in [Tokens -> Nat]
      /\ lives \in [Tokens -> 0..ProjectTTL] /\ visitorLeft \in [Visitors -> 0..ProjectTTL]
      /\ counter \in Nat /\ globalLeft \in 0..ProjectTTL
  BY <1>1 DEF QuotaInv, QuotaRanges
<1>3. \A t \in Tokens : stored[t] \in Nat /\ counted[t] \in Nat /\ owned[t] \in Nat
  <2>1. ASSUME NEW t \in Tokens PROVE stored[t] \in Nat
    <3>1. stored[t] \in Sizes \cup {0}
      BY <1>2
    <3>2. \A n \in Sizes : n \in Nat
      BY <1>1
    <3> QED BY <3>1, <3>2
  <2> QED BY <1>2, <2>1
<1>4. \A t \in Tokens : /\ lives[t] \in Nat /\ lives[t] <= ProjectTTL
                        /\ visitorLeft[t[1]] \in Nat /\ visitorLeft[t[1]] <= ProjectTTL
  BY <1>1, <1>2
<1>5. Rows(stored, Tokens) /\ Rows(counted, Tokens) /\ Rows(owned, Tokens)
  BY <1>1, <1>3 DEF Rows
<1> QED BY <1>1, <1>2, <1>3, <1>4, <1>5

(***************************************************************************)
(* The sweep and the reconciliation.                                       *)
(***************************************************************************)
\* The keys that a script for v leaves: those there are, but for the one it
\* deletes.
KeysLeft(keys, concerned) ==
  \A t \in Tokens : keys[t] = stored[t] \/ (t \in concerned /\ keys[t] = 0)

LEMMA ReconciledTrue ==
  ASSUME QuotaInv, NEW v \in Visitors, NEW concerned \in SUBSET OfVisitor(v), NEW keys,
         KeysLeft(keys, concerned), NEW books, books = Reconciled(v, concerned, keys)
  PROVE  /\ TrueBooks(books, v, keys)
         /\ \A t \in concerned : books.counted[t] = keys[t] /\ books.owned[t] = keys[t]
         /\ books.counter >= Total(books.counted, Tokens)
<1> DEFINE gone  == Expired
           all   == [t \in Tokens |-> IF t \in gone THEN 0 ELSE counted[t]]
           mine  == [t \in Tokens |-> IF t \in gone THEN 0 ELSE owned[t]]
           names == index \ gone
           known == concerned \cup {t \in OfVisitor(v) : t \in names \/ mine[t] > 0}
           was   == [t \in known |-> IF all[t] > 0 \/ keys[t] > 0 THEN all[t] ELSE mine[t]]
           swept == NotBelowZero(Repaired - Total(counted, gone))
<1>1. /\ books.counted = [t \in Tokens |-> IF t \in known THEN keys[t] ELSE all[t]]
      /\ books.owned = [t \in Tokens |-> IF t \in known THEN keys[t] ELSE mine[t]]
      /\ books.index = names \ {t \in known : keys[t] = 0}
      /\ books.counter = NotBelowZero(swept + Total(keys, known) - Total(was, known))
  BY DEF Reconciled
<1>2. /\ known \subseteq Tokens /\ concerned \subseteq known /\ gone \subseteq Tokens
      /\ \A t \in known : t[1] = v
      /\ \A t \in Tokens : t[1] = v /\ mine[t] > 0 => t \in known
  BY DEF OfVisitor, Expired
<1>3. \A t \in Tokens : keys[t] \in Nat
  BY QuotaTypes DEF KeysLeft
<1>4. \A t \in Tokens : /\ all[t] \in Nat /\ mine[t] \in Nat
                        /\ all[t] = IF t \in gone THEN 0 ELSE counted[t]
                        /\ mine[t] = IF t \in gone THEN 0 ELSE owned[t]
                        /\ mine[t] > 0 => all[t] = mine[t] /\ owned[t] > 0
                        /\ keys[t] > 0 => all[t] = keys[t] /\ mine[t] = keys[t]
  BY QuotaTypes DEF QuotaInv, BooksTrue, KeysLeft, Expired
<1>5. \A t \in known : was[t] = all[t]
  BY <1>2, <1>3, <1>4
<1> HIDE DEF all, mine, names, known, was, gone
<1> HIDE DEF swept
\* The sums of what is swept, dropped, kept and written.
<1>6. /\ Total(counted, Tokens) \in Nat /\ Total(counted, gone) \in Nat
      /\ Total(all, Tokens) = Total(counted, Tokens) - Total(counted, gone)
  <2>1. Rows(counted, Tokens) /\ Rows(all, Tokens)
    BY <1>4, QuotaTypes DEF Rows
  <2>2. /\ Total(counted, Tokens) = Total(counted, gone) + Total(counted, Tokens \ gone)
        /\ Total(counted, gone) \in Nat /\ Total(counted, Tokens \ gone) \in Nat
    BY <1>2, <2>1, TotalSplit
  <2>3. Total(all, Tokens) = Total(all, gone) + Total(all, Tokens \ gone)
    BY <1>2, <2>1, TotalSplit
  <2>4. Total(all, gone) = 0
    <3>1. \A t \in gone : all[t] = 0
      BY <1>2, <1>4
    <3> QED BY <3>1, TotalNothing
  <2>5. Total(all, Tokens \ gone) = Total(counted, Tokens \ gone)
    <3>1. \A t \in Tokens \ gone : all[t] = counted[t]
      BY <1>4
    <3> QED BY <3>1, TotalSame
  <2> QED BY <2>2, <2>3, <2>4, <2>5
<1>7. /\ Total(was, known) \in Nat /\ Total(keys, known) \in Nat
      /\ Total(books.counted, Tokens) = Total(keys, known) + Total(all, Tokens) - Total(was, known)
  <2>1. /\ \A t \in known : books.counted[t] = keys[t]
        /\ \A t \in Tokens \ known : books.counted[t] = all[t]
    BY <1>1, <1>2
  <2>2. Rows(all, Tokens) /\ Rows(books.counted, Tokens) /\ Rows(keys, known)
    <3>1. \A t \in Tokens : books.counted[t] \in Nat
      BY <1>3, <1>4, <2>1
    <3>2. IsFiniteSet(known)
      BY <1>2, QuotaTypes, FS_Subset
    <3> QED BY <1>2, <1>3, <1>4, <3>1, <3>2, QuotaTypes DEF Rows
  <2>3. /\ Total(all, Tokens) = Total(all, known) + Total(all, Tokens \ known)
        /\ Total(all, known) \in Nat /\ Total(all, Tokens \ known) \in Nat
    <3>1. known \in SUBSET Tokens
      BY <1>2
    <3>2. Rows(all, Tokens)
      BY <2>2
    <3>3. Total(all, Tokens) = Total(all, known) + Total(all, Tokens \ known)
      BY <3>1, <3>2, TotalSplit
    <3>4. Total(all, known) \in Nat /\ Total(all, Tokens \ known) \in Nat
      BY <3>1, <3>2, TotalSplit
    <3> QED BY <3>3, <3>4
  <2>4. Total(books.counted, Tokens) = Total(books.counted, known) + Total(books.counted, Tokens \ known)
    <3>1. known \in SUBSET Tokens /\ Rows(books.counted, Tokens)
      BY <1>2, <2>2
    <3> QED BY <3>1, TotalSplit
  <2>5. Total(books.counted, known) = Total(keys, known) /\ Total(keys, known) \in Nat
    BY <2>1, <2>2, TotalSame, TotalIsNat
  <2>6. Total(books.counted, Tokens \ known) = Total(all, Tokens \ known)
    BY <2>1, TotalSame
  <2>7. Total(was, known) = Total(all, known)
    BY <1>5, TotalSame
  <2> QED BY <2>3, <2>4, <2>5, <2>6, <2>7
<1>8. swept \in Nat /\ swept >= Total(counted, Tokens) - Total(counted, gone)
  <2>1. Repaired \in Nat /\ Repaired >= Total(counted, Tokens)
    BY <1>6, QuotaTypes DEF Repaired, QuotaInv, CounterCovers
  <2> QED BY <1>6, <2>1 DEF swept, NotBelowZero
<1>9. swept + Total(keys, known) - Total(was, known) \in Int
  BY <1>7, <1>8
<1>10. books.counter \in Nat /\ books.counter >= Total(books.counted, Tokens)
  <2>1. swept + Total(keys, known) - Total(was, known) >= Total(books.counted, Tokens)
    BY <1>6, <1>7, <1>8
  <2>2. Total(books.counted, Tokens) \in Int
    BY <1>6, <1>7
  <2> DEFINE n == swept + Total(keys, known) - Total(was, known)
  <2>3. books.counter = NotBelowZero(n) /\ n \in Int /\ n >= Total(books.counted, Tokens)
    BY <1>1, <1>9, <2>1
  <2> HIDE DEF n
  <2> QED BY <2>2, <2>3 DEF NotBelowZero
<1>11. TrueBooks(books, v, keys)
  <2>1. books.counted \in [Tokens -> Nat] /\ books.owned \in [Tokens -> Nat]
    BY <1>1, <1>3, <1>4
  <2>2. books.index \subseteq Tokens
    BY <1>1 DEF names, QuotaInv, QuotaRanges
  <2>3. \A t \in Tokens : /\ books.counted[t] = IF t \in known THEN keys[t] ELSE all[t]
                          /\ books.owned[t] = IF t \in known THEN keys[t] ELSE mine[t]
    BY <1>1
  <2>4. \A t \in Tokens :
          /\ keys[t] > 0 => books.counted[t] = keys[t] /\ books.owned[t] = keys[t]
          /\ books.owned[t] > 0 => /\ books.counted[t] = books.owned[t]
                                   /\ t[1] = v => keys[t] > 0
                                   /\ t[1] # v => owned[t] > 0
    BY <1>2, <1>3, <1>4, <2>3
  <2> QED BY <1>10, <2>1, <2>2, <2>4 DEF TrueBooks
<1>12. \A t \in concerned : books.counted[t] = keys[t] /\ books.owned[t] = keys[t]
  BY <1>1, <1>2
<1> QED BY <1>10, <1>11, <1>12

(***************************************************************************)
(* The steps.                                                              *)
(***************************************************************************)
\* What a script for v may do to the keys: those it saves live for the whole
\* TTL, and it renews the books; others it only deletes.
KeysWritten(v, w) ==
  /\ stored' \in [Tokens -> Sizes \cup {0}] /\ lives' \in [Tokens -> 0..ProjectTTL]
  /\ \A t \in Tokens : stored'[t] > 0 <=> lives'[t] > 0
  /\ \/ EnsureTTLs(v, w) /\ \A t \in Tokens : lives'[t] <= lives[t]
     \/ RenewTTLs(v, w) /\ \A t \in Tokens : t[1] # v => lives'[t] <= lives[t]

LEMMA ScriptOutlives ==
  ASSUME QuotaInv, NEW v \in Visitors, NEW w, TrueBooks(w, v, stored'), WriteBooks(w),
         KeysWritten(v, w)
  PROVE  /\ globalLeft' \in 0..ProjectTTL /\ counterLeft' \in 0..ProjectTTL
         /\ visitorLeft' \in [Visitors -> 0..ProjectTTL]
         /\ BooksOutlive'
<1>1. /\ globalLeft \in 0..ProjectTTL /\ counterLeft \in 0..ProjectTTL
      /\ visitorLeft \in [Visitors -> 0..ProjectTTL]
      /\ 0 \in 0..ProjectTTL /\ ProjectTTL \in 0..ProjectTTL /\ ProjectTTL \in Nat
  BY QuotaTypes DEF QuotaInv, QuotaRanges
<1>2. /\ globalLeft' \in 0..ProjectTTL /\ counterLeft' \in 0..ProjectTTL
      /\ visitorLeft' \in [Visitors -> 0..ProjectTTL]
  <2>1. CASE EnsureTTLs(v, w)
    BY <1>1, <2>1 DEF EnsureTTLs, Ensured
  <2>2. CASE RenewTTLs(v, w)
    BY <1>1, <2>2 DEF RenewTTLs, Renewed
  <2> QED BY <2>1, <2>2 DEF KeysWritten
<1>3. ASSUME NEW t \in Tokens
      PROVE  /\ lives'[t] <= globalLeft' /\ lives'[t] <= visitorLeft'[t[1]]
             /\ owned'[t] > 0 => visitorLeft'[t[1]] <= globalLeft'
  <2>1. /\ lives'[t] \in 0..ProjectTTL /\ lives[t] \in 0..ProjectTTL
        /\ globalLeft \in 0..ProjectTTL /\ visitorLeft[t[1]] \in 0..ProjectTTL
        /\ globalLeft' \in 0..ProjectTTL /\ visitorLeft'[t[1]] \in 0..ProjectTTL
        /\ ProjectTTL \in Nat /\ t[1] \in Visitors
    BY <1>1, <1>2, QuotaTypes DEF KeysWritten, QuotaInv, QuotaRanges
  <2>2. /\ lives'[t] > 0 => w.counted[t] > 0 /\ w.owned[t] > 0
        /\ owned'[t] = w.owned[t]
        /\ w.owned[t] > 0 => w.counted[t] > 0
        /\ t[1] = v /\ w.owned[t] > 0 => lives'[t] > 0
        /\ t[1] # v /\ w.owned[t] > 0 => owned[t] > 0
    <3>1. stored'[t] \in Sizes \cup {0} /\ (stored'[t] > 0 <=> lives'[t] > 0)
      BY DEF KeysWritten
    <3>2. /\ stored'[t] > 0 => w.counted[t] = stored'[t] /\ w.owned[t] = stored'[t]
          /\ w.owned[t] > 0 => /\ w.counted[t] = w.owned[t]
                               /\ t[1] = v => stored'[t] > 0
                               /\ t[1] # v => owned[t] > 0
      BY DEF TrueBooks
    <3>3. owned'[t] = w.owned[t]
      BY DEF WriteBooks
    <3> QED BY <3>1, <3>2, <3>3
  <2>3. w.counted[t] > 0 => Filled(w)
    BY DEF Filled
  <2>4. t[1] = v /\ w.owned[t] > 0 => VisitorFilled(w, v)
    BY DEF VisitorFilled, OfVisitor
  <2>5. /\ lives[t] <= globalLeft /\ lives[t] <= visitorLeft[t[1]]
        /\ owned[t] > 0 => visitorLeft[t[1]] <= globalLeft
        /\ lives[t] > 0 => owned[t] > 0
    BY DEF QuotaInv, BooksOutlive, BooksTrue
  <2>6. CASE EnsureTTLs(v, w) /\ \A i \in Tokens : lives'[i] <= lives[i]
    <3>1. /\ lives'[t] <= lives[t]
          /\ globalLeft' = Ensured(Filled(w), globalLeft)
          /\ visitorLeft'[t[1]] = IF t[1] = v THEN Ensured(VisitorFilled(w, v), visitorLeft[v]) ELSE visitorLeft[t[1]]
      BY <1>1, <2>1, <2>6 DEF EnsureTTLs
    <3> QED BY <2>1, <2>2, <2>3, <2>4, <2>5, <3>1 DEF Ensured
  <2>7. CASE RenewTTLs(v, w) /\ \A i \in Tokens : i[1] # v => lives'[i] <= lives[i]
    <3>1. /\ t[1] # v => lives'[t] <= lives[t]
          /\ globalLeft' = Renewed(Filled(w), globalLeft)
          /\ visitorLeft'[t[1]] = IF t[1] = v THEN Renewed(VisitorFilled(w, v), visitorLeft[v]) ELSE visitorLeft[t[1]]
      BY <1>1, <2>1, <2>7 DEF RenewTTLs
    <3> QED BY <2>1, <2>2, <2>3, <2>4, <2>5, <3>1 DEF Renewed
  <2> QED BY <2>6, <2>7 DEF KeysWritten
<1> QED BY <1>2, <1>3 DEF BooksOutlive

LEMMA ScriptKeeps ==
  ASSUME QuotaInv, NEW v \in Visitors, NEW w, TrueBooks(w, v, stored'), WriteBooks(w),
         KeysWritten(v, w), looked' = looked \/ looked' = {},
         w.counter = 0 \/ w.counter >= Total(w.counted, Tokens)
  PROVE  QuotaInv'
<1>1. QuotaRanges'
  BY ScriptOutlives DEF QuotaRanges, QuotaInv, KeysWritten, WriteBooks, TrueBooks
<1>2. BooksTrue'
  BY DEF BooksTrue, KeysWritten, WriteBooks, TrueBooks
<1>3. CounterCovers'
  BY DEF CounterCovers, WriteBooks
<1> QED BY <1>1, <1>2, <1>3, ScriptOutlives DEF QuotaInv

LEMMA SaveKeeps ==
  ASSUME QuotaInv, NEW t \in Tokens, NEW n \in Sizes, Save(t, n)
  PROVE  QuotaInv'
<1> DEFINE v == t[1]
           books == Reconciled(v, {t}, stored)
           w == WithProject(books, t, n)
<1>1. /\ WriteBooks(w) /\ RenewTTLs(v, w)
      /\ stored' = [stored EXCEPT ![t] = n] /\ lives' = [lives EXCEPT ![t] = ProjectTTL]
      /\ looked' = looked
  BY DEF Save
<1>2. v \in Visitors /\ {t} \in SUBSET OfVisitor(v) /\ KeysLeft(stored, {t})
  BY QuotaTypes DEF OfVisitor, KeysLeft
<1>3. /\ TrueBooks(books, v, stored)
      /\ books.counted[t] = stored[t] /\ books.owned[t] = stored[t]
      /\ books.counter >= Total(books.counted, Tokens)
  BY <1>2, ReconciledTrue
<1>4. n \in Nat /\ n > 0
  BY QuotaConstants
<1> HIDE DEF books
<1>5. /\ w.counted = [books.counted EXCEPT ![t] = n] /\ w.owned = [books.owned EXCEPT ![t] = n]
      /\ w.index = books.index \cup {t}
      /\ w.counter = NotBelowZero(books.counter + n - stored[t])
  BY DEF WithProject
<1> HIDE DEF w
<1>6. stored \in [Tokens -> Sizes \cup {0}] /\ lives \in [Tokens -> 0..ProjectTTL]
  BY DEF QuotaInv, QuotaRanges
<1>7. KeysWritten(v, w)
  <2>1. stored' \in [Tokens -> Sizes \cup {0}] /\ lives' \in [Tokens -> 0..ProjectTTL]
    BY <1>1, <1>6, QuotaTypes
  <2>2. \A i \in Tokens : stored'[i] > 0 <=> lives'[i] > 0
    BY <1>1, <1>4, <1>6, QuotaTypes DEF QuotaInv, BooksTrue
  <2>3. \A i \in Tokens : i[1] # v => lives'[i] <= lives[i]
    BY <1>1, <1>6, QuotaTypes
  <2> QED BY <1>1, <2>1, <2>2, <2>3 DEF KeysWritten
<1>8. /\ w.counter \in Nat /\ w.counter >= Total(w.counted, Tokens)
      /\ w.counted \in [Tokens -> Nat] /\ w.owned \in [Tokens -> Nat]
  <2>1. /\ books.counted \in [Tokens -> Nat] /\ books.owned \in [Tokens -> Nat] /\ books.counter \in Nat
    BY <1>3 DEF TrueBooks
  <2>2. /\ w.counted \in [Tokens -> Nat] /\ w.owned \in [Tokens -> Nat] /\ w.counted[t] = n
        /\ \A i \in Tokens \ {t} : books.counted[i] = w.counted[i]
    BY <1>4, <1>5, <2>1
  <2>3. Rows(books.counted, Tokens) /\ Rows(w.counted, Tokens)
    BY <2>1, <2>2, QuotaTypes DEF Rows
  <2>4. Total(w.counted, Tokens) = Total(books.counted, Tokens) - books.counted[t] + w.counted[t]
    <3> DEFINE f == books.counted
               g == w.counted
    <3>1. Rows(f, Tokens)
      BY <2>3
    <3>2. Rows(g, Tokens)
      BY <2>3
    <3>3. \A i \in Tokens \ {t} : f[i] = g[i]
      BY <2>2
    <3> HIDE DEF f, g
    <3>4. Total(g, Tokens) = Total(f, Tokens) - f[t] + g[t]
      BY <3>1, <3>2, <3>3, TotalChanged
    <3> QED BY <3>4 DEF f, g
  <2>5. Total(books.counted, Tokens) \in Nat /\ Total(w.counted, Tokens) \in Nat /\ stored[t] \in Nat
    BY <2>3, TotalIsNat, QuotaTypes
  <2>6. books.counter + n - stored[t] >= Total(w.counted, Tokens)
    BY <1>3, <1>4, <2>1, <2>2, <2>4, <2>5
  <2> QED BY <1>4, <1>5, <2>1, <2>2, <2>5, <2>6 DEF NotBelowZero
<1>9. TrueBooks(w, v, stored')
  <2>1. w.index \subseteq Tokens
    BY <1>3, <1>5 DEF TrueBooks
  <2>2. ASSUME NEW i \in Tokens
        PROVE  /\ stored'[i] > 0 => w.counted[i] = stored'[i] /\ w.owned[i] = stored'[i]
               /\ w.owned[i] > 0 => /\ w.counted[i] = w.owned[i]
                                    /\ i[1] = v => stored'[i] > 0
                                    /\ i[1] # v => owned[i] > 0
    <3>1. CASE i = t
      BY <1>1, <1>3, <1>4, <1>5, <1>6, <3>1 DEF TrueBooks
    <3>2. CASE i # t
      BY <1>1, <1>3, <1>5, <1>6, <3>2 DEF TrueBooks
    <3> QED BY <3>1, <3>2
  <2> QED BY <1>8, <2>1, <2>2 DEF TrueBooks
<1> QED BY <1>1, <1>2, <1>7, <1>8, <1>9, ScriptKeeps

LEMMA RejectKeeps ==
  ASSUME QuotaInv, NEW t \in Tokens, NEW n \in Sizes, SaveRejected(t, n)
  PROVE  QuotaInv'
<1> DEFINE v == t[1]
           w == Reconciled(v, {t}, stored)
<1>1. WriteBooks(w) /\ EnsureTTLs(v, w) /\ stored' = stored /\ lives' = lives /\ looked' = looked
  BY DEF SaveRejected
<1>2. v \in Visitors /\ {t} \in SUBSET OfVisitor(v) /\ KeysLeft(stored, {t})
  BY QuotaTypes DEF OfVisitor, KeysLeft
<1>3. TrueBooks(w, v, stored) /\ w.counter >= Total(w.counted, Tokens)
  BY <1>2, ReconciledTrue
<1> HIDE DEF w
<1>4. KeysWritten(v, w)
  BY <1>1, QuotaTypes DEF KeysWritten, QuotaInv, QuotaRanges, BooksTrue
<1>5. TrueBooks(w, v, stored')
  BY <1>1, <1>3
<1> QED BY <1>1, <1>2, <1>3, <1>4, <1>5, ScriptKeeps

LEMMA CleanupKeeps ==
  ASSUME QuotaInv, NEW v \in Visitors, Cleanup(v)
  PROVE  QuotaInv'
<1> DEFINE w == Reconciled(v, {}, stored)
<1>1. WriteBooks(w) /\ RenewTTLs(v, w) /\ stored' = stored /\ lives' = lives /\ looked' = looked
  BY DEF Cleanup
<1>2. {} \in SUBSET OfVisitor(v) /\ KeysLeft(stored, {})
  BY DEF KeysLeft
<1>3. TrueBooks(w, v, stored) /\ w.counter >= Total(w.counted, Tokens)
  BY <1>2, ReconciledTrue
<1> HIDE DEF w
<1>4. KeysWritten(v, w)
  BY <1>1, QuotaTypes DEF KeysWritten, QuotaInv, QuotaRanges, BooksTrue
<1>5. TrueBooks(w, v, stored')
  BY <1>1, <1>3
<1> QED BY <1>1, <1>3, <1>4, <1>5, ScriptKeeps

LEMMA DeleteKeeps ==
  ASSUME QuotaInv, NEW t \in Tokens, DeleteScript(t), looked' = looked \/ looked' = {}
  PROVE  QuotaInv'
<1> DEFINE v    == t[1]
           keys == [stored EXCEPT ![t] = 0]
           rest == Reconciled(v, {t}, keys)
           w    == IF Filled(rest) THEN rest ELSE [rest EXCEPT !.counter = 0]
<1>1. /\ WriteBooks(w) /\ EnsureTTLs(v, w)
      /\ stored' = keys /\ lives' = [lives EXCEPT ![t] = 0]
  BY DEF DeleteScript
<1>2. stored \in [Tokens -> Sizes \cup {0}] /\ lives \in [Tokens -> 0..ProjectTTL]
  BY DEF QuotaInv, QuotaRanges
<1>3. v \in Visitors /\ {t} \in SUBSET OfVisitor(v) /\ KeysLeft(keys, {t})
  BY <1>2, QuotaTypes DEF OfVisitor, KeysLeft
<1>4. TrueBooks(rest, v, keys) /\ rest.counter >= Total(rest.counted, Tokens)
  BY <1>3, ReconciledTrue
<1>5. /\ w.counted = rest.counted /\ w.owned = rest.owned /\ w.index = rest.index
      /\ w.counter = IF Filled(rest) THEN rest.counter ELSE 0
  BY DEF Reconciled
<1> HIDE DEF rest, w
<1>6. TrueBooks(w, v, keys)
  BY <1>4, <1>5 DEF TrueBooks
<1>7. w.counter = 0 \/ w.counter >= Total(w.counted, Tokens)
  BY <1>4, <1>5
<1>8. KeysWritten(v, w)
  <2>1. /\ stored' \in [Tokens -> Sizes \cup {0}] /\ lives' \in [Tokens -> 0..ProjectTTL]
    BY <1>1, <1>2, QuotaTypes
  <2>2. \A i \in Tokens : stored'[i] > 0 <=> lives'[i] > 0
    BY <1>1, <1>2 DEF QuotaInv, BooksTrue
  <2>3. \A i \in Tokens : lives'[i] <= lives[i]
    BY <1>1, <1>2, QuotaTypes
  <2> QED BY <1>1, <2>1, <2>2, <2>3 DEF KeysWritten
<1> QED BY <1>1, <1>3, <1>6, <1>7, <1>8, ScriptKeeps

LEMMA QuotaTickKeeps ==
  ASSUME QuotaInv, QuotaTick
  PROVE  QuotaInv'
<1>1. QuotaRanges
  BY DEF QuotaInv
<1>2. \A n \in 0..ProjectTTL : NotBelowZero(n - 1) \in 0..ProjectTTL
  BY QuotaTypes DEF NotBelowZero
<1>3. /\ \A t \in Tokens : lives'[t] = NotBelowZero(lives[t] - 1)
      /\ \A t \in Tokens : stored'[t] = IF lives'[t] = 0 THEN 0 ELSE stored[t]
      /\ globalLeft' = NotBelowZero(globalLeft - 1)
      /\ \A t \in Tokens : visitorLeft'[t[1]] = NotBelowZero(visitorLeft[t[1]] - 1)
      /\ \A t \in Tokens : counted'[t] = IF globalLeft' = 0 THEN 0 ELSE counted[t]
      /\ \A t \in Tokens : owned'[t] = IF visitorLeft'[t[1]] = 0 THEN 0 ELSE owned[t]
      /\ counter' = 0 \/ counter' = counter
  BY QuotaTypes DEF QuotaTick
<1>4. QuotaRanges'
  <2>1. stored' \in [Tokens -> Sizes \cup {0}] /\ lives' \in [Tokens -> 0..ProjectTTL]
    BY <1>1, <1>2 DEF QuotaTick, QuotaRanges
  <2>2. counted' \in [Tokens -> Nat] /\ owned' \in [Tokens -> Nat]
    BY <1>1 DEF QuotaTick, QuotaRanges
  <2>3. /\ globalLeft' \in 0..ProjectTTL /\ counterLeft' \in 0..ProjectTTL
        /\ visitorLeft' \in [Visitors -> 0..ProjectTTL]
    BY <1>1, <1>2 DEF QuotaTick, QuotaRanges
  <2>4. index' \subseteq Tokens /\ counter' \in Nat /\ (looked' = {} \/ \E t \in Tokens : looked' = {t})
    BY <1>1 DEF QuotaTick, QuotaRanges
  <2> QED BY <2>1, <2>2, <2>3, <2>4 DEF QuotaRanges
<1>5. BooksTrue' /\ BooksOutlive'
  <2>1. ASSUME NEW t \in Tokens
        PROVE  /\ stored'[t] > 0 <=> lives'[t] > 0
               /\ stored'[t] > 0 => counted'[t] = stored'[t] /\ owned'[t] = stored'[t]
               /\ owned'[t] > 0 => counted'[t] = owned'[t]
               /\ lives'[t] <= globalLeft' /\ lives'[t] <= visitorLeft'[t[1]]
               /\ owned'[t] > 0 => visitorLeft'[t[1]] <= globalLeft'
    <3>1. /\ lives[t] \in Nat /\ globalLeft \in Nat /\ visitorLeft[t[1]] \in Nat
          /\ stored[t] \in Nat /\ owned[t] \in Nat /\ counted[t] \in Nat
      BY QuotaTypes
    <3>2. /\ stored[t] > 0 <=> lives[t] > 0
          /\ stored[t] > 0 => counted[t] = stored[t] /\ owned[t] = stored[t]
          /\ owned[t] > 0 => counted[t] = owned[t]
          /\ lives[t] <= globalLeft /\ lives[t] <= visitorLeft[t[1]]
          /\ owned[t] > 0 => visitorLeft[t[1]] <= globalLeft
      BY DEF QuotaInv, BooksTrue, BooksOutlive
    <3> QED BY <1>3, <3>1, <3>2 DEF NotBelowZero
  <2> QED BY <2>1 DEF BooksTrue, BooksOutlive
<1>6. CounterCovers'
  <2>1. \A t \in Tokens : counted'[t] \in Nat /\ counted'[t] <= counted[t]
    BY <1>3, QuotaTypes
  <2>2. Rows(counted, Tokens) /\ Rows(counted', Tokens)
    BY <2>1, QuotaTypes DEF Rows
  <2>3. Total(counted', Tokens) <= Total(counted, Tokens)
    BY <2>1, <2>2, TotalMonotone
  <2>4. Total(counted', Tokens) \in Nat /\ Total(counted, Tokens) \in Nat
    BY <2>2, TotalIsNat
  <2> QED BY <1>3, <2>3, <2>4, QuotaTypes DEF CounterCovers, QuotaInv
<1> QED BY <1>4, <1>5, <1>6 DEF QuotaInv

LEMMA QuotaStarts ==
  ASSUME QuotaInit
  PROVE  QuotaInv
<1>1. /\ \A t \in Tokens : stored[t] = 0 /\ lives[t] = 0 /\ owned[t] = 0
      /\ \A t \in Tokens : visitorLeft[t[1]] = 0
      /\ globalLeft = 0
  BY QuotaConstants DEF QuotaInit
<1>2. QuotaRanges
  BY QuotaConstants DEF QuotaInit, QuotaRanges
<1> QED BY <1>1, <1>2 DEF QuotaInit, QuotaInv, BooksTrue, BooksOutlive, CounterCovers

LEMMA QuotaKept ==
  ASSUME QuotaInv, [QuotaNext]_quotaVars
  PROVE  QuotaInv'
<1>1. ASSUME NEW t \in Tokens, LookUp(t)
      PROVE  QuotaInv'
  BY <1>1 DEF LookUp, QuotaInv, QuotaRanges, BooksTrue, BooksOutlive, CounterCovers
<1>2. ASSUME NEW t \in Tokens, Delete(t) \/ DropMissing(t)
      PROVE  QuotaInv'
  BY <1>2, DeleteKeeps DEF Delete, DropMissing
<1>3. ASSUME CounterLost
      PROVE  QuotaInv'
  BY <1>3, QuotaTypes DEF CounterLost, QuotaInv, QuotaRanges, BooksTrue, BooksOutlive, CounterCovers
<1>4. ASSUME IndexMemberLost
      PROVE  QuotaInv'
  BY <1>4 DEF IndexMemberLost, QuotaInv, QuotaRanges, BooksTrue, BooksOutlive, CounterCovers
<1>5. CASE UNCHANGED quotaVars
  BY <1>5 DEF quotaVars, QuotaInv, QuotaRanges, BooksTrue, BooksOutlive, CounterCovers
<1> QED BY <1>1, <1>2, <1>3, <1>4, <1>5, SaveKeeps, RejectKeeps, CleanupKeeps, QuotaTickKeeps DEF QuotaNext

LEMMA QuotaInvTypes == QuotaInv => QuotaTypeOK
<1>1. SUFFICES ASSUME QuotaInv PROVE QuotaTypeOK
  OBVIOUS
<1>2. Cardinality(looked) <= 1
  <2>1. Cardinality({}) = 0 /\ \A t \in Tokens : Cardinality({t}) = 1
    BY FS_EmptySet, FS_Singleton
  <2>2. looked = {} \/ \E t \in Tokens : looked = {t}
    BY <1>1 DEF QuotaInv, QuotaRanges
  <2>3. Cardinality(looked) \in {0, 1}
    BY <2>1, <2>2, Zenon
  <2> QED BY <2>3
<1> QED BY <1>1, <1>2 DEF QuotaInv, QuotaRanges, BooksTrue, CounterCovers, QuotaTypeOK

\* The variables of the projects and of their books keep to their ranges; what
\* the books say of a project that is stored is its size, and the counter says
\* no less than the size hash unless it is lost (PROJECT_STORAGE_SCRIPT).
THEOREM BooksAreTrue == QuotaSpec => []QuotaTypeOK
BY QuotaInvTypes, QuotaStarts, QuotaKept, PTL DEF QuotaSpec

(***************************************************************************)
(* The quotas.                                                             *)
(***************************************************************************)
\* Fewer projects, or smaller ones, break no quota.
LEMMA ShrinkingFits ==
  ASSUME QuotaInv, QuotaInv', ProjectsWithinQuota,
         \A t \in Tokens : stored'[t] <= stored[t]
  PROVE  ProjectsWithinQuota'
<1>1. \A t \in Tokens : stored[t] \in Nat /\ stored'[t] \in Nat
  <2>1. \A t \in Tokens : stored[t] \in Nat
    BY QuotaTypes
  <2>2. (\A t \in Tokens : stored[t] \in Nat)'
    <3>1. (stored \in [Tokens -> Sizes \cup {0}])'
      BY DEF QuotaInv, QuotaRanges
    <3>2. Sizes \subseteq Nat
      BY QuotaConstants
    <3>3. Sizes \cup {0} \subseteq Nat
      BY <3>2
    <3> QED BY <3>1, <3>3
  <2> QED BY <2>1, <2>2
<1>2. ASSUME NEW S \in SUBSET Tokens
      PROVE  /\ Total(stored', S) <= Total(stored, S)
             /\ Total(stored', S) \in Nat /\ Total(stored, S) \in Nat
  <2>1. Rows(stored, S) /\ Rows(stored', S)
    BY <1>1, QuotaTypes, FS_Subset DEF Rows
  <2> QED BY <1>1, <2>1, TotalMonotone, TotalIsNat
<1>3. ASSUME NEW v \in Visitors
      PROVE  /\ Cardinality({t \in OfVisitor(v) : stored'[t] > 0}) <= Cardinality({t \in OfVisitor(v) : stored[t] > 0})
             /\ Cardinality({t \in OfVisitor(v) : stored'[t] > 0}) \in Nat
             /\ Cardinality({t \in OfVisitor(v) : stored[t] > 0}) \in Nat
  <2>1. IsFiniteSet({t \in OfVisitor(v) : stored[t] > 0})
    BY QuotaTypes, FS_Subset DEF OfVisitor
  <2>2. {t \in OfVisitor(v) : stored'[t] > 0} \subseteq {t \in OfVisitor(v) : stored[t] > 0}
    BY <1>1 DEF OfVisitor
  <2> QED BY <2>1, <2>2, FS_Subset, FS_CardinalityType
<1>4. MaxGlobalBytes \in Nat /\ MaxVisitorBytes \in Nat /\ MaxProjects \in Nat
  BY QuotaConstants
<1>5. Total(stored', Tokens) <= MaxGlobalBytes
  BY <1>2, <1>4 DEF ProjectsWithinQuota
<1>6. ASSUME NEW v \in Visitors
      PROVE  /\ Total(stored', OfVisitor(v)) <= MaxVisitorBytes
             /\ Cardinality({t \in OfVisitor(v) : stored'[t] > 0}) <= MaxProjects
  <2>1. OfVisitor(v) \in SUBSET Tokens
    BY DEF OfVisitor
  <2>2. Total(stored, OfVisitor(v)) <= MaxVisitorBytes
        /\ Cardinality({t \in OfVisitor(v) : stored[t] > 0}) <= MaxProjects
    BY DEF ProjectsWithinQuota
  <2>3. Total(stored', OfVisitor(v)) <= MaxVisitorBytes
    <3>1. /\ Total(stored', OfVisitor(v)) <= Total(stored, OfVisitor(v))
          /\ Total(stored', OfVisitor(v)) \in Nat /\ Total(stored, OfVisitor(v)) \in Nat
      BY <1>2, <2>1
    <3> QED BY <1>4, <2>2, <3>1
  <2> DEFINE has == Cardinality({t \in OfVisitor(v) : stored'[t] > 0})
             had == Cardinality({t \in OfVisitor(v) : stored[t] > 0})
  <2>4. has <= had /\ has \in Nat /\ had \in Nat /\ had <= MaxProjects
    BY <1>3, <2>2
  <2> HIDE DEF has, had
  <2>5. has <= MaxProjects
    BY <1>4, <2>4
  <2> QED BY <2>3, <2>5 DEF has
<1> QED BY <1>5, <1>6 DEF ProjectsWithinQuota

\* A save that the script accepts fits.
LEMMA SaveFits ==
  ASSUME QuotaInv, QuotaInv', ProjectsWithinQuota, NEW t \in Tokens, NEW n \in Sizes, Save(t, n)
  PROVE  ProjectsWithinQuota'
<1> DEFINE v == t[1]
           before == Reconciled(v, {}, stored)
           books == Reconciled(v, {t}, stored)
           delta == n - stored[t]
<1>1. /\ Fitting(t, n) /\ stored' = [stored EXCEPT ![t] = n]
      /\ before.owned[t] > 0 \/ Places(before, v) < MaxProjects
      /\ delta > 0 => /\ VisitorBytes(books, v) + delta <= MaxVisitorBytes
                      /\ books.counter + delta <= MaxGlobalBytes
  BY DEF Save, Fitting
<1>2. /\ v \in Visitors /\ {t} \in SUBSET OfVisitor(v) /\ {} \in SUBSET OfVisitor(v)
      /\ KeysLeft(stored, {t}) /\ KeysLeft(stored, {})
  BY QuotaTypes DEF OfVisitor, KeysLeft
<1>3. TrueBooks(books, v, stored) /\ books.counter >= Total(books.counted, Tokens)
  BY <1>2, ReconciledTrue
<1>4. TrueBooks(before, v, stored)
  BY <1>2, ReconciledTrue
<1> HIDE DEF before, books
<1>5. /\ \A i \in Tokens : stored[i] \in Nat /\ stored'[i] \in Nat
      /\ \A i \in Tokens \ {t} : stored[i] = stored'[i]
      /\ stored'[t] = n /\ n \in Nat /\ n > 0
  <2>1. stored \in [Tokens -> Sizes \cup {0}]
    BY DEF QuotaInv, QuotaRanges
  <2>2. n \in Nat /\ n > 0
    BY QuotaConstants
  <2> QED BY <1>1, <2>1, <2>2, QuotaTypes
<1>6. CASE delta <= 0 /\ stored[t] > 0
  <2>1. \A i \in Tokens : stored'[i] <= stored[i]
    BY <1>5, <1>6
  <2> QED BY <2>1, ShrinkingFits
<1>7. CASE delta > 0
  <2>1. MaxGlobalBytes \in Nat /\ MaxVisitorBytes \in Nat /\ MaxProjects \in Nat
    BY QuotaConstants
  <2>2. /\ books.counted \in [Tokens -> Nat] /\ books.owned \in [Tokens -> Nat] /\ books.counter \in Nat
        /\ \A i \in Tokens : stored[i] <= books.counted[i] /\ stored[i] <= books.owned[i]
    BY <1>3, <1>5 DEF TrueBooks
  <2>3. ASSUME NEW S \in SUBSET Tokens, t \in S
        PROVE  /\ Total(stored', S) = Total(stored, S) + delta
               /\ Total(stored, S) <= Total(books.counted, S) /\ Total(stored, S) <= Total(books.owned, S)
               /\ Total(stored, S) \in Nat
               /\ Total(books.counted, S) \in Nat /\ Total(books.owned, S) \in Nat
    <3>1. Rows(stored, S) /\ Rows(stored', S) /\ Rows(books.counted, S) /\ Rows(books.owned, S)
      BY <1>5, <2>2, QuotaTypes, FS_Subset DEF Rows
    <3>2. \A i \in S \ {t} : stored[i] = stored'[i]
      BY <1>5
    <3>3. Total(stored', S) = Total(stored, S) - stored[t] + stored'[t]
      BY <2>3, <3>1, <3>2, TotalChanged
    <3>4. \A i \in S : stored[i] \in Nat /\ stored[i] <= books.counted[i] /\ stored[i] <= books.owned[i]
      BY <1>5, <2>2
    <3>5. Total(stored, S) <= Total(books.counted, S) /\ Total(stored, S) <= Total(books.owned, S)
      BY <3>1, <3>4, TotalMonotone
    <3>6. Total(stored, S) \in Nat /\ Total(books.counted, S) \in Nat /\ Total(books.owned, S) \in Nat
      BY <3>1, TotalIsNat
    <3> QED BY <1>5, <3>3, <3>5, <3>6
  <2>4. delta \in Int
    BY <1>5
  <2> HIDE DEF delta
  <2>5. Total(stored', Tokens) <= MaxGlobalBytes
    <3>1. /\ Total(stored', Tokens) = Total(stored, Tokens) + delta
          /\ Total(stored, Tokens) <= Total(books.counted, Tokens)
          /\ Total(stored, Tokens) \in Nat /\ Total(books.counted, Tokens) \in Nat
      BY <2>3, Tokens \in SUBSET Tokens
    <3>2. books.counter + delta <= MaxGlobalBytes
      BY <1>1, <1>7
    <3> QED BY <1>3, <2>1, <2>2, <2>4, <3>1, <3>2
  <2>6. ASSUME NEW u \in Visitors
        PROVE  /\ Total(stored', OfVisitor(u)) <= MaxVisitorBytes
               /\ Cardinality({i \in OfVisitor(u) : stored'[i] > 0}) <= MaxProjects
    <3> DEFINE had == {i \in OfVisitor(u) : stored[i] > 0}
               has == {i \in OfVisitor(u) : stored'[i] > 0}
    <3>1. /\ Total(stored, OfVisitor(u)) <= MaxVisitorBytes /\ Cardinality(had) <= MaxProjects
          /\ OfVisitor(u) \in SUBSET Tokens
      BY DEF ProjectsWithinQuota, OfVisitor
    <3>2. CASE u # v
      <4>1. \A i \in OfVisitor(u) : stored'[i] = stored[i]
        BY <1>5, <3>2 DEF OfVisitor
      <4>2. has = had
        BY <4>1
      <4>3. Total(stored', OfVisitor(u)) = Total(stored, OfVisitor(u))
        BY <4>1, TotalSame
      <4> QED BY <3>1, <4>2, <4>3
    <3>3. CASE u = v
      <4>1. t \in OfVisitor(u)
        BY <3>3 DEF OfVisitor
      <4>2. Total(stored', OfVisitor(u)) <= MaxVisitorBytes
        <5>1. VisitorBytes(books, v) + delta <= MaxVisitorBytes
          BY <1>1, <1>7
        <5>2. /\ Total(stored', OfVisitor(u)) = Total(stored, OfVisitor(u)) + delta
              /\ Total(stored, OfVisitor(u)) <= Total(books.owned, OfVisitor(u))
              /\ Total(stored, OfVisitor(u)) \in Nat /\ Total(books.owned, OfVisitor(u)) \in Nat
          BY <2>3, <3>1, <4>1
        <5> QED BY <2>1, <2>4, <3>3, <5>1, <5>2 DEF VisitorBytes
      <4>3. has = had \cup {t}
        BY <1>5, <4>1, <3>1
      <4>4. CASE before.owned[t] > 0
        <5>1. t \in had
          BY <1>4, <4>1, <4>4 DEF TrueBooks
        <5>2. has = had
          BY <4>3, <5>1
        <5> QED BY <3>1, <4>2, <5>2
      <4>5. CASE Places(before, v) < MaxProjects
        <5> DEFINE known == {i \in OfVisitor(v) : before.owned[i] > 0}
        <5>1. IsFiniteSet(known) /\ IsFiniteSet(had)
          BY <3>1, QuotaTypes, FS_Subset DEF OfVisitor
        <5>2. had \subseteq known
          BY <1>4, <1>5, <3>1, <3>3 DEF TrueBooks
        <5>3. Cardinality(had) <= Cardinality(known) /\ Cardinality(known) \in Nat /\ Cardinality(had) \in Nat
          BY <5>1, <5>2, FS_Subset, FS_CardinalityType
        <5>4. Cardinality(known) < MaxProjects
          BY <4>5 DEF Places
        <5>5. Cardinality(had \cup {t}) = IF t \in had THEN Cardinality(had) ELSE Cardinality(had) + 1
          BY <5>1, FS_AddElement
        <5>6. Cardinality(has) <= MaxProjects
          <6> HIDE DEF had, has, known
          <6> QED BY <2>1, <4>3, <5>3, <5>4, <5>5
        <5> QED BY <4>2, <5>6
      <4> QED BY <1>1, <4>4, <4>5
    <3> QED BY <3>2, <3>3
  <2> QED BY <2>5, <2>6 DEF ProjectsWithinQuota
<1> QED BY <1>5, <1>6, <1>7

\* What is stored is within the quotas, whatever expires by itself, is lost
\* from the books, or is deleted by a lookup that came too late ("Every
\* rejection is decided before the target SET").
THEOREM QuotasHold == QuotaSpec => []ProjectsWithinQuota
<1>1. QuotaInit => ProjectsWithinQuota
  <2>1. SUFFICES ASSUME QuotaInit PROVE ProjectsWithinQuota
    OBVIOUS
  <2>2. \A t \in Tokens : stored[t] = 0
    BY <2>1 DEF QuotaInit
  <2>3. Total(stored, Tokens) = 0
    BY <2>2, TotalNothing
  <2>4. ASSUME NEW v \in Visitors
        PROVE  Total(stored, OfVisitor(v)) = 0 /\ Cardinality({t \in OfVisitor(v) : stored[t] > 0}) = 0
    <3>1. \A t \in OfVisitor(v) : stored[t] = 0
      BY <2>2 DEF OfVisitor
    <3>2. {t \in OfVisitor(v) : stored[t] > 0} = {}
      BY <3>1
    <3> QED BY <3>1, <3>2, TotalNothing, FS_EmptySet
  <2> QED BY <2>3, <2>4, QuotaConstants DEF ProjectsWithinQuota
<1>2. QuotaInv /\ QuotaInv' /\ ProjectsWithinQuota /\ [QuotaNext]_quotaVars => ProjectsWithinQuota'
  <2>1. SUFFICES ASSUME QuotaInv, QuotaInv', ProjectsWithinQuota, [QuotaNext]_quotaVars,
                        ~ \E t \in Tokens, n \in Sizes : Save(t, n)
                 PROVE  \A t \in Tokens : stored'[t] <= stored[t]
    BY SaveFits, ShrinkingFits
  <2>2. SUFFICES ASSUME NEW t \in Tokens PROVE stored'[t] = stored[t] \/ stored'[t] = 0
    BY <2>1, QuotaTypes
  <2>3. stored \in [Tokens -> Sizes \cup {0}]
    BY <2>1 DEF QuotaInv, QuotaRanges
  <2>4. CASE \E i \in Tokens : DeleteScript(i)
    BY <2>3, <2>4 DEF DeleteScript
  <2>5. CASE QuotaTick
    BY <2>3, <2>5 DEF QuotaTick
  <2>6. CASE \/ \E v \in Visitors : Cleanup(v)
             \/ \E i \in Tokens : LookUp(i) \/ \E n \in Sizes : SaveRejected(i, n)
             \/ CounterLost \/ IndexMemberLost \/ UNCHANGED quotaVars
    BY <2>6 DEF Cleanup, LookUp, SaveRejected, CounterLost, IndexMemberLost, quotaVars
  <2> QED BY <2>1, <2>4, <2>5, <2>6 DEF QuotaNext, Delete, DropMissing
<1> QED BY <1>1, <1>2, QuotaStarts, QuotaKept, PTL DEF QuotaSpec

(***************************************************************************)
(* The six side by side.                                                   *)
(***************************************************************************)
ControlInv ==
  /\ TypeOK /\ HostInv /\ LifecycleTypeOK /\ ScaleInv /\ ChargeInv /\ QuotaInv

LEMMA ControlStarts == ControlInit => ControlInv
BY TypeInit, HostInit, LifecycleStarts, ScaleStarts, ChargeStarts, QuotaStarts
   DEF ControlInit, ControlInv

\* Whichever part runs, the others rest.
LEMMA ControlKept == ControlInv /\ [ControlNext]_controlVars => ControlInv'
<1> SUFFICES ASSUME ControlInv, [ControlNext]_controlVars PROVE ControlInv'
  OBVIOUS
<1>1. /\ [Next]_vars /\ [CapacityNext]_capacityVars /\ [LifecycleNext]_lifecycleVars
      /\ [AutoscaleNext]_autoscaleVars /\ [RateNext]_rateVars /\ [QuotaNext]_quotaVars
  BY DEF ControlNext, controlVars, Rest, LockSteps, CapacitySteps, WorkerSteps, AutoscalerSteps,
         RateSteps, QuotaSteps
<1> QED BY <1>1, TypeNext, HostNext, LifecycleKept, ScaleSteps, ChargeKept, QuotaKept DEF ControlInv

\* What the lock, the slots, the worker, the autoscaler, the rate limit and the
\* quotas keep in their variables stays in its range, whichever of them runs.
THEOREM ControlTypes == ControlSpec => []ControlTypeOK
<1>1. ControlInv => ControlTypeOK
  BY ScaleInvTypes, QuotaInvTypes DEF ControlInv, ControlTypeOK, HostInv, ChargeInv
<1> QED BY <1>1, ControlStarts, ControlKept, PTL DEF ControlSpec
=============================================================================
