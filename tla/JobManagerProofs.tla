-------------------------- MODULE JobManagerProofs --------------------------
(***************************************************************************)
(* The capacity gate keeps exact accounts for any number of jobs, tasks    *)
(* and slots; the outcome of a job is one, a granted cancellation wins,    *)
(* and no stream that is open has missed the outcome.                      *)
(***************************************************************************)
EXTENDS JobManager, FiniteSetTheorems, WellFoundedInduction, TLAPS

(***************************************************************************)
(* Counting slots.                                                         *)
(***************************************************************************)
LEMMA SlotsForBounds ==
  \A u \in Units : SlotsFor(u) \in 1..MaxConcurrent
  BY JobConstants DEF JobConstants, SlotsFor

LEMMA PlacesFinite ==
  ASSUME NEW U \in SUBSET Units
  PROVE  IsFiniteSet(Places(U)) /\ SlotsOf(U) \in Nat
<1>1. IsFiniteSet(U)
  BY JobConstants, FS_Subset DEF JobConstants
<1>2. IsFiniteSet(1..MaxConcurrent)
  BY JobConstants, FS_Interval DEF JobConstants
<1>3. IsFiniteSet(U \X (1..MaxConcurrent))
  BY <1>1, <1>2, FS_Product
<1>4. Places(U) \in SUBSET (U \X (1..MaxConcurrent))
  BY DEF Places
<1> QED BY <1>3, <1>4, FS_Subset, FS_CardinalityType DEF SlotsOf

LEMMA SlotsOfNone == SlotsOf({}) = 0
<1>1. Places({}) = {}
  BY DEF Places
<1> QED BY <1>1, FS_EmptySet DEF SlotsOf

LEMMA SlotsOfOne ==
  ASSUME NEW u \in Units
  PROVE  SlotsOf({u}) = SlotsFor(u)
<1> DEFINE row == {u} \X (1..SlotsFor(u))
<1>1. SlotsFor(u) \in Nat /\ 1 <= SlotsFor(u) /\ SlotsFor(u) <= MaxConcurrent
  BY SlotsForBounds, JobConstants DEF JobConstants
<1>2. Places({u}) = row
  BY <1>1, JobConstants DEF Places, JobConstants
<1>3. IsFiniteSet({u}) /\ Cardinality({u}) = 1
  BY FS_Singleton
<1>4. IsFiniteSet(1..SlotsFor(u)) /\ Cardinality(1..SlotsFor(u)) = SlotsFor(u)
  BY <1>1, FS_Interval
<1>5. Cardinality({u} \X (1..SlotsFor(u))) = Cardinality({u}) * Cardinality(1..SlotsFor(u))
  BY <1>3, <1>4, FS_Product
<1>6. Cardinality(row) = 1 * SlotsFor(u)
  BY <1>3, <1>4, <1>5
<1> HIDE DEF row
<1> QED BY <1>1, <1>2, <1>6 DEF SlotsOf

\* The slots of disjoint sets add up.
LEMMA SlotsAdd ==
  ASSUME NEW A \in SUBSET Units, NEW B \in SUBSET Units, A \cap B = {}
  PROVE  SlotsOf(A \cup B) = SlotsOf(A) + SlotsOf(B)
<1>1. Places(A \cup B) = Places(A) \cup Places(B)
  BY DEF Places
<1>2. Places(A) \cap Places(B) = {}
  BY DEF Places
<1>3. IsFiniteSet(Places(A)) /\ IsFiniteSet(Places(B))
  BY PlacesFinite
<1>4. Cardinality(Places(A) \cup Places(B)) =
        Cardinality(Places(A)) + Cardinality(Places(B)) - Cardinality({})
  BY <1>2, <1>3, FS_Union
<1>5. Cardinality(Places(A)) \in Nat /\ Cardinality(Places(B)) \in Nat
  BY <1>3, FS_CardinalityType
<1>6. Cardinality({}) = 0
  BY FS_EmptySet
<1>7. SlotsOf(A \cup B) = Cardinality(Places(A) \cup Places(B))
  BY <1>1 DEF SlotsOf
<1>8. SlotsOf(A) = Cardinality(Places(A)) /\ SlotsOf(B) = Cardinality(Places(B))
  BY DEF SlotsOf
<1> QED BY <1>4, <1>5, <1>6, <1>7, <1>8

LEMMA SlotsWithout ==
  ASSUME NEW A \in SUBSET Units, NEW u \in A
  PROVE  SlotsOf(A) = SlotsOf(A \ {u}) + SlotsFor(u)
<1>1. A = (A \ {u}) \cup {u} /\ (A \ {u}) \cap {u} = {}
  OBVIOUS
<1>2. SlotsOf((A \ {u}) \cup {u}) = SlotsOf(A \ {u}) + SlotsOf({u})
  BY <1>1, SlotsAdd
<1> QED BY <1>1, <1>2, SlotsOfOne

LEMMA CountAdd ==
  ASSUME NEW A \in SUBSET Units, NEW B \in SUBSET Units, A \cap B = {}
  PROVE  /\ Cardinality(A) \in Nat
         /\ Cardinality(A \cup B) = Cardinality(A) + Cardinality(B)
<1>1. IsFiniteSet(A) /\ IsFiniteSet(B)
  BY JobConstants, FS_Subset DEF JobConstants
<1>2. Cardinality(A) \in Nat /\ Cardinality(B) \in Nat
  BY <1>1, FS_CardinalityType
<1>3. Cardinality(A \cup B) = Cardinality(A) + Cardinality(B) - Cardinality({})
  BY <1>1, FS_Union
<1>4. Cardinality({}) = 0
  BY FS_EmptySet
<1> QED BY <1>2, <1>3, <1>4

(***************************************************************************)
(* The order of the queue.                                                 *)
(***************************************************************************)
\* queue[u] is the set of those in front of u, for a total order on W.
Ordered(W, queue) ==
  /\ W \subseteq Units
  /\ queue \in [Units -> SUBSET Units]
  /\ \A u \in W : queue[u] \subseteq W \ {u}
  /\ \A u, v \in W : u = v \/ u \in queue[v] \/ v \in queue[u]
  /\ \A u, v \in W : v \in queue[u] => queue[v] \subseteq queue[u]

\* In a part of the queue somebody comes last.
LEMMA LastOf ==
  ASSUME NEW W, NEW queue, Ordered(W, queue), NEW G \in SUBSET W, G # {}
  PROVE  \E x \in G : G \ {x} \subseteq queue[x]
<1> DEFINE behind(x) == W \ queue[x]
           all == {behind(x) : x \in G}
<1>1. IsWellFoundedOn(StrictSubsetOrdering(Units), FiniteSubsetsOf(Units))
  BY FS_StrictSubsetOrderingWellFounded
<1>2. FiniteSubsetsOf(Units) = SUBSET Units
  BY JobConstants, FS_FiniteSubsetsOfFinite DEF JobConstants
<1>3. all \subseteq FiniteSubsetsOf(Units) /\ all # {}
  <2>1. \A x \in G : behind(x) \in SUBSET Units
    BY DEF Ordered
  <2>2. all \subseteq SUBSET Units
    BY <2>1
  <2>3. PICK x \in G : TRUE
    OBVIOUS
  <2>4. behind(x) \in all
    OBVIOUS
  <2> QED BY <1>2, <2>2, <2>4
<1> HIDE DEF all
<1>4. PICK b \in all : \A c \in all : <<c, b>> \notin StrictSubsetOrdering(Units)
  BY <1>1, <1>3, WFMin
<1> USE DEF all
<1>5. PICK x \in G : b = behind(x)
  OBVIOUS
<1>6. ASSUME NEW y \in G \ {x} PROVE y \in queue[x]
  <2> SUFFICES ASSUME x \in queue[y] PROVE FALSE
    BY DEF Ordered
  <2>1. queue[x] \subseteq queue[y] /\ x \notin queue[x]
    BY DEF Ordered
  <2>2. behind(y) \subseteq behind(x) /\ x \in behind(x) /\ x \notin behind(y)
    BY <2>1
  <2>3. behind(y) \in SUBSET Units /\ behind(x) \in SUBSET Units
    BY DEF Ordered
  <2>4. <<behind(y), behind(x)>> \in StrictSubsetOrdering(Units)
    BY <2>2, <2>3 DEF StrictSubsetOrdering
  <2> QED BY <1>4, <1>5, <2>4
<1> QED BY <1>6

\* What drain() starts fits: the last one it starts was measured against all
\* the others.
LEMMA DrainBound ==
  ASSUME NEW W, NEW queue, NEW used \in Nat, used <= MaxConcurrent,
         Ordered(W, queue), NEW G \in SUBSET W,
         \A x \in W : x \in G <=> Backfills(x, G, queue, used)
  PROVE  used + SlotsOf(G) <= MaxConcurrent
<1>1. CASE G = {}
  BY <1>1, SlotsOfNone
<1>2. CASE G # {}
  <2>1. PICK x \in G : G \ {x} \subseteq queue[x]
    BY <1>2, LastOf
  <2>2. x \notin queue[x]
    BY DEF Ordered
  <2>3. queue[x] \cap G = G \ {x}
    BY <2>1, <2>2
  <2>4. used + SlotsOf(G \ {x}) + SlotsFor(x) <= MaxConcurrent
    BY <2>3 DEF Backfills
  <2>5. G \in SUBSET Units
    BY DEF Ordered
  <2>6. SlotsOf(G) = SlotsOf(G \ {x}) + SlotsFor(x)
    BY <2>5, SlotsWithout
  <2>7. SlotsOf(G \ {x}) \in Nat /\ SlotsFor(x) \in Nat
    BY <2>5, PlacesFinite, SlotsForBounds, JobConstants DEF JobConstants
  <2> QED BY <2>4, <2>6, <2>7, JobConstants DEF JobConstants
<1> QED BY <1>1, <1>2

(***************************************************************************)
(* The gate.                                                               *)
(***************************************************************************)
Steps == {"none", "queued", "granted", "compiling", "over"}
HoldersOf(chain) == {u \in Units : chain[u] \in {"granted", "compiling"}}

\* The queue and the counters are those of the promise chains.
Consistent(W, queue, count, used, chain) ==
  /\ chain \in [Units -> Steps]
  /\ W = {u \in Units : chain[u] = "queued"}
  /\ Ordered(W, queue)
  /\ count = Cardinality(HoldersOf(chain))
  /\ used = SlotsOf(HoldersOf(chain))
  /\ used <= MaxConcurrent

GateInv ==
  /\ Consistent(waiting, ahead, running, runningSlots, step)
  /\ aged \subseteq waiting

\* drain() keeps the accounts that its caller left right, and moves nobody
\* but waiters.
LEMMA DrainKeeps ==
  ASSUME NEW W, NEW queue, NEW count, NEW used, NEW chain,
         Consistent(W, queue, count, used, chain),
         Drain(W, queue, count, used, chain)
  PROVE  /\ GateInv'
         /\ \A u \in Units : \/ step'[u] = chain[u]
                             \/ chain[u] = "queued" /\ step'[u] = "granted"
<1> DEFINE H == HoldersOf(chain)
<1>1. PICK G \in SUBSET W :
        /\ \A x \in W : x \in G <=> Backfills(x, G, queue, used)
        /\ waiting' = W \ G
        /\ ahead' = [u \in Units |-> IF u \in W \ G THEN queue[u] \ G ELSE {}]
        /\ aged' = aged \cap (W \ G)
        /\ running' = count + Cardinality(G)
        /\ runningSlots' = used + SlotsOf(G)
        /\ step' = [u \in Units |-> IF u \in G THEN "granted" ELSE chain[u]]
  BY DEF Drain
<1>2. W \subseteq Units /\ G \in SUBSET Units /\ H \in SUBSET Units /\ H \cap G = {}
  BY DEF Consistent, HoldersOf
<1>3. used \in Nat /\ used <= MaxConcurrent
  BY <1>2, PlacesFinite DEF Consistent
<1>4. step' \in [Units -> Steps]
  BY <1>1 DEF Consistent, Steps
<1>5. waiting' = {u \in Units : step'[u] = "queued"}
  BY <1>1, <1>2 DEF Consistent
<1>6. HoldersOf(step') = H \cup G
  BY <1>1, <1>2 DEF HoldersOf, Consistent
<1>7. running' = Cardinality(HoldersOf(step'))
  BY <1>1, <1>2, <1>6, CountAdd DEF Consistent
<1>8. runningSlots' = SlotsOf(HoldersOf(step'))
  BY <1>1, <1>2, <1>6, SlotsAdd DEF Consistent
<1>9. runningSlots' <= MaxConcurrent
  BY <1>1, <1>3, DrainBound DEF Consistent
<1>10. Ordered(waiting', ahead')
  BY <1>1 DEF Consistent, Ordered
<1>11. aged' \subseteq waiting'
  BY <1>1
<1>12. \A u \in Units : \/ step'[u] = chain[u]
                        \/ chain[u] = "queued" /\ step'[u] = "granted"
  BY <1>1 DEF Consistent
<1> QED
  BY <1>4, <1>5, <1>7, <1>8, <1>9, <1>10, <1>11, <1>12 DEF GateInv, Consistent

\* u is the unit a step is about; the others stay, or are started.
OthersStay(u) ==
  \A v \in Units \ {u} : \/ step'[v] = step[v]
                         \/ step[v] = "queued" /\ step'[v] = "granted"

LEMMA AcquireKeeps ==
  ASSUME GateInv, NEW u \in Units, step[u] = "none", Acquire(u)
  PROVE  GateInv' /\ step'[u] \in {"queued", "granted"} /\ OthersStay(u)
<1>1. CASE waiting = {} /\ runningSlots + SlotsFor(u) <= MaxConcurrent
  <2>1. /\ running' = running + 1 /\ runningSlots' = runningSlots + SlotsFor(u)
        /\ step' = [step EXCEPT ![u] = "granted"]
        /\ UNCHANGED <<waiting, ahead, aged>>
    BY <1>1 DEF Acquire
  <2>2. step' \in [Units -> Steps] /\ waiting' = {v \in Units : step'[v] = "queued"}
    BY <2>1 DEF GateInv, Consistent, Steps
  <2>3. Holders \in SUBSET Units /\ {u} \in SUBSET Units /\ Holders \cap {u} = {}
    BY DEF Holders
  <2>4. HoldersOf(step') = Holders \cup {u} /\ HoldersOf(step) = Holders
    BY <2>1 DEF HoldersOf, Holders, GateInv, Consistent
  <2>5. running' = Cardinality(HoldersOf(step'))
    <3>1. Cardinality(Holders \cup {u}) = Cardinality(Holders) + Cardinality({u})
      BY <2>3, CountAdd
    <3>2. Cardinality({u}) = 1
      BY FS_Singleton
    <3> QED BY <2>1, <2>4, <3>1, <3>2 DEF GateInv, Consistent
  <2>6. runningSlots' = SlotsOf(HoldersOf(step'))
    <3>1. SlotsOf(Holders \cup {u}) = SlotsOf(Holders) + SlotsOf({u})
      BY <2>3, SlotsAdd
    <3>2. SlotsOf({u}) = SlotsFor(u)
      BY SlotsOfOne
    <3> QED BY <2>1, <2>4, <3>1, <3>2 DEF GateInv, Consistent
  <2>7. runningSlots' <= MaxConcurrent
    BY <1>1, <2>1
  <2>8. Ordered(waiting', ahead') /\ aged' \subseteq waiting'
    BY <2>1 DEF GateInv, Consistent
  <2>9. step'[u] = "granted" /\ OthersStay(u)
    BY <2>1 DEF OthersStay, GateInv, Consistent
  <2> QED BY <2>2, <2>5, <2>6, <2>7, <2>8, <2>9 DEF GateInv, Consistent
<1>2. CASE ~(waiting = {} /\ runningSlots + SlotsFor(u) <= MaxConcurrent)
  <2> DEFINE W == waiting \cup {u}
             queue == [ahead EXCEPT ![u] = waiting]
             chain == [step EXCEPT ![u] = "queued"]
  <2>1. Drain(W, queue, running, runningSlots, chain)
    BY <1>2 DEF Acquire
  <2>2. chain \in [Units -> Steps] /\ W = {v \in Units : chain[v] = "queued"}
    BY DEF GateInv, Consistent, Steps
  <2>3. HoldersOf(chain) = HoldersOf(step)
    BY DEF HoldersOf, GateInv, Consistent
  <2>4. u \notin waiting
    BY DEF GateInv, Consistent
  <2>5. Ordered(W, queue)
    BY <2>4 DEF GateInv, Consistent, Ordered
  <2>6. Consistent(W, queue, running, runningSlots, chain)
    BY <2>2, <2>3, <2>5 DEF GateInv, Consistent
  <2>7. /\ GateInv'
        /\ \A v \in Units : \/ step'[v] = chain[v]
                            \/ chain[v] = "queued" /\ step'[v] = "granted"
    <3> HIDE DEF W, queue, chain
    <3> QED BY <2>1, <2>6, DrainKeeps
  <2> QED BY <2>7 DEF OthersStay, GateInv, Consistent
<1> QED BY <1>1, <1>2

LEMMA ReleaseKeeps ==
  ASSUME GateInv, NEW u \in Units, step[u] \in {"granted", "compiling"},
         NEW to \in {"none", "over"}, Release(u, to)
  PROVE  GateInv' /\ step'[u] = to /\ OthersStay(u)
<1> DEFINE chain == [step EXCEPT ![u] = to]
<1>1. Drain(waiting, ahead, running - 1, runningSlots - SlotsFor(u), chain)
  BY DEF Release, ReleasedSlots
<1>2. chain \in [Units -> Steps] /\ waiting = {v \in Units : chain[v] = "queued"}
  BY DEF GateInv, Consistent, Steps
<1>3. HoldersOf(chain) = Holders \ {u} /\ HoldersOf(step) = Holders /\ u \in Holders
  BY DEF HoldersOf, Holders, GateInv, Consistent
<1>4. Holders \in SUBSET Units /\ Holders \ {u} \in SUBSET Units /\ IsFiniteSet(Holders)
  BY JobConstants, FS_Subset DEF Holders, JobConstants
<1>5. running - 1 = Cardinality(HoldersOf(chain))
  <2>1. running = Cardinality(HoldersOf(step))
    BY DEF GateInv, Consistent
  <2>2. Cardinality(Holders \ {u}) = Cardinality(Holders) - 1
    BY <1>3, <1>4, FS_RemoveElement
  <2> QED BY <1>3, <2>1, <2>2
<1>6. /\ SlotsOf(Holders) = SlotsOf(Holders \ {u}) + SlotsFor(u)
      /\ SlotsOf(Holders \ {u}) \in Nat /\ SlotsFor(u) \in Nat
  BY <1>3, <1>4, SlotsWithout, PlacesFinite, SlotsForBounds, JobConstants DEF JobConstants
<1>7. /\ runningSlots - SlotsFor(u) = SlotsOf(HoldersOf(chain))
      /\ runningSlots - SlotsFor(u) <= MaxConcurrent
  <2>1. runningSlots = SlotsOf(Holders) /\ runningSlots <= MaxConcurrent
    BY <1>3 DEF GateInv, Consistent
  <2>2. SlotsOf(HoldersOf(chain)) = SlotsOf(Holders \ {u})
    BY <1>3
  <2> HIDE DEF chain
  <2> QED BY <1>6, <2>1, <2>2, JobConstants DEF JobConstants
<1>8. Consistent(waiting, ahead, running - 1, runningSlots - SlotsFor(u), chain)
  BY <1>2, <1>5, <1>7 DEF GateInv, Consistent
<1>9. /\ GateInv'
      /\ \A v \in Units : \/ step'[v] = chain[v]
                          \/ chain[v] = "queued" /\ step'[v] = "granted"
  <2> HIDE DEF chain
  <2> QED BY <1>1, <1>8, DrainKeeps
<1> QED BY <1>9 DEF OthersStay, GateInv, Consistent

\* A cancelled waiter leaves the queue.
LEMMA UnqueueKeeps ==
  ASSUME GateInv, NEW u \in Units, step[u] = "queued",
         Drain(waiting \ {u}, [v \in Units |-> ahead[v] \ {u}], running, runningSlots,
               [step EXCEPT ![u] = "over"])
  PROVE  GateInv' /\ step'[u] = "over" /\ OthersStay(u)
<1> DEFINE W == waiting \ {u}
           queue == [v \in Units |-> ahead[v] \ {u}]
           chain == [step EXCEPT ![u] = "over"]
<1>1. chain \in [Units -> Steps] /\ W = {v \in Units : chain[v] = "queued"}
  BY DEF GateInv, Consistent, Steps
<1>2. HoldersOf(chain) = HoldersOf(step)
  BY DEF HoldersOf, GateInv, Consistent
<1>3. Ordered(W, queue)
  <2>1. u \in waiting /\ ahead[u] \subseteq waiting
    BY DEF GateInv, Consistent, Ordered
  <2>2. \A v \in W : ahead[v] \subseteq waiting \ {v}
    BY DEF GateInv, Consistent, Ordered
  <2> QED BY <2>1, <2>2 DEF GateInv, Consistent, Ordered
<1>4. Consistent(W, queue, running, runningSlots, chain)
  BY <1>1, <1>2, <1>3 DEF GateInv, Consistent
<1>5. /\ GateInv'
      /\ \A v \in Units : \/ step'[v] = chain[v]
                          \/ chain[v] = "queued" /\ step'[v] = "granted"
  <2>1. Drain(W, queue, running, runningSlots, chain)
    OBVIOUS
  <2> HIDE DEF W, queue, chain
  <2> QED BY <1>4, <2>1, DrainKeeps
<1> QED BY <1>5 DEF OthersStay, GateInv, Consistent

(***************************************************************************)
(* The promise chains.                                                     *)
(***************************************************************************)
\* Where a chain is says what its job has been told, and who may be idle.
ChainInv ==
  /\ \A j \in Jobs : /\ done[j] <=> step[j] = "over"
                     /\ state[j] = "none" <=> step[j] = "none"
  /\ \A t \in Tasks : step[t] \in {"none", "queued", "granted"}
  /\ accepting => drained = "no"
  /\ drained = "idle" => waiting = {} /\ Holders = {}

\* What was served or thrown is what was emitted, and nothing is emitted before.
OutcomeInv ==
  /\ OutcomesAgree
  /\ CancelWins
  /\ \A j \in Jobs :
       /\ ~done[j] /\ served[j] = "none" => terminal[j] = "none"
       /\ served[j] # "none" => terminal[j] = Outcome(j, served[j])

StreamInv ==
  /\ OpenStreamWillHear
  /\ \A s \in Streams : stream[s] # "none" => on[s] \in Jobs

FlagTypes == accepting \in BOOLEAN /\ drained \in {"no", "waiting", "idle", "timeout"}

Inv == /\ GateInv /\ FlagTypes /\ JobTypes /\ StreamTypes
       /\ ChainInv /\ OutcomeInv /\ StreamInv

LEMMA Apart == Jobs \cap Tasks = {} /\ Jobs \subseteq Units /\ Tasks \subseteq Units
  BY JobConstants DEF JobConstants, Units

\* What emitting an outcome does to the streams and to the event buffer.
LEMMA EmitKeeps ==
  ASSUME JobTypes, StreamTypes, StreamInv, CancelWins, NEW j \in Jobs,
         NEW r \in Results, EmitOutcome(j, r), UNCHANGED aborted
  PROVE  /\ terminal' \in [Jobs -> {"none"} \cup Results]
         /\ StreamTypes' /\ StreamInv' /\ CancelWins'
         /\ terminal'[j] = IF terminal[j] = "none" THEN Outcome(j, r) ELSE terminal[j]
         /\ \A k \in Jobs \ {j} : terminal'[k] = terminal[k]
<1>1. CASE terminal[j] # "none"
  <2>1. UNCHANGED <<terminal, streamVars>>
    BY <1>1 DEF EmitOutcome
  <2> QED
    BY <1>1, <2>1 DEF streamVars, JobTypes, StreamTypes, StreamInv, OpenStreamWillHear,
       CancelWins
<1>2. CASE terminal[j] = "none"
  <2>1. /\ terminal' = [terminal EXCEPT ![j] = Outcome(j, r)]
        /\ Closes({s \in subs[j] : stream[s] = "open"}, terminal'[j])
    BY <1>2 DEF EmitOutcome
  <2>2. Outcome(j, r) \in Results /\ (aborted[j] => Outcome(j, r) = "cancelled")
    BY DEF Outcome, Results
  <2>3. /\ terminal' \in [Jobs -> {"none"} \cup Results]
        /\ terminal'[j] = Outcome(j, r)
        /\ \A k \in Jobs \ {j} : terminal'[k] = terminal[k]
    BY <2>1, <2>2 DEF JobTypes
  <2>4. StreamTypes'
    BY <2>1, <2>2, <2>3 DEF Closes, StreamTypes
  <2>5. CancelWins'
    BY <2>2, <2>3 DEF CancelWins
  <2>6. StreamInv'
    <3> DEFINE closing == {s \in subs[j] : stream[s] = "open"}
    <3>1. /\ stream' = [s \in Streams |-> IF s \in closing THEN "closed" ELSE stream[s]]
          /\ subs' = [k \in Jobs |-> subs[k] \ closing]
          /\ on' = on
      BY <2>1 DEF Closes
    <3>2. \A s \in Streams : stream'[s] # "none" => on'[s] \in Jobs
      BY <3>1 DEF StreamInv, StreamTypes
    <3>3. ASSUME NEW s \in Streams, stream'[s] = "open"
          PROVE  terminal'[on'[s]] = "none" /\ s \in subs'[on'[s]]
      <4>1. s \notin closing /\ stream[s] = "open"
        BY <3>1, <3>3
      <4>2. on[s] \in Jobs /\ s \in subs[on[s]] /\ terminal[on[s]] = "none"
        BY <4>1 DEF StreamInv, OpenStreamWillHear
      <4>3. on[s] # j
        BY <4>1, <4>2
      <4> QED BY <2>3, <3>1, <4>1, <4>2, <4>3
    <3> QED BY <3>2, <3>3 DEF StreamInv, OpenStreamWillHear
  <2> QED BY <1>2, <2>3, <2>4, <2>5, <2>6
<1> QED BY <1>1, <1>2

\* A step that leaves the variables of a part alone preserves the part.
LEMMA Untouched ==
  /\ GateInv /\ UNCHANGED <<waiting, ahead, aged, running, runningSlots, step>> => GateInv'
  /\ FlagTypes /\ UNCHANGED <<accepting, drained>> => FlagTypes'
  /\ StreamTypes /\ UNCHANGED streamVars => StreamTypes'
  /\ StreamInv /\ UNCHANGED <<streamVars, terminal>> => StreamInv'
  /\ ChainInv /\ UNCHANGED <<gateVars, accepting, state, done>> => ChainInv'
  /\ OutcomeInv /\ UNCHANGED <<state, aborted, served, terminal, result, done>>
       => OutcomeInv'
  BY DEF GateInv, Consistent, HoldersOf, FlagTypes, StreamTypes, StreamInv,
     OpenStreamWillHear, streamVars, ChainInv, gateVars, Holders, OutcomeInv,
     OutcomesAgree, CancelWins, Outcome

\* A unit that is only started by drain keeps to its part of the chain.
LEMMA OthersKept ==
  ASSUME NEW u \in Units, OthersStay(u), NEW v \in Units \ {u}
  PROVE  /\ step'[v] = "over" <=> step[v] = "over"
         /\ step'[v] = "none" <=> step[v] = "none"
         /\ step[v] \in {"none", "queued", "granted"}
              => step'[v] \in {"none", "queued", "granted"}
  BY DEF OthersStay

\* When the last unit leaves the gate, nobody holds capacity.
LEMMA IdleIsEmpty ==
  ASSUME GateInv', FlagTypes, NotifyIdle, drained # "idle"
  PROVE  /\ drained' \in {"no", "waiting", "idle", "timeout"}
         /\ drained' = "idle" => waiting' = {} /\ Holders' = {}
         /\ drained = "no" => drained' = "no"
<1>1. running' = Cardinality(Holders') /\ Holders' \in SUBSET Units
  BY DEF GateInv, Consistent, HoldersOf, Holders
<1>2. IsFiniteSet(Holders')
  BY <1>1, JobConstants, FS_Subset DEF JobConstants
<1>3. running' = 0 => Holders' = {}
  BY <1>1, <1>2, FS_EmptySet
<1> QED BY <1>3 DEF NotifyIdle, Idle, FlagTypes

LEMMA FinishTypes ==
  ASSUME JobTypes, NEW j \in Jobs, FinishJob(j)
  PROVE  /\ jobs' \subseteq Jobs /\ fresh' \subseteq Jobs
         /\ elder' \in [Jobs -> SUBSET Jobs]
         /\ done' \in [Jobs -> BOOLEAN] /\ done' = [done EXCEPT ![j] = TRUE]
<1>1. jobs' \subseteq jobs
  BY DEF FinishJob, Prune
<1>2. {k \in Jobs : done[k]} \in SUBSET Jobs
  OBVIOUS
<1>3. elder' \in [Jobs -> SUBSET Jobs]
  BY <1>2 DEF FinishJob, JobTypes
<1> QED BY <1>1, <1>3 DEF FinishJob, JobTypes

Final(j, r) == CASE r = "cancelled" -> "cancelled"
                 [] r = "internal" /\ served[j] = "none" -> "failed"
                 [] OTHER -> "completed"

\* A job that ends with the outcome it emitted, or emits now, and the state
\* that goes with it.
LEMMA EndKeeps ==
  ASSUME Inv, NEW j \in Jobs, NEW r \in Results, ~done[j],
         terminal[j] = "none" => Outcome(j, r) = r,
         terminal[j] # "none" => terminal[j] = r,
         result' = [result EXCEPT ![j] = r],
         state' = [state EXCEPT ![j] = Final(j, r)],
         EmitOutcome(j, r), FinishJob(j), NotifyIdle, drained # "idle",
         GateInv', step'[j] = "over", OthersStay(j),
         UNCHANGED <<accepting, aborted, served, log>>
  PROVE  Inv'
<1>0. /\ GateInv /\ FlagTypes /\ JobTypes /\ StreamTypes /\ ChainInv /\ OutcomeInv
      /\ StreamInv
  BY DEF Inv
<1>1. /\ terminal' \in [Jobs -> {"none"} \cup Results]
      /\ StreamTypes' /\ StreamInv' /\ CancelWins'
      /\ terminal'[j] = r
      /\ \A k \in Jobs \ {j} : terminal'[k] = terminal[k]
  BY <1>0, EmitKeeps DEF OutcomeInv
<1>2. /\ jobs' \subseteq Jobs /\ fresh' \subseteq Jobs
      /\ elder' \in [Jobs -> SUBSET Jobs]
      /\ done' \in [Jobs -> BOOLEAN] /\ done' = [done EXCEPT ![j] = TRUE]
  BY <1>0, FinishTypes
<1>3. Final(j, r) \in {"completed", "failed", "cancelled"}
  BY DEF Final
<1>4. JobTypes'
  BY <1>0, <1>1, <1>2, <1>3 DEF JobTypes
<1>5. FlagTypes'
  BY <1>0, IdleIsEmpty DEF FlagTypes
<1>6. ChainInv'
  <2>1. ASSUME NEW k \in Jobs
        PROVE  /\ done'[k] <=> step'[k] = "over"
               /\ state'[k] = "none" <=> step'[k] = "none"
    <3>1. CASE k = j
      BY <1>0, <1>2, <1>3, <3>1 DEF JobTypes
    <3>2. CASE k # j
      BY <1>0, <1>2, <3>2, OthersKept, Apart DEF JobTypes, ChainInv
    <3> QED BY <3>1, <3>2
  <2>2. \A t \in Tasks : step'[t] \in {"none", "queued", "granted"}
    BY <1>0, OthersKept, Apart DEF ChainInv
  <2>3. /\ accepting' => drained' = "no"
        /\ drained' = "idle" => waiting' = {} /\ Holders' = {}
    BY <1>0, IdleIsEmpty DEF ChainInv
  <2> QED BY <2>1, <2>2, <2>3 DEF ChainInv
<1>7. OutcomeInv'
  <2>1. ASSUME NEW k \in Jobs
        PROVE  /\ done'[k] => /\ terminal'[k] # "none"
                              /\ terminal'[k] = result'[k]
                              /\ state'[k] = (Final(k, result[k]))'
               /\ ~done'[k] /\ served'[k] = "none" => terminal'[k] = "none"
               /\ served'[k] # "none" => terminal'[k] = (Outcome(k, served[k]))'
    <3>1. CASE k = j
      <4>1. done'[k] /\ terminal'[k] = r /\ r # "none"
        BY <1>0, <1>1, <1>2, <3>1 DEF JobTypes, Results
      <4>2. result'[k] = r /\ state'[k] = (Final(k, result[k]))'
        BY <1>0, <3>1 DEF JobTypes, Final
      <4>3. served'[k] # "none" => terminal'[k] = (Outcome(k, served[k]))'
        <5>1. served[j] # "none" => Outcome(j, served[j]) # "none"
          BY <1>0 DEF JobTypes, Outcome, Results
        <5> QED BY <1>0, <1>1, <3>1, <5>1 DEF OutcomeInv, Outcome
      <4> QED BY <4>1, <4>2, <4>3
    <3>2. CASE k # j
      BY <1>0, <1>1, <1>2, <3>2 DEF JobTypes, OutcomeInv, OutcomesAgree, Outcome, Final
    <3> QED BY <3>1, <3>2
  <2> QED BY <1>1, <2>1 DEF OutcomeInv, OutcomesAgree, Final
<1> QED BY <1>1, <1>4, <1>5, <1>6, <1>7 DEF Inv

(***************************************************************************)
(* The actions.                                                            *)
(***************************************************************************)
LEMMA SubmitKeeps == ASSUME Inv, NEW j \in Jobs, Submit(j) PROVE Inv'
<1>0. /\ GateInv /\ FlagTypes /\ JobTypes /\ StreamTypes /\ ChainInv /\ OutcomeInv
      /\ StreamInv
  BY DEF Inv
<1>1. /\ accepting /\ step[j] = "none" /\ ~done[j]
      /\ UNCHANGED <<accepting, elder, fresh, aborted, served, terminal, result, done,
                     streamVars>>
  BY <1>0 DEF Submit, ChainInv
<1>2. PICK kept \in SUBSET jobs :
        IF Cardinality(waiting) >= MaxQueued
          THEN jobs' = kept /\ UNCHANGED <<gateVars, state, log>>
          ELSE /\ jobs' = kept \cup {j}
               /\ state' = [state EXCEPT ![j] = "waiting"]
               /\ log' = [log EXCEPT ![j] =
                    waiting # {} \/ runningSlots + SlotsFor(j) > MaxConcurrent]
               /\ Acquire(j)
               /\ UNCHANGED drained
  BY DEF Submit
<1>3. CASE Cardinality(waiting) >= MaxQueued
  <2>1. JobTypes'
    BY <1>0, <1>1, <1>2, <1>3 DEF JobTypes, gateVars
  <2> QED BY <1>0, <1>1, <1>2, <1>3, <2>1, Untouched DEF Inv, gateVars, streamVars
<1>4. CASE ~(Cardinality(waiting) >= MaxQueued)
  <2>1. GateInv' /\ step'[j] \in {"queued", "granted"} /\ OthersStay(j)
    BY <1>0, <1>1, <1>2, <1>4, AcquireKeeps, Apart
  <2>2. JobTypes'
    <3> DEFINE full == waiting # {} \/ runningSlots + SlotsFor(j) > MaxConcurrent
    <3>1. log' = [log EXCEPT ![j] = full] /\ full \in BOOLEAN
      BY <1>2, <1>4
    <3> HIDE DEF full
    <3>2. log' \in [Jobs -> BOOLEAN]
      BY <1>0, <3>1 DEF JobTypes
    <3> QED BY <1>0, <1>1, <1>2, <1>4, <3>2 DEF JobTypes
  <2>3. ChainInv'
    <3>1. \A k \in Jobs : /\ done'[k] <=> step'[k] = "over"
                          /\ state'[k] = "none" <=> step'[k] = "none"
      BY <1>0, <1>1, <1>2, <1>4, <2>1, OthersKept, Apart DEF ChainInv, JobTypes
    <3>2. \A t \in Tasks : step'[t] \in {"none", "queued", "granted"}
      BY <1>0, <2>1, OthersKept, Apart DEF ChainInv
    <3> QED BY <1>0, <1>1, <1>2, <1>4, <3>1, <3>2 DEF ChainInv
  <2>4. OutcomeInv'
    BY <1>0, <1>1, <1>2, <1>4 DEF OutcomeInv, OutcomesAgree, CancelWins, Outcome, JobTypes
  <2> QED
    BY <1>0, <1>1, <1>2, <1>4, <2>1, <2>2, <2>3, <2>4, Untouched DEF Inv, streamVars
<1> QED BY <1>3, <1>4

LEMMA StartKeeps == ASSUME Inv, NEW j \in Jobs, Start(j) PROVE Inv'
<1>0. /\ GateInv /\ FlagTypes /\ JobTypes /\ StreamTypes /\ ChainInv /\ OutcomeInv
      /\ StreamInv
  BY DEF Inv
<1>1. step[j] = "granted" /\ step' = [step EXCEPT ![j] = "compiling"]
  BY DEF Start
<1>2. HoldersOf(step') = HoldersOf(step)
  BY <1>0, <1>1, Apart DEF HoldersOf, GateInv, Consistent
<1>3. {u \in Units : step'[u] = "queued"} = {u \in Units : step[u] = "queued"}
  BY <1>0, <1>1, Apart DEF GateInv, Consistent
<1>4. step' \in [Units -> Steps]
  BY <1>0, <1>1 DEF GateInv, Consistent, Steps
<1>5. GateInv'
  BY <1>0, <1>2, <1>3, <1>4 DEF Start, GateInv, Consistent
<1>6. JobTypes'
  BY <1>0 DEF Start, JobTypes, keepVars
<1>7. ChainInv'
  BY <1>0, <1>1, <1>2, Apart
  DEF Start, ChainInv, JobTypes, GateInv, Consistent, HoldersOf, Holders
<1>8. OutcomeInv'
  BY <1>0, <1>1 DEF Start, ChainInv, OutcomeInv, OutcomesAgree, CancelWins, Outcome, JobTypes
<1> QED BY <1>0, <1>5, <1>6, <1>7, <1>8, Untouched DEF Start, Inv

LEMMA ServeKeeps == ASSUME Inv, NEW j \in Jobs, NEW r \in Results, Serve(j, r) PROVE Inv'
<1>0. /\ GateInv /\ FlagTypes /\ JobTypes /\ StreamTypes /\ ChainInv /\ OutcomeInv
      /\ StreamInv
  BY DEF Inv
<1>1. /\ step[j] = "compiling" /\ served[j] = "none" /\ ~done[j]
      /\ served' = [served EXCEPT ![j] = r] /\ EmitOutcome(j, r) /\ UNCHANGED aborted
  BY <1>0 DEF Serve, ChainInv
<1>2. terminal[j] = "none"
  BY <1>0, <1>1 DEF OutcomeInv
<1>3. /\ terminal' \in [Jobs -> {"none"} \cup Results]
      /\ StreamTypes' /\ StreamInv' /\ CancelWins'
      /\ terminal'[j] = Outcome(j, r)
      /\ \A k \in Jobs \ {j} : terminal'[k] = terminal[k]
  BY <1>0, <1>1, <1>2, EmitKeeps DEF OutcomeInv
<1>4. JobTypes'
  BY <1>0, <1>1, <1>3 DEF Serve, JobTypes, keepVars
<1>5. OutcomeInv'
  <2>1. ASSUME NEW k \in Jobs
        PROVE  /\ done'[k] => /\ terminal'[k] # "none"
                              /\ terminal'[k] = result'[k]
                              /\ state'[k] = (Final(k, result[k]))'
               /\ ~done'[k] /\ served'[k] = "none" => terminal'[k] = "none"
               /\ served'[k] # "none" => terminal'[k] = (Outcome(k, served[k]))'
    <3>1. CASE k = j
      <4>1. served'[j] = r /\ r # "none" /\ ~done'[j]
        BY <1>0, <1>1 DEF Serve, JobTypes, Results
      <4> QED BY <1>1, <1>3, <3>1, <4>1 DEF Outcome
    <3>2. CASE k # j
      <4>1. served'[k] = served[k] /\ terminal'[k] = terminal[k]
        BY <1>1, <1>3, <3>2
      <4>2. UNCHANGED <<done, result, state, aborted>>
        BY DEF Serve
      <4> QED BY <1>0, <4>1, <4>2 DEF OutcomeInv, OutcomesAgree, Outcome, Final
    <3> QED BY <3>1, <3>2
  <2> QED BY <1>3, <2>1 DEF OutcomeInv, OutcomesAgree, Final
<1> QED BY <1>0, <1>3, <1>4, <1>5, Untouched DEF Serve, Inv, gateVars

\* The end of the chain, after a result or an exception.
LEMMA ConcludeKeeps ==
  ASSUME Inv, NEW j \in Jobs, NEW r \in Results, step[j] = "compiling",
         terminal[j] = "none" => Outcome(j, r) = r,
         terminal[j] # "none" => terminal[j] = r,
         Conclude(j, r, Final(j, r))
  PROVE  Inv'
<1>0. GateInv /\ ChainInv
  BY DEF Inv
<1>1. ~done[j]
  BY <1>0 DEF ChainInv
<1>2. j \in Units /\ Release(j, "over")
  BY Apart DEF Conclude
<1>3. GateInv' /\ step'[j] = "over" /\ OthersStay(j)
  BY <1>0, <1>2, ReleaseKeeps
<1>4. drained # "idle"
  BY <1>0, <1>2 DEF ChainInv, Holders
<1>5. NotifyIdle
  BY <1>2 DEF Release
<1> QED BY <1>1, <1>3, <1>4, <1>5, EndKeeps DEF Conclude

LEMMA ReturnKeeps == ASSUME Inv, NEW j \in Jobs, Return(j) PROVE Inv'
<1>0. JobTypes /\ ChainInv /\ OutcomeInv
  BY DEF Inv
<1>1. step[j] = "compiling" /\ (served[j] # "none" \/ aborted[j]) /\ ~done[j]
  BY <1>0 DEF Return, ChainInv
<1> DEFINE r == Outcome(j, served[j])
<1>2. r \in Results
  BY <1>0, <1>1 DEF JobTypes, Outcome, Results
<1>3. served[j] # "none" => terminal[j] = r
  BY <1>0 DEF OutcomeInv
<1>4. served[j] = "none" => r = "cancelled" /\ terminal[j] = "none" /\ aborted[j]
  BY <1>0, <1>1 DEF OutcomeInv, Outcome
<1>5. Outcome(j, r) = r
  BY DEF Outcome
<1>6. r # "none"
  BY <1>2 DEF Results
<1>7. Final(j, r) = IF r = "cancelled" THEN "cancelled" ELSE "completed"
  BY <1>4 DEF Final
<1>8. Conclude(j, r, Final(j, r))
  BY <1>7 DEF Return
<1>9. terminal[j] # "none" => terminal[j] = r
  BY <1>3, <1>4
<1> QED
  <2> HIDE DEF r
  <2> QED BY <1>1, <1>2, <1>5, <1>8, <1>9, ConcludeKeeps

LEMMA ThrowKeeps == ASSUME Inv, NEW j \in Jobs, Throw(j) PROVE Inv'
<1>0. JobTypes /\ ChainInv /\ OutcomeInv
  BY DEF Inv
<1>1. step[j] = "compiling" /\ served[j] = "none" /\ ~done[j]
  BY <1>0 DEF Throw, ChainInv
<1> DEFINE r == Outcome(j, "internal")
<1>2. r \in Results /\ terminal[j] = "none" /\ Outcome(j, r) = r
  BY <1>0, <1>1 DEF OutcomeInv, Outcome, Results
<1>3. Final(j, r) = IF aborted[j] THEN "cancelled" ELSE "failed"
  BY <1>1 DEF Final, Outcome
<1>4. Conclude(j, r, Final(j, r))
  BY <1>3 DEF Throw
<1> QED
  <2> HIDE DEF r
  <2> QED BY <1>1, <1>2, <1>4, ConcludeKeeps

LEMMA CancelWaitingKeeps == ASSUME Inv, NEW j \in Jobs, CancelWaiting(j) PROVE Inv'
<1>0. GateInv /\ ChainInv
  BY DEF Inv
<1>1. /\ ~done[j] /\ terminal[j] = "none" /\ step[j] = "queued"
      /\ result' = [result EXCEPT ![j] = "cancelled"]
      /\ state' = [state EXCEPT ![j] = "cancelled"]
      /\ EmitOutcome(j, "cancelled") /\ FinishJob(j) /\ NotifyIdle
      /\ UNCHANGED <<accepting, aborted, served, log>>
  BY DEF CancelWaiting
<1>2. Drain(waiting \ {j}, [u \in Units |-> ahead[u] \ {j}], running, runningSlots,
            [step EXCEPT ![j] = "over"])
  BY DEF CancelWaiting, Unqueued
<1>3. GateInv' /\ step'[j] = "over" /\ OthersStay(j)
  BY <1>0, <1>1, <1>2, UnqueueKeeps, Apart
<1>4. drained # "idle"
  <2>1. j \in waiting
    BY <1>0, <1>1, Apart DEF GateInv, Consistent
  <2> QED BY <1>0, <2>1 DEF ChainInv
<1>5. Final(j, "cancelled") = "cancelled" /\ Outcome(j, "cancelled") = "cancelled"
  BY DEF Final, Outcome
<1>6. "cancelled" \in Results
  BY DEF Results
<1> QED BY <1>1, <1>3, <1>4, <1>5, <1>6, EndKeeps

LEMMA CancelRunningKeeps == ASSUME Inv, NEW j \in Jobs, CancelRunning(j) PROVE Inv'
<1>0. /\ GateInv /\ FlagTypes /\ JobTypes /\ StreamTypes /\ ChainInv /\ OutcomeInv
      /\ StreamInv
  BY DEF Inv
<1>1. /\ ~done[j] /\ terminal[j] = "none" /\ step[j] \in {"granted", "compiling"}
      /\ state' = [state EXCEPT ![j] = "cancelling"]
      /\ aborted' = [aborted EXCEPT ![j] = TRUE]
      /\ UNCHANGED <<gateVars, accepting, keepVars, served, terminal, result, done, log,
                     streamVars>>
  BY DEF CancelRunning, Cancellable
<1>2. JobTypes'
  BY <1>0, <1>1 DEF JobTypes, keepVars
<1>3. ChainInv'
  BY <1>0, <1>1 DEF ChainInv, JobTypes, gateVars, Holders
<1>4. OutcomeInv'
  <2>1. served[j] = "none"
    BY <1>0, <1>1 DEF OutcomeInv, JobTypes, Outcome, Results
  <2> QED
    BY <1>0, <1>1, <2>1 DEF OutcomeInv, OutcomesAgree, CancelWins, Outcome, JobTypes
<1> QED BY <1>0, <1>1, <1>2, <1>3, <1>4, Untouched DEF Inv, gateVars

LEMMA SubscribeKeeps ==
  ASSUME Inv, NEW s \in Streams, NEW j \in Jobs, Subscribe(s, j) PROVE Inv'
<1>0. /\ GateInv /\ FlagTypes /\ JobTypes /\ StreamTypes /\ ChainInv /\ OutcomeInv
      /\ StreamInv
  BY DEF Inv
<1>1. PICK gone \in BOOLEAN :
        /\ heard' = [heard EXCEPT ![s] = IF gone THEN "none" ELSE terminal[j]]
        /\ stream' = [stream EXCEPT ![s] =
             IF terminal[j] # "none" \/ (gone /\ log[j]) THEN "closed" ELSE "open"]
  BY DEF Subscribe, Replay
<1>2. /\ stream[s] = "none" /\ on' = [on EXCEPT ![s] = j]
      /\ subs' = [subs EXCEPT ![j] = IF done[j] THEN @ ELSE @ \cup {s}]
      /\ UNCHANGED <<gateVars, accepting, keepVars, state, aborted, served, terminal,
                     result, done, log>>
  BY DEF Subscribe
<1>3. StreamTypes'
  <2>1. heard' \in [Streams -> {"none"} \cup Results]
    BY <1>0, <1>1 DEF StreamTypes, JobTypes
  <2>2. stream' \in [Streams -> {"none", "open", "closed"}]
    BY <1>0, <1>1 DEF StreamTypes
  <2>3. subs' \in [Jobs -> SUBSET Streams] /\ on' \in [Streams -> Jobs \cup {"none"}]
    BY <1>0, <1>2 DEF StreamTypes
  <2> QED BY <2>1, <2>2, <2>3 DEF StreamTypes
<1>4. StreamInv'
  <2>1. ASSUME NEW t \in Streams
        PROVE  stream'[t] # "none" => on'[t] \in Jobs
    BY <1>0, <1>1, <1>2 DEF StreamInv, StreamTypes
  <2>2. ASSUME NEW t \in Streams, stream'[t] = "open"
        PROVE  terminal'[on'[t]] = "none" /\ t \in subs'[on'[t]]
    <3>1. CASE t = s
      <4>1. terminal[j] = "none" /\ on'[t] = j
        BY <1>0, <1>1, <1>2, <2>2, <3>1 DEF StreamTypes
      <4>2. ~done[j]
        BY <1>0, <4>1 DEF OutcomeInv, OutcomesAgree
      <4> QED BY <1>0, <1>2, <3>1, <4>1, <4>2 DEF StreamTypes
    <3>2. CASE t # s
      <4>1. stream[t] = "open" /\ on'[t] = on[t]
        BY <1>0, <1>1, <1>2, <2>2, <3>2 DEF StreamTypes
      <4>2. on[t] \in Jobs /\ terminal[on[t]] = "none" /\ t \in subs[on[t]]
        BY <1>0, <4>1 DEF StreamInv, OpenStreamWillHear
      <4> QED BY <1>0, <1>2, <4>1, <4>2 DEF StreamTypes
    <3> QED BY <3>1, <3>2
  <2> QED BY <2>1, <2>2 DEF StreamInv, OpenStreamWillHear
<1>5. JobTypes'
  BY <1>0, <1>2 DEF JobTypes, keepVars
<1> QED BY <1>0, <1>2, <1>3, <1>4, <1>5, Untouched DEF Inv, gateVars

LEMMA DisconnectKeeps == ASSUME Inv, NEW s \in Streams, Disconnect(s) PROVE Inv'
<1>0. /\ GateInv /\ FlagTypes /\ JobTypes /\ StreamTypes /\ ChainInv /\ OutcomeInv
      /\ StreamInv
  BY DEF Inv
<1>1. /\ stream' = [t \in Streams |-> IF t \in {s} THEN "closed" ELSE stream[t]]
      /\ heard' = [t \in Streams |-> IF t \in {s} THEN "none" ELSE heard[t]]
      /\ subs' = [j \in Jobs |-> subs[j] \ {s}]
      /\ stream[s] = "open"
      /\ UNCHANGED <<on, gateVars, accepting, keepVars, state, aborted, served, terminal,
                     result, done, log>>
  BY DEF Disconnect, Closes
<1>2. StreamTypes'
  BY <1>0, <1>1 DEF StreamTypes
<1>3. StreamInv'
  <2>1. \A t \in Streams : stream'[t] # "none" => on'[t] \in Jobs
    BY <1>0, <1>1 DEF StreamInv, StreamTypes
  <2>2. ASSUME NEW t \in Streams, stream'[t] = "open"
        PROVE  terminal'[on'[t]] = "none" /\ t \in subs'[on'[t]]
    <3>1. stream[t] = "open" /\ t # s
      BY <1>1, <2>2
    <3>2. on[t] \in Jobs /\ terminal[on[t]] = "none" /\ t \in subs[on[t]]
      BY <1>0, <3>1 DEF StreamInv, OpenStreamWillHear
    <3> QED BY <1>1, <3>1, <3>2
  <2> QED BY <2>1, <2>2 DEF StreamInv, OpenStreamWillHear
<1>4. JobTypes'
  BY <1>0, <1>1 DEF JobTypes, keepVars
<1> QED BY <1>0, <1>1, <1>2, <1>3, <1>4, Untouched DEF Inv, gateVars

\* A caller of withCapacity enters and leaves the gate.
LEMMA TaskKeeps ==
  ASSUME Inv, NEW t \in Tasks, TaskCalls(t) \/ TaskEnds(t) PROVE Inv'
<1>0. /\ GateInv /\ FlagTypes /\ JobTypes /\ StreamTypes /\ ChainInv /\ OutcomeInv
      /\ StreamInv
  BY DEF Inv
<1>1. /\ UNCHANGED <<accepting, keepVars, state, aborted, served, terminal, result, done,
                     log, streamVars>>
      /\ t \in Units
  BY Apart DEF TaskCalls, TaskEnds
<1>2. JobTypes'
  BY <1>0, <1>1 DEF JobTypes, keepVars
<1>3. /\ GateInv' /\ OthersStay(t) /\ step'[t] \in {"none", "queued", "granted"}
      /\ drained' \in {"no", "waiting", "idle", "timeout"}
      /\ drained' = "idle" => waiting' = {} /\ Holders' = {}
      /\ accepting' => drained' = "no"
  <2>1. CASE TaskCalls(t)
    <3>1. step[t] = "none" /\ accepting /\ Acquire(t) /\ UNCHANGED drained
      BY <2>1 DEF TaskCalls
    <3>2. GateInv' /\ OthersStay(t) /\ step'[t] \in {"queued", "granted"}
      BY <1>0, <1>1, <3>1, AcquireKeeps
    <3> QED BY <1>0, <3>1, <3>2 DEF ChainInv
  <2>2. CASE TaskEnds(t)
    <3>1. step[t] = "granted" /\ Release(t, "none")
      BY <2>2 DEF TaskEnds
    <3>2. GateInv' /\ OthersStay(t) /\ step'[t] = "none"
      BY <1>0, <1>1, <3>1, ReleaseKeeps
    <3>3. drained # "idle" /\ NotifyIdle
      BY <1>0, <1>1, <3>1 DEF ChainInv, Holders, Release
    <3> QED BY <1>0, <1>1, <3>2, <3>3, IdleIsEmpty DEF ChainInv
  <2> QED BY <2>1, <2>2
<1>4. FlagTypes'
  BY <1>0, <1>1, <1>3 DEF FlagTypes
<1>5. ChainInv'
  <2>1. \A k \in Jobs : /\ done'[k] <=> step'[k] = "over"
                        /\ state'[k] = "none" <=> step'[k] = "none"
    BY <1>0, <1>1, <1>3, OthersKept, Apart DEF ChainInv
  <2>2. \A k \in Tasks : step'[k] \in {"none", "queued", "granted"}
    BY <1>0, <1>1, <1>3, OthersKept, Apart DEF ChainInv
  <2> QED BY <1>3, <2>1, <2>2 DEF ChainInv
<1> QED BY <1>0, <1>1, <1>2, <1>3, <1>4, <1>5, Untouched DEF Inv

\* Time, retention and shutdown.
LEMMA TimeKeeps ==
  ASSUME Inv,
         \/ \E u \in Units : Age(u)
         \/ \E j \in Jobs : Settle(j) \/ Progress(j)
         \/ Sweep \/ Shutdown \/ ShutdownTimeout \/ UNCHANGED vars
  PROVE  Inv'
<1>0. /\ GateInv /\ FlagTypes /\ JobTypes /\ StreamTypes /\ ChainInv /\ OutcomeInv
      /\ StreamInv
  BY DEF Inv
<1>1. /\ UNCHANGED <<state, aborted, served, terminal, result, done, streamVars>>
      /\ UNCHANGED <<waiting, ahead, running, runningSlots, step>>
  BY DEF Age, Settle, Progress, Sweep, Shutdown, ShutdownTimeout, vars, gateVars
<1>2. aged' \subseteq waiting
  BY <1>0 DEF GateInv, Age, Settle, Progress, Sweep, Shutdown, ShutdownTimeout, vars, gateVars
<1>3. GateInv'
  BY <1>0, <1>1, <1>2 DEF GateInv, Consistent, HoldersOf
<1>4. jobs' \subseteq jobs /\ fresh' \subseteq fresh /\ UNCHANGED elder
  BY DEF Age, Settle, Progress, Sweep, Shutdown, ShutdownTimeout, vars, Prune, keepVars,
         gateVars
<1>5. log' \in [Jobs -> BOOLEAN]
  BY <1>0 DEF JobTypes, Age, Settle, Progress, Sweep, Shutdown, ShutdownTimeout, vars
<1>6. JobTypes'
  BY <1>0, <1>1, <1>4, <1>5 DEF JobTypes
<1>7. \/ UNCHANGED <<accepting, drained>>
      \/ /\ accepting' = FALSE /\ drained' \in {"waiting", "idle"}
         /\ drained' = "idle" => running = 0 /\ waiting = {}
      \/ drained = "waiting" /\ drained' = "timeout" /\ UNCHANGED accepting
  BY DEF Age, Settle, Progress, Sweep, Shutdown, ShutdownTimeout, vars, gateVars
<1>8. running = 0 => Holders = {}
  <2>1. running = Cardinality(Holders) /\ Holders \in SUBSET Units
    BY <1>0 DEF GateInv, Consistent, HoldersOf, Holders
  <2>2. IsFiniteSet(Holders)
    BY <2>1, JobConstants, FS_Subset DEF JobConstants
  <2> QED BY <2>1, <2>2, FS_EmptySet
<1>9. Holders' = Holders /\ waiting' = waiting
  BY <1>1 DEF Holders
<1>10. FlagTypes'
  BY <1>0, <1>7 DEF FlagTypes
<1>11. ChainInv'
  <2>1. /\ accepting' => drained' = "no"
        /\ drained' = "idle" => waiting = {} /\ Holders = {}
    BY <1>0, <1>7, <1>8 DEF ChainInv, FlagTypes
  <2> QED BY <1>0, <1>1, <1>9, <2>1 DEF ChainInv
<1> QED BY <1>0, <1>1, <1>3, <1>6, <1>10, <1>11, Untouched DEF Inv

LEMMA InvInit == Init => Inv
<1> SUFFICES ASSUME Init PROVE Inv
  OBVIOUS
<1> USE DEF Init
<1>1. GateInv
  <2>1. HoldersOf(step) = {} /\ Ordered({}, ahead) /\ step \in [Units -> Steps]
    BY DEF HoldersOf, Ordered, Steps
  <2>2. Cardinality({}) = 0
    BY FS_EmptySet
  <2>3. running = Cardinality(HoldersOf(step)) /\ runningSlots = SlotsOf(HoldersOf(step))
    BY <2>1, <2>2, SlotsOfNone
  <2>4. waiting = {u \in Units : step[u] = "queued"} /\ aged \subseteq waiting
    OBVIOUS
  <2>5. Ordered(waiting, ahead) /\ runningSlots <= MaxConcurrent
    BY <2>1, JobConstants DEF JobConstants
  <2> QED BY <2>1, <2>3, <2>4, <2>5 DEF GateInv, Consistent
<1>2. FlagTypes /\ JobTypes /\ StreamTypes
  BY DEF FlagTypes, JobTypes, StreamTypes
<1>3. ChainInv
  BY Apart DEF ChainInv, Holders
<1>4. OutcomeInv
  BY DEF OutcomeInv, OutcomesAgree, CancelWins
<1>5. StreamInv
  BY DEF StreamInv, OpenStreamWillHear
<1> QED BY <1>1, <1>2, <1>3, <1>4, <1>5 DEF Inv

LEMMA InvNext == Inv /\ [Next]_vars => Inv'
<1> SUFFICES ASSUME Inv, [Next]_vars PROVE Inv'
  OBVIOUS
<1>1. CASE \E j \in Jobs : \/ Submit(j) \/ Start(j) \/ Return(j) \/ Throw(j)
                           \/ CancelWaiting(j) \/ CancelRunning(j)
                           \/ \E r \in Results : Serve(j, r)
  BY <1>1, SubmitKeeps, StartKeeps, ReturnKeeps, ThrowKeeps, CancelWaitingKeeps,
     CancelRunningKeeps, ServeKeeps
<1>2. CASE \E t \in Tasks : TaskCalls(t) \/ TaskEnds(t)
  BY <1>2, TaskKeeps
<1>3. CASE \E s \in Streams : Disconnect(s) \/ \E j \in Jobs : Subscribe(s, j)
  BY <1>3, SubscribeKeeps, DisconnectKeeps
<1>4. CASE \/ \E u \in Units : Age(u)
           \/ \E j \in Jobs : Settle(j) \/ Progress(j)
           \/ Sweep \/ Shutdown \/ ShutdownTimeout \/ UNCHANGED vars
  BY <1>4, TimeKeeps
<1> QED BY <1>1, <1>2, <1>3, <1>4 DEF Next

LEMMA InvHolds == Spec => []Inv
  BY InvInit, InvNext, PTL DEF Spec

(***************************************************************************)
(* The theorems.                                                           *)
(***************************************************************************)
\* Every variable keeps to the values the code can produce, for any number of
\* jobs, tasks, streams and slots.
THEOREM TypeCorrect == Spec => []TypeOK
<1>1. Inv => TypeOK
  <2> SUFFICES ASSUME Inv PROVE TypeOK
    OBVIOUS
  <2>1. Holders \in SUBSET Units /\ running = Cardinality(Holders)
        /\ runningSlots = SlotsOf(Holders)
    BY DEF Inv, GateInv, Consistent, HoldersOf, Holders
  <2>2. running \in Nat /\ runningSlots \in Nat
    BY <2>1, PlacesFinite, JobConstants, FS_Subset, FS_CardinalityType DEF JobConstants
  <2> QED BY <2>2 DEF Inv, TypeOK, GateTypes, GateInv, Consistent, Ordered, Steps, FlagTypes
<1> QED BY <1>1, InvHolds, PTL

\* The gate of the code neither leaks nor oversubscribes capacity, whatever the
\* estimates: its counters are always those of the jobs and tasks that hold it.
THEOREM GateIsExact == Spec => []SlotsAccounted
<1>1. Inv => SlotsAccounted
  BY DEF Inv, GateInv, Consistent, HoldersOf, Holders, SlotsAccounted
<1> QED BY <1>1, InvHolds, PTL

\* The done event, the polled result and the job's state are one outcome.
THEOREM OutcomesAlwaysAgree == Spec => []OutcomesAgree
<1>1. Inv => OutcomesAgree
  BY DEF Inv, OutcomeInv
<1> QED BY <1>1, InvHolds, PTL

\* A cancellation the manager has granted is never overtaken by a result.
THEOREM CancelAlwaysWins == Spec => []CancelWins
<1>1. Inv => CancelWins
  BY DEF Inv, OutcomeInv
<1> QED BY <1>1, InvHolds, PTL

\* A stream that is open has not missed the outcome of its job.
THEOREM OpenStreamsHear == Spec => []OpenStreamWillHear
<1>1. Inv => OpenStreamWillHear
  BY DEF Inv, StreamInv
<1> QED BY <1>1, InvHolds, PTL

\* What shutdown is told is true: an idle server has finished every job.
THEOREM IdleIsTheTruth == Spec => []IdleMeansFinished
<1>1. Inv => IdleMeansFinished
  <2> SUFFICES ASSUME Inv, drained = "idle" PROVE IdleMeansFinished
    BY DEF IdleMeansFinished
  <2>1. waiting = {} /\ Holders = {}
    BY DEF Inv, ChainInv
  <2>2. \A u \in Units : step[u] \in {"none", "over"}
    BY <2>1 DEF Inv, GateInv, Consistent, Steps, Holders
  <2> QED BY <2>2, Apart DEF Inv, ChainInv, IdleMeansFinished
<1> QED BY <1>1, InvHolds, PTL

(***************************************************************************)
(* The refinement: the manager keeps the promise of one outcome.           *)
(***************************************************************************)
\* A subscriber waits for the job it asked for, and only a stream that was
\* closed has heard anything.
WatchInv ==
  \A s \in Streams :
    /\ stream[s] # "closed" => heard[s] = "none"
    /\ \A j \in Jobs : s \in subs[j] => on[s] = j /\ stream[s] # "none"

Accepted == {j \in Jobs : state[j] # "none"}
Granted  == {j \in Jobs : aborted[j]}
Told     == [s \in Streams |-> IF heard[s] = "none" THEN {} ELSE {<<on[s], heard[s]>>}]

LEMMA PromiseVars ==
  UNCHANGED <<Accepted, Granted, terminal, result, Told>> <=> UNCHANGED Promise!vars
  BY DEF Promise!vars, Accepted, Granted, Told

\* A step that moves no outcome and no stream is one the promise does not see.
LEMMA PromiseStutters ==
  ASSUME UNCHANGED <<Accepted, aborted, terminal, result, on, heard>>
  PROVE  UNCHANGED Promise!vars
  BY PromiseVars DEF Granted, Told

\* To emit an outcome is to decide it, or to publish the one that was decided,
\* for the streams that wait and, with the end of the chain, for the polls.
LEMMA EmitKeepsPromise ==
  ASSUME JobTypes, StreamTypes, WatchInv, NEW j \in Jobs, NEW r \in Results,
         EmitOutcome(j, r), j \in Accepted, UNCHANGED <<Accepted, aborted>>,
         terminal'[j] # "none",
         result' \in {result, [result EXCEPT ![j] = terminal'[j]]}
  PROVE  [Promise!Next]_(Promise!vars) /\ WatchInv'
<1>0. UNCHANGED Granted
  BY DEF Granted
<1>1. CASE terminal[j] # "none"
  <2>1. UNCHANGED <<terminal, streamVars>>
    BY <1>1 DEF EmitOutcome
  <2>2. Told' = [s \in Streams |-> IF s \in {} THEN Told[s] \cup {<<j, terminal'[j]>>} ELSE Told[s]]
    BY <2>1 DEF Told, streamVars
  <2>3. Promise!Tell(j, {})
    BY <2>2 DEF Promise!Tell, Told
  <2>4. Promise!Publish(j)
    BY <1>0, <1>1, <2>1, <2>3 DEF Promise!Publish, Accepted, Granted
  <2> QED BY <2>1, <2>4 DEF Promise!Next, WatchInv, streamVars
<1>2. CASE terminal[j] = "none"
  <2> DEFINE closing == {s \in subs[j] : stream[s] = "open"}
  <2>1. /\ terminal' = [terminal EXCEPT ![j] = Outcome(j, r)]
        /\ stream' = [s \in Streams |-> IF s \in closing THEN "closed" ELSE stream[s]]
        /\ heard' = [s \in Streams |-> IF s \in closing THEN terminal'[j] ELSE heard[s]]
        /\ subs' = [k \in Jobs |-> subs[k] \ closing]
        /\ on' = on
    BY <1>2 DEF EmitOutcome, Closes
  <2>2. Outcome(j, r) \in Results /\ (j \in Granted => Outcome(j, r) = "cancelled")
    BY DEF Outcome, Results, Granted
  <2>3. terminal'[j] = Outcome(j, r)
    BY <2>1 DEF JobTypes
  <2>4. closing \in SUBSET Streams
    BY DEF StreamTypes
  <2>5. ASSUME NEW s \in Streams
        PROVE  Told'[s] = IF s \in closing THEN Told[s] \cup {<<j, terminal'[j]>>} ELSE Told[s]
    <3>1. CASE s \in closing
      <4>1. heard[s] = "none" /\ on[s] = j
        BY <3>1 DEF WatchInv
      <4> QED BY <2>1, <3>1, <4>1 DEF Told
    <3>2. CASE s \notin closing
      BY <2>1, <3>2 DEF Told
    <3> QED BY <3>1, <3>2
  <2>6. Promise!Tell(j, closing)
    <3>1. Told' = [s \in Streams |-> IF s \in closing THEN Told[s] \cup {<<j, terminal'[j]>>} ELSE Told[s]]
      BY <2>5 DEF Told
    <3> QED BY <3>1 DEF Promise!Tell, Told
  <2>7. Promise!Decide(j, Outcome(j, r))
    <3>1. \E W \in SUBSET Streams : Promise!Tell(j, W)
      <4> HIDE DEF closing
      <4> QED BY <2>4, <2>6 DEF Promise!Tell
    <3>2. result' \in {result, [result EXCEPT ![j] = Outcome(j, r)]}
      BY <2>3
    <3>3. terminal' = [terminal EXCEPT ![j] = Outcome(j, r)]
      BY <2>1
    <3> QED BY <1>0, <1>2, <2>2, <3>1, <3>2, <3>3 DEF Promise!Decide, Accepted, Granted
  <2>8. WatchInv'
    BY <2>1, <2>4 DEF WatchInv, StreamTypes
  <2> QED BY <2>2, <2>7, <2>8 DEF Promise!Next
<1> QED BY <1>1, <1>2

\* A job that ends: whatever the last step of its chain is.
LEMMA EndKeepsPromise ==
  ASSUME Inv, Inv', WatchInv, NEW j \in Jobs, NEW r \in Results, ~done[j],
         step[j] # "none", result' = [result EXCEPT ![j] = r],
         state' = [state EXCEPT ![j] = Final(j, r)], EmitOutcome(j, r),
         FinishJob(j), UNCHANGED aborted
  PROVE  [Promise!Next]_(Promise!vars) /\ WatchInv'
<1>1. JobTypes /\ StreamTypes /\ ChainInv
  BY DEF Inv
<1>2. Final(j, r) # "none"
  BY DEF Final
<1>3. j \in Accepted /\ Accepted' = Accepted
  BY <1>1, <1>2 DEF Accepted, ChainInv, JobTypes
<1>4. done'[j] /\ result'[j] = r
  BY <1>1 DEF FinishJob, JobTypes
<1>5. terminal'[j] = r /\ terminal'[j] # "none"
  BY <1>4 DEF Inv, OutcomeInv, OutcomesAgree
<1> QED BY <1>1, <1>3, <1>5, EmitKeepsPromise

LEMMA SubmitKeepsPromise ==
  ASSUME Inv, WatchInv, NEW j \in Jobs, Submit(j)
  PROVE  [Promise!Next]_(Promise!vars) /\ WatchInv'
<1>1. /\ state' \in {state, [state EXCEPT ![j] = "waiting"]}
      /\ UNCHANGED <<aborted, terminal, result, streamVars>>
  BY DEF Submit
<1>2. WatchInv'
  BY <1>1 DEF WatchInv, streamVars
<1>3. CASE state' = state
  BY <1>1, <1>2, <1>3, PromiseStutters DEF Accepted, streamVars
<1>4. CASE state' = [state EXCEPT ![j] = "waiting"]
  <2>1. Accepted' = Accepted \cup {j}
    BY <1>4 DEF Accepted, Inv, JobTypes
  <2>2. Promise!Accept(j)
    BY <1>1, <2>1 DEF Promise!Accept, Accepted, Granted, streamVars
  <2> QED BY <1>2, <2>2 DEF Promise!Next
<1> QED BY <1>1, <1>3, <1>4

LEMMA CancelRunningKeepsPromise ==
  ASSUME Inv, WatchInv, NEW j \in Jobs, CancelRunning(j)
  PROVE  [Promise!Next]_(Promise!vars) /\ WatchInv'
<1>1. /\ terminal[j] = "none" /\ step[j] \in {"granted", "compiling"}
      /\ state' = [state EXCEPT ![j] = "cancelling"]
      /\ aborted' = [aborted EXCEPT ![j] = TRUE]
      /\ UNCHANGED <<terminal, result, streamVars>>
  BY DEF CancelRunning, Cancellable
<1>2. JobTypes /\ state[j] # "none"
  BY <1>1 DEF Inv, ChainInv
<1>3. j \in Accepted /\ Accepted' = Accepted
  BY <1>1, <1>2 DEF Accepted, JobTypes
<1>4. Granted' = Granted \cup {j}
  BY <1>1, <1>2 DEF Granted, JobTypes
<1>5. Promise!Grant(j)
  BY <1>1, <1>3, <1>4 DEF Promise!Grant, Accepted, Granted, streamVars
<1> QED BY <1>1, <1>5 DEF Promise!Next, WatchInv, streamVars

\* A new stream is told the outcome of its job if there is one.
LEMMA SubscribeKeepsPromise ==
  ASSUME Inv, WatchInv, NEW s \in Streams, NEW j \in Jobs, Subscribe(s, j)
  PROVE  [Promise!Next]_(Promise!vars) /\ WatchInv'
<1>1. PICK gone \in BOOLEAN :
        /\ heard' = [heard EXCEPT ![s] = IF gone THEN "none" ELSE terminal[j]]
        /\ stream' = [stream EXCEPT ![s] =
             IF terminal[j] # "none" \/ (gone /\ log[j]) THEN "closed" ELSE "open"]
  BY DEF Subscribe, Replay
<1>2. /\ stream[s] = "none" /\ on' = [on EXCEPT ![s] = j]
      /\ subs' = [subs EXCEPT ![j] = IF done[j] THEN @ ELSE @ \cup {s}]
      /\ UNCHANGED <<state, aborted, terminal, result>>
  BY DEF Subscribe
<1>3. JobTypes /\ StreamTypes
  BY DEF Inv
<1>4. heard[s] = "none" /\ \A k \in Jobs : s \notin subs[k]
  BY <1>2 DEF WatchInv
<1>5. WatchInv'
  <2>1. ASSUME NEW t \in Streams
        PROVE  /\ stream'[t] # "closed" => heard'[t] = "none"
               /\ \A k \in Jobs : t \in subs'[k] => on'[t] = k /\ stream'[t] # "none"
    <3>1. CASE t = s
      BY <1>1, <1>2, <1>3, <1>4, <3>1 DEF StreamTypes
    <3>2. CASE t # s
      BY <1>1, <1>2, <1>3, <3>2 DEF StreamTypes, WatchInv
    <3> QED BY <3>1, <3>2
  <2> QED BY <2>1 DEF WatchInv
<1>6. \A t \in Streams \ {s} : heard'[t] = heard[t] /\ on'[t] = on[t]
  BY <1>1, <1>2, <1>3 DEF StreamTypes
<1>7. UNCHANGED <<Accepted, Granted, terminal, result>>
  BY <1>2 DEF Accepted, Granted
<1>8. CASE heard'[s] = "none"
  <2>1. Told' = Told
    BY <1>4, <1>6, <1>8 DEF Told
  <2> QED BY <1>5, <1>7, <2>1, PromiseVars
<1>9. CASE heard'[s] # "none"
  <2>1. heard'[s] = terminal[j] /\ terminal[j] # "none" /\ on'[s] = j
    BY <1>1, <1>2, <1>3, <1>9 DEF StreamTypes
  <2>2. Told' = [t \in Streams |-> IF t \in {s} THEN Told[t] \cup {<<j, terminal'[j]>>} ELSE Told[t]]
    BY <1>2, <1>4, <1>6, <1>9, <2>1 DEF Told
  <2>3. Promise!Tell(j, {s})
    BY <2>2 DEF Promise!Tell, Told
  <2>4. Promise!Publish(j)
    BY <1>7, <2>1, <2>3 DEF Promise!Publish, Accepted, Granted
  <2> QED BY <1>5, <2>4 DEF Promise!Next
<1> QED BY <1>8, <1>9

\* A stream that disconnects had heard nothing.
LEMMA DisconnectKeepsPromise ==
  ASSUME Inv, WatchInv, NEW s \in Streams, Disconnect(s)
  PROVE  [Promise!Next]_(Promise!vars) /\ WatchInv'
<1>1. /\ stream' = [t \in Streams |-> IF t \in {s} THEN "closed" ELSE stream[t]]
      /\ heard' = [t \in Streams |-> IF t \in {s} THEN "none" ELSE heard[t]]
      /\ subs' = [j \in Jobs |-> subs[j] \ {s}]
      /\ stream[s] = "open"
      /\ UNCHANGED <<on, state, aborted, terminal, result>>
  BY DEF Disconnect, Closes
<1>2. WatchInv'
  BY <1>1 DEF WatchInv
<1>3. heard' = heard
  BY <1>1 DEF WatchInv, Inv, StreamTypes
<1> QED BY <1>1, <1>2, <1>3, PromiseStutters DEF Accepted

LEMMA PromiseNext ==
  ASSUME Inv, Inv', WatchInv, [Next]_vars
  PROVE  [Promise!Next]_(Promise!vars) /\ WatchInv'
<1>0. JobTypes /\ StreamTypes /\ ChainInv /\ OutcomeInv
  BY DEF Inv
<1>1. ASSUME NEW j \in Jobs, Submit(j) PROVE [Promise!Next]_(Promise!vars) /\ WatchInv'
  BY <1>1, SubmitKeepsPromise
<1>2. ASSUME NEW j \in Jobs, Start(j) PROVE [Promise!Next]_(Promise!vars) /\ WatchInv'
  <2>1. Accepted' = Accepted
    BY <1>0, <1>2 DEF Start, Accepted, ChainInv, JobTypes
  <2> QED BY <1>2, <2>1, PromiseStutters DEF Start, WatchInv, streamVars
<1>3. ASSUME NEW j \in Jobs, NEW r \in Results, Serve(j, r)
      PROVE  [Promise!Next]_(Promise!vars) /\ WatchInv'
  <2>1. /\ EmitOutcome(j, r) /\ UNCHANGED <<state, aborted, result>>
        /\ step[j] = "compiling" /\ served'[j] # "none"
    BY <1>0, <1>3 DEF Serve, JobTypes, Results
  <2>2. j \in Accepted /\ UNCHANGED Accepted
    BY <1>0, <2>1 DEF Accepted, ChainInv
  <2>3. terminal'[j] # "none"
    <3>1. served'[j] \in Results /\ terminal'[j] = (Outcome(j, served[j]))'
      BY <2>1 DEF Inv, OutcomeInv, JobTypes
    <3> QED BY <3>1 DEF Outcome, Results
  <2> QED BY <1>0, <2>1, <2>2, <2>3, EmitKeepsPromise
<1>4. ASSUME NEW j \in Jobs, Return(j) \/ Throw(j)
      PROVE  [Promise!Next]_(Promise!vars) /\ WatchInv'
  <2>1. step[j] = "compiling" /\ ~done[j]
    BY <1>0, <1>4 DEF Return, Throw, ChainInv
  <2>2. PICK r \in Results : Conclude(j, r, Final(j, r))
    <3>1. CASE Return(j)
      <4>1. Outcome(j, served[j]) \in Results
        BY <1>0, <3>1 DEF Return, JobTypes, Outcome, Results
      <4>2. Final(j, Outcome(j, served[j])) =
              IF Outcome(j, served[j]) = "cancelled" THEN "cancelled" ELSE "completed"
        BY <3>1 DEF Return, Final, Outcome
      <4> QED BY <3>1, <4>1, <4>2 DEF Return
    <3>2. CASE Throw(j)
      <4>1. Outcome(j, "internal") \in Results
        BY DEF Outcome, Results
      <4>2. Final(j, Outcome(j, "internal")) = IF aborted[j] THEN "cancelled" ELSE "failed"
        BY <3>2 DEF Throw, Final, Outcome
      <4> QED BY <3>2, <4>1, <4>2 DEF Throw
    <3> QED BY <1>4, <3>1, <3>2
  <2> QED BY <2>1, <2>2, EndKeepsPromise DEF Conclude
<1>5. ASSUME NEW j \in Jobs, CancelWaiting(j)
      PROVE  [Promise!Next]_(Promise!vars) /\ WatchInv'
  <2>1. Final(j, "cancelled") = "cancelled" /\ "cancelled" \in Results
    BY DEF Final, Results
  <2> QED BY <1>5, <2>1, EndKeepsPromise DEF CancelWaiting
<1>6. ASSUME NEW j \in Jobs, CancelRunning(j)
      PROVE  [Promise!Next]_(Promise!vars) /\ WatchInv'
  BY <1>6, CancelRunningKeepsPromise
<1>7. ASSUME NEW s \in Streams, Disconnect(s) \/ \E j \in Jobs : Subscribe(s, j)
      PROVE  [Promise!Next]_(Promise!vars) /\ WatchInv'
  BY <1>7, SubscribeKeepsPromise, DisconnectKeepsPromise
<1>8. CASE \/ \E t \in Tasks : TaskCalls(t) \/ TaskEnds(t)
           \/ \E u \in Units : Age(u)
           \/ \E j \in Jobs : Settle(j) \/ Progress(j)
           \/ Sweep \/ Shutdown \/ ShutdownTimeout \/ UNCHANGED vars
  <2>1. UNCHANGED <<state, aborted, terminal, result, streamVars>>
    BY <1>8 DEF TaskCalls, TaskEnds, Age, Settle, Progress, Sweep, Shutdown,
       ShutdownTimeout, vars
  <2> QED BY <2>1, PromiseStutters DEF WatchInv, streamVars, Accepted
<1> QED BY <1>1, <1>2, <1>3, <1>4, <1>5, <1>6, <1>7, <1>8 DEF Next

\* Whatever jobs, streams and callers do, the job manager implements the
\* promise of one outcome per job, decided once and told to everybody alike.
THEOREM PromiseKept == Spec => KeepsItsPromise
<1>1. Init => Promise!Init /\ WatchInv
  BY DEF Init, Promise!Init, WatchInv
<1>2. Inv /\ Inv' /\ WatchInv /\ [Next]_vars => [Promise!Next]_(Promise!vars) /\ WatchInv'
  BY PromiseNext
<1> QED BY <1>1, <1>2, InvHolds, PTL DEF Spec, KeepsItsPromise, Promise!Spec

(***************************************************************************)
(* The retention of finished jobs.                                         *)
(***************************************************************************)
LEMMA JobsFinite ==
  ASSUME NEW K \in SUBSET Jobs
  PROVE  IsFiniteSet(K) /\ Cardinality(K) \in Nat
<1>1. K \in SUBSET Units /\ IsFiniteSet(Units)
  BY Apart, JobConstants DEF JobConstants
<1> QED BY <1>1, FS_Subset, FS_CardinalityType

\* Where a candidate survives the pruning, the count fits.
LEMMA PrunedFits ==
  ASSUME NEW present, NEW young, NEW kept \in SUBSET present, Pruned(present, young, kept),
         NEW k \in kept, Prunable(k, young)
  PROVE  Cardinality(kept) <= MaxRetained
BY DEF Pruned

\* The streams that an outcome closes subscribe to no other job.
LEMMA EmitTouchesOwn ==
  ASSUME Inv, WatchInv, NEW j \in Jobs, NEW r \in Results, EmitOutcome(j, r)
  PROVE  \A k \in Jobs \ {j} : subs'[k] = subs[k]
<1>1. CASE terminal[j] # "none"
  BY <1>1 DEF EmitOutcome, streamVars
<1>2. CASE terminal[j] = "none"
  <2> DEFINE closing == {s \in subs[j] : stream[s] = "open"}
  <2>1. subs' = [k \in Jobs |-> subs[k] \ closing]
    BY <1>2 DEF EmitOutcome, Closes
  <2>2. \A k \in Jobs \ {j} : subs[k] \cap closing = {}
    BY DEF WatchInv, Inv, StreamTypes
  <2> QED BY <2>1, <2>2
<1> QED BY <1>1, <1>2

\* A step that forgets nothing and submits nothing makes no job a candidate.
LEMMA NoneForgotten ==
  ASSUME RetainedBounded, jobs' = jobs,
         \A k \in jobs : done'[k] /\ subs'[k] = {} /\ k \notin fresh' => Prunable(k, fresh)
  PROVE  RetainedBounded'
BY DEF RetainedBounded, Prunable

\* A job that ends is no candidate yet, and the others are what they were.
LEMMA EndRetains ==
  ASSUME Inv, WatchInv, NEW j \in Jobs, NEW r \in Results, EmitOutcome(j, r), FinishJob(j)
  PROVE  RetainedBounded'
<1>1. Pruned(jobs, fresh', jobs') /\ jobs' \in SUBSET jobs /\ j \in fresh'
  BY DEF FinishJob, Prune
<1>2. \A k \in Jobs \ {j} : done'[k] = done[k] /\ subs'[k] = subs[k]
  BY EmitTouchesOwn DEF FinishJob, Inv, JobTypes
<1>3. jobs' \in SUBSET Jobs
  BY <1>1 DEF Inv, JobTypes
<1> SUFFICES ASSUME NEW k \in jobs', done'[k], subs'[k] = {}, k \notin fresh'
             PROVE  Cardinality(jobs') <= MaxRetained + 1
  BY DEF RetainedBounded, Prunable
<1>4. Prunable(k, fresh')
  BY <1>1, <1>2, <1>3 DEF Prunable
<1>5. Cardinality(jobs') <= MaxRetained
  BY <1>1, <1>4, PrunedFits
<1> QED BY <1>3, <1>5, JobsFinite, JobConstants DEF JobConstants

\* What is pruned before a job is submitted leaves room for that one.
LEMMA SubmitRetains ==
  ASSUME Inv, NEW j \in Jobs, Submit(j)
  PROVE  RetainedBounded'
<1>1. PICK kept \in SUBSET jobs : Pruned(jobs, fresh, kept) /\ jobs' \in {kept, kept \cup {j}}
  BY DEF Submit
<1>2. ~done[j] /\ UNCHANGED <<done, subs, fresh>> /\ kept \in SUBSET Jobs
  BY DEF Submit, Inv, ChainInv, JobTypes, streamVars
<1> SUFFICES ASSUME NEW k \in jobs', Prunable(k, fresh)
             PROVE  Cardinality(jobs') <= MaxRetained + 1
  BY <1>2 DEF RetainedBounded, Prunable
<1>3. k \in kept
  BY <1>1, <1>2 DEF Prunable
<1>4. Cardinality(kept) <= MaxRetained
  BY <1>1, <1>3, PrunedFits
<1>5. Cardinality(kept \cup {j}) <= Cardinality(kept) + 1
  BY <1>2, JobsFinite, FS_AddElement
<1> QED BY <1>1, <1>2, <1>4, <1>5, JobsFinite, JobConstants DEF JobConstants

LEMMA TimeRetains ==
  ASSUME Inv, Sweep \/ \E j \in Jobs : Settle(j)
  PROVE  RetainedBounded'
<1>1. UNCHANGED <<done, subs>>
  BY DEF Sweep, Settle, streamVars
<1>2. PICK present \in SUBSET Jobs : jobs' \in SUBSET present /\ Pruned(present, fresh', jobs')
  <2>1. CASE Sweep
    <3>1. PICK old : \E kept \in SUBSET (jobs \ old) :
                       Pruned(jobs \ old, fresh, kept) /\ jobs' = kept
      BY <2>1 DEF Sweep
    <3> QED BY <2>1, <3>1 DEF Sweep, Inv, JobTypes
  <2>2. CASE \E j \in Jobs : Settle(j)
    BY <2>2 DEF Settle, Prune, Inv, JobTypes
  <2> QED BY <2>1, <2>2
<1> SUFFICES ASSUME NEW k \in jobs', Prunable(k, fresh')
             PROVE  Cardinality(jobs') <= MaxRetained + 1
  BY <1>1 DEF RetainedBounded, Prunable
<1>3. Cardinality(jobs') <= MaxRetained
  BY <1>2, PrunedFits
<1> QED BY <1>2, <1>3, JobsFinite, JobConstants DEF JobConstants

\* A stream that comes or goes makes no finished job a candidate: the job of
\* one that was open has not finished.
LEMMA StreamRetains ==
  ASSUME Inv, WatchInv, RetainedBounded, NEW s \in Streams,
         Disconnect(s) \/ \E j \in Jobs : Subscribe(s, j)
  PROVE  RetainedBounded'
<1>1. UNCHANGED <<jobs, fresh, done>> /\ jobs \in SUBSET Jobs
  BY DEF Disconnect, Subscribe, keepVars, Inv, JobTypes
<1>2. ASSUME NEW k \in jobs, done[k], subs'[k] = {}
      PROVE  subs[k] = {}
  <2>1. CASE Disconnect(s)
    <3>1. stream[s] = "open" /\ subs'[k] = subs[k] \ {s}
      BY <1>1, <2>1 DEF Disconnect, Closes
    <3>2. terminal[k] # "none"
      BY <1>1, <1>2 DEF Inv, OutcomeInv, OutcomesAgree
    <3>3. terminal[on[s]] = "none"
      BY <3>1 DEF Inv, StreamInv, OpenStreamWillHear
    <3>4. s \notin subs[k]
      BY <1>1, <3>2, <3>3 DEF WatchInv
    <3> QED BY <1>2, <3>1, <3>4
  <2>2. CASE \E j \in Jobs : Subscribe(s, j)
    BY <1>1, <1>2, <2>2 DEF Subscribe, Inv, StreamTypes
  <2> QED BY <2>1, <2>2
<1> QED BY <1>1, <1>2, NoneForgotten DEF Prunable

LEMMA ServeRetains ==
  ASSUME Inv, WatchInv, RetainedBounded, NEW j \in Jobs, NEW r \in Results, Serve(j, r)
  PROVE  RetainedBounded'
<1>1. EmitOutcome(j, r) /\ UNCHANGED <<jobs, fresh, done>> /\ jobs \in SUBSET Jobs
  BY DEF Serve, keepVars, Inv, JobTypes
<1>2. ~done[j]
  BY DEF Serve, Inv, ChainInv
<1>3. \A k \in Jobs \ {j} : subs'[k] = subs[k]
  BY <1>1, EmitTouchesOwn
<1> QED BY <1>1, <1>2, <1>3, NoneForgotten DEF Prunable

LEMMA RetainedNext ==
  ASSUME Inv, WatchInv, RetainedBounded, [Next]_vars
  PROVE  RetainedBounded'
<1>1. CASE \E j \in Jobs : Submit(j)
  BY <1>1, SubmitRetains
<1>2. ASSUME NEW j \in Jobs, Return(j) \/ Throw(j) \/ CancelWaiting(j) PROVE RetainedBounded'
  <2>1. CASE Return(j)
    <3>1. Outcome(j, served[j]) \in Results
      BY <2>1 DEF Return, Inv, JobTypes, Outcome, Results
    <3> QED BY <2>1, <3>1, EndRetains DEF Return, Conclude
  <2>2. CASE Throw(j)
    <3>1. Outcome(j, "internal") \in Results
      BY DEF Outcome, Results
    <3> QED BY <2>2, <3>1, EndRetains DEF Throw, Conclude
  <2>3. CASE CancelWaiting(j)
    BY <2>3, EndRetains DEF CancelWaiting, Results
  <2> QED BY <1>2, <2>1, <2>2, <2>3
<1>3. CASE \E j \in Jobs, r \in Results : Serve(j, r)
  BY <1>3, ServeRetains
<1>4. CASE Sweep \/ \E j \in Jobs : Settle(j)
  BY <1>4, TimeRetains
<1>5. CASE \E s \in Streams : Disconnect(s) \/ \E j \in Jobs : Subscribe(s, j)
  BY <1>5, StreamRetains
<1>6. CASE \/ \E j \in Jobs : Start(j) \/ Progress(j) \/ CancelRunning(j)
           \/ \E t \in Tasks : TaskCalls(t) \/ TaskEnds(t)
           \/ \E u \in Units : Age(u)
           \/ Shutdown \/ ShutdownTimeout \/ UNCHANGED vars
  <2>1. UNCHANGED <<keepVars, done, streamVars>>
    BY <1>6 DEF Start, Progress, CancelRunning, TaskCalls, TaskEnds, Age, Shutdown,
       ShutdownTimeout, vars
  <2> QED BY <2>1, NoneForgotten DEF keepVars, streamVars, Prunable
<1> QED BY <1>1, <1>2, <1>3, <1>4, <1>5, <1>6 DEF Next

\* However long its streams live and whatever order jobs end in, the manager
\* retains at most one job beyond its limit while it could forget one
\* (pruneCompleted, called by submit, finishJob, the settling timer and sweep).
THEOREM RetentionIsBounded == Spec => []RetainedBounded
<1>1. Init => WatchInv /\ RetainedBounded
  BY DEF Init, WatchInv, RetainedBounded
<1>2. Inv /\ Inv' /\ WatchInv /\ RetainedBounded /\ [Next]_vars => WatchInv' /\ RetainedBounded'
  BY PromiseNext, RetainedNext
<1> QED BY <1>1, <1>2, InvHolds, PTL DEF Spec

\* A job is forgotten only when it has finished and the window in which a
\* browser may still connect is over (pruneCompleted, sweep).
THEOREM FinishedStayReachable == Spec => FinishedStaysReachable
<1> DEFINE A == \A j \in jobs \ jobs' : done[j] /\ j \notin fresh'
<1>1. ASSUME [Next]_vars PROVE A
  <2>1. CASE jobs' = jobs
    BY <2>1
  <2>2. CASE \E j \in Jobs : Submit(j)
    BY <2>2 DEF Submit, Pruned, Prunable
  <2>3. CASE Sweep
    BY <2>3 DEF Sweep, Pruned, Prunable
  <2>4. CASE \E j \in Jobs : Settle(j) \/ FinishJob(j)
    BY <2>4 DEF Settle, FinishJob, Prune, Pruned, Prunable
  <2>5. \/ jobs' = jobs \/ Sweep
        \/ \E j \in Jobs : Submit(j) \/ Settle(j) \/ FinishJob(j)
    BY <1>1 DEF Next, vars, keepVars, Start, Progress, Serve, Return, Throw, Conclude,
       CancelWaiting, CancelRunning, TaskCalls, TaskEnds, Age, Disconnect, Subscribe,
       Shutdown, ShutdownTimeout
  <2> QED BY <2>1, <2>2, <2>3, <2>4, <2>5
<1> QED BY <1>1, PTL DEF Spec, FinishedStaysReachable

=============================================================================
