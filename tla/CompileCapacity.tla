--------------------------- MODULE CompileCapacity ---------------------------
(***************************************************************************)
(* The compile capacity of one host: the workers on it share a number of   *)
(* slots in Redis, each a key set with NX PX to the random token of the    *)
(* run that took it.  A run renews its token while it compiles, but what   *)
(* must keep a second run out is the TTL alone: it outlasts the deadline   *)
(* of the job.  Time is in ticks.                                          *)
(*                                                                         *)
(* A token is written here as the worker whose present run set it, or as   *)
(* Stray when that run is over: nobody will compare with it any more.      *)
(***************************************************************************)
EXTENDS Integers, FiniteSets

CONSTANTS
  Workers,      \* worker processes of the host, one job each
  Slots,        \* slotKeys
  Free, Stray,
  SlotTTL,      \* ttlMs: the job timeout and a minute
  JobTimeout,   \* the wall-clock budget of a job
  MaxWait,      \* maxWaitMs
  Lag           \* how late the timer of a deadline may run in a busy process

ASSUME CapacityConstants ==
  /\ {Free, Stray} \cap Workers = {} /\ Free # Stray
  /\ Free \notin Slots
  /\ IsFiniteSet(Workers) /\ IsFiniteSet(Slots)
  /\ JobTimeout \in Nat \ {0} /\ Lag \in Nat \ {0} /\ MaxWait \in Nat
  /\ SlotTTL \in Nat /\ JobTimeout + Lag < SlotTTL

VARIABLES
  token,    \* what each slot key holds
  slotTtl,  \* ticks until it expires
  phase,    \* what the processor of each worker is at
  held,     \* the slot its run was given
  untried,  \* the slots the present pass of acquire has yet to try
  budget,   \* ticks until the deadline; the job is aborted from 0 on
  patience  \* ticks until acquire gives up

capacityVars == <<token, slotTtl, phase, held, untried, budget, patience>>

CapacityInit ==
  /\ token = [s \in Slots |-> Free]
  /\ slotTtl = [s \in Slots |-> 0]
  /\ phase = [w \in Workers |-> "idle"]
  /\ held = [w \in Workers |-> Free]
  /\ untried = [w \in Workers |-> {}]
  /\ budget = [w \in Workers |-> 0]
  /\ patience = [w \in Workers |-> 0]

\* The processor calls run(): the deadline was stamped when the job was
\* submitted, so the time in the queue is gone already.
Assign(w) ==
  /\ phase[w] = "idle"
  /\ phase' = [phase EXCEPT ![w] = "asking"]
  /\ \E rest \in 1..JobTimeout : budget' = [budget EXCEPT ![w] = rest]
  /\ patience' = [patience EXCEPT ![w] = MaxWait]
  /\ untried' = [untried EXCEPT ![w] = Slots]
  /\ UNCHANGED <<token, slotTtl, held>>

\* SET NX of a free slot.  When the connection breaks before the answer comes,
\* the client sends the SET again and finds its own token there: the slot is
\* lost to this run, which goes on with the next one.
TakeSlot(w, s) ==
  /\ phase[w] = "asking" /\ s \in untried[w]
  /\ token[s] = Free
  /\ slotTtl' = [slotTtl EXCEPT ![s] = SlotTTL]
  /\ \/ /\ token' = [token EXCEPT ![s] = w]
        /\ phase' = [phase EXCEPT ![w] = "compiling"]
        /\ held' = [held EXCEPT ![w] = s]
        /\ untried' = [untried EXCEPT ![w] = {}]
     \/ /\ token' = [token EXCEPT ![s] = Stray]
        /\ untried' = [untried EXCEPT ![w] = @ \ {s}]
        /\ UNCHANGED <<phase, held>>
  /\ UNCHANGED <<budget, patience>>

SlotTaken(w, s) ==
  /\ phase[w] = "asking" /\ s \in untried[w]
  /\ token[s] # Free
  /\ untried' = [untried EXCEPT ![w] = @ \ {s}]
  /\ UNCHANGED <<token, slotTtl, phase, held, budget, patience>>

KeepsAsking(w) == patience[w] > 0 /\ budget[w] > 0

\* The end of a pass without a slot: the wait was too long, or it was aborted,
\* or the slots are tried again after the delay.
GiveUp(w) ==
  /\ phase[w] = "asking" /\ untried[w] = {}
  /\ patience[w] = 0 \/ budget[w] <= 0
  /\ phase' = [phase EXCEPT ![w] = "idle"]
  /\ UNCHANGED <<token, slotTtl, held, untried, budget, patience>>

AskAgain(w) ==
  /\ phase[w] = "asking" /\ untried[w] = {}
  /\ KeepsAsking(w)
  /\ untried' = [untried EXCEPT ![w] = Slots]
  /\ UNCHANGED <<token, slotTtl, phase, held, budget, patience>>

\* One of the renewals arrives; they may all fail.
RenewSlot(w) ==
  /\ phase[w] = "compiling"
  /\ token[held[w]] = w
  /\ slotTtl' = [slotTtl EXCEPT ![held[w]] = SlotTTL]
  /\ UNCHANGED <<token, phase, held, untried, budget, patience>>

\* The task comes to an end, or its race with the deadline does.
TaskOver(w) ==
  /\ phase[w] = "compiling"
  /\ phase' = [phase EXCEPT ![w] = "leaving"]
  /\ UNCHANGED <<token, slotTtl, held, untried, budget, patience>>

Returned(w, s) == IF token[s] = w THEN Free ELSE token[s]

\* The release script is answered, at any time later, or fails: the TTL is the
\* fallback then.
LeaveSlot(w) ==
  /\ phase[w] = "leaving"
  /\ LET s == held[w]
     IN  \/ token' = [token EXCEPT ![s] = Returned(w, s)]
         \/ token' = [token EXCEPT ![s] = IF @ = w THEN Stray ELSE @]
  /\ slotTtl' = [s \in Slots |-> IF token'[s] = Free THEN 0 ELSE slotTtl[s]]
  /\ phase' = [phase EXCEPT ![w] = "idle"]
  /\ held' = [held EXCEPT ![w] = Free]
  /\ UNCHANGED <<untried, budget, patience>>

\* The consumers disconnect, or the worker is told to shut down.
AbortJob(w) ==
  /\ phase[w] \in {"asking", "compiling"}
  /\ budget[w] > 0
  /\ budget' = [budget EXCEPT ![w] = 0]
  /\ UNCHANGED <<token, slotTtl, phase, held, untried, patience>>

WorkerDies(w) ==
  /\ phase[w] # "idle"
  /\ phase' = [phase EXCEPT ![w] = "idle"]
  /\ held' = [held EXCEPT ![w] = Free]
  /\ untried' = [untried EXCEPT ![w] = {}]
  /\ token' = [s \in Slots |-> IF token[s] = w THEN Stray ELSE token[s]]
  /\ UNCHANGED <<slotTtl, budget, patience>>

Down(n) == IF n > 0 THEN n - 1 ELSE 0
BudgetFrom_Start(b) == b
BudgetFrom(b) == b - 1

\* Time passes, but a compile never outlives its deadline by more than Lag.
CapacityTick ==
  /\ \A w \in Workers : phase[w] = "compiling" => budget[w] > -Lag
  /\ \/ \E w \in Workers : phase[w] \in {"asking", "compiling"}
     \/ \E s \in Slots : token[s] # Free
  /\ slotTtl' = [s \in Slots |-> Down(slotTtl[s])]
  /\ token' = [s \in Slots |-> IF slotTtl'[s] = 0 THEN Free ELSE token[s]]
  /\ budget' = [w \in Workers |->
       IF budget[w] > -Lag /\ phase[w] \in {"asking", "compiling"}
         THEN BudgetFrom(budget[w]) ELSE budget[w]]
  /\ patience' = [w \in Workers |-> Down(patience[w])]
  /\ UNCHANGED <<phase, held, untried>>

CapacityNext ==
  \/ CapacityTick
  \/ \E w \in Workers :
       \/ Assign(w) \/ GiveUp(w) \/ AskAgain(w) \/ RenewSlot(w)
       \/ TaskOver(w) \/ LeaveSlot(w) \/ AbortJob(w) \/ WorkerDies(w)
       \/ \E s \in Slots : TakeSlot(w, s) \/ SlotTaken(w, s)

\* Time passes, timers and answers come; no renewal and no release needs to.
CapacityFairness ==
  /\ WF_capacityVars(CapacityTick)
  /\ \A w \in Workers :
       /\ WF_capacityVars(GiveUp(w))
       /\ WF_capacityVars(TaskOver(w))
       /\ WF_capacityVars(\E s \in Slots : TakeSlot(w, s) \/ SlotTaken(w, s))

CapacitySpec == CapacityInit /\ [][CapacityNext]_capacityVars /\ CapacityFairness

(***************************************************************************)
(* Properties.                                                             *)
(***************************************************************************)
\* Every variable keeps to its range, and only a key that exists has a TTL.
CapacityTypeOK ==
  /\ token \in [Slots -> Workers \cup {Free, Stray}]
  /\ slotTtl \in [Slots -> 0..SlotTTL]
  /\ \A s \in Slots : token[s] = Free <=> slotTtl[s] = 0
  /\ phase \in [Workers -> {"idle", "asking", "compiling", "leaving"}]
  /\ held \in [Workers -> Slots \cup {Free}]
  /\ untried \in [Workers -> SUBSET Slots]
  /\ budget \in [Workers -> (-Lag)..JobTimeout]
  /\ patience \in [Workers -> 0..MaxWait]

\* "A failed renewal cannot create overlap during a normally bounded job": a
\* run that compiles owns its slot, even if no renewal arrived, others died,
\* and releases came so late that the slot was somebody else's by then.
CompilerOwnsSlot ==
  \A w \in Workers : phase[w] = "compiling" => token[held[w]] = w

HostPermits == INSTANCE Permits WITH
  Clients <- Workers,
  Limit   <- Cardinality(Slots),
  inside  <- {w \in Workers : phase[w] = "compiling"}

\* The host never runs more compiles at a time than it has slots.
HostCapacityHolds == HostPermits!Spec
=============================================================================
