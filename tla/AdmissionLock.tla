--------------------------- MODULE AdmissionLock ---------------------------
(***************************************************************************)
(* The submission lock in real time.  A section takes the lock with        *)
(* SET NX PX and then makes its Redis round trips one after the other; the *)
(* lock is not renewed, so what keeps a second holder out is only that the *)
(* TTL outlasts the section.  A gateway's round trip ends within the       *)
(* command timeout, by an answer or an error; a worker's may take forever. *)
(* One tick is one command timeout or less.                                *)
(***************************************************************************)
EXTENDS Integers

CONSTANTS
  Gateways,        \* gateway processes: connections with a command timeout
  Patient,         \* workers: connections without one
  Nobody,
  TTL,             \* ttlMs, in ticks
  CommandTimeout,  \* the gateway connection's commandTimeout, in ticks
  LedgerRows       \* rows in the byte ledger when it has to be reconciled

Procs == Gateways \cup Patient

ASSUME LockConstants ==
  /\ Nobody \notin Procs
  /\ Gateways \cap Patient = {}
  /\ TTL \in Nat \ {0}
  /\ CommandTimeout \in Nat \ {0}
  /\ LedgerRows \in Nat

\* Round trips between the SET and the release, on the longest path: where
\* there is one, that of a last step that fails and is cleaned up after.
\* submit: getJob, getState, remove, hdel, del, clear, getJobCounts, acquire,
\* hgetall, [the ledger,] hset, add, and when the add fails hdel and clear.
\* The ledger: hgetall, then per row getJob, getState and updateData, then
\* hdel.  cancelRequest: the eight up to the removal, and when that fails the
\* getState that tells why.  A worker's reconcile ends with the strip,
\* updateData and hdel.
LedgerTrips    == IF LedgerRows = 0 THEN 0 ELSE 2 + 3 * LedgerRows
SubmitTrips    == 13 + LedgerTrips
CancelTrips    == 9
ReconcileTrips == 6
PrepareTrips   == 3

VARIABLES
  lock,  \* the token in Redis: who set it, or Nobody
  ttl,   \* ticks until it expires
  todo,  \* round trips each process may still make, the SET's own included
  left   \* ticks until the current round trip times out; gateways only

vars == <<lock, ttl, todo, left>>

Inside(p) == todo[p] > 0

Init ==
  /\ lock = Nobody
  /\ ttl = 0
  /\ todo = [p \in Procs |-> 0]
  /\ left = [p \in Procs |-> 0]

\* SET key token PX ttl NX, as Redis executes it; the answer is under way.
Enter(p, trips) ==
  /\ ~Inside(p)
  /\ lock = Nobody
  /\ lock' = p
  /\ ttl' = TTL
  /\ todo' = [todo EXCEPT ![p] = 1 + trips]
  /\ left' = [left EXCEPT ![p] = CommandTimeout]

Submit(g)    == g \in Gateways /\ Enter(g, SubmitTrips)
Cancel(g)    == g \in Gateways /\ Enter(g, CancelTrips)
Reconcile(p) == Enter(p, ReconcileTrips)
Prepare(w)   == w \in Patient /\ Enter(w, PrepareTrips)

\* An answer, and the next command.
RoundTrip(p) ==
  /\ todo[p] > 1
  /\ todo' = [todo EXCEPT ![p] = @ - 1]
  /\ left' = [left EXCEPT ![p] = CommandTimeout]
  /\ UNCHANGED <<lock, ttl>>

\* Compare-and-delete of the token.
Released_Blindly(p) == Nobody
Released(p) == IF lock = p THEN Nobody ELSE lock

\* Any answer may be the last: early returns, errors, or the end of the path.
Exit(p) ==
  /\ Inside(p)
  /\ todo' = [todo EXCEPT ![p] = 0]
  /\ left' = [left EXCEPT ![p] = 0]
  /\ lock' = Released(p)
  /\ ttl' = IF lock' = Nobody THEN 0 ELSE ttl

\* The process dies and leaves the token behind.
Die(p) ==
  /\ Inside(p)
  /\ todo' = [todo EXCEPT ![p] = 0]
  /\ left' = [left EXCEPT ![p] = 0]
  /\ UNCHANGED <<lock, ttl>>

Remaining == IF ttl > 0 THEN ttl - 1 ELSE 0

Tick ==
  /\ \A g \in Gateways : Inside(g) => left[g] > 0
  /\ \E p \in Procs : Inside(p) \/ lock # Nobody
  /\ left' = [p \in Procs |-> IF left[p] > 0 THEN left[p] - 1 ELSE 0]
  /\ ttl' = Remaining
  /\ lock' = IF ttl' = 0 THEN Nobody ELSE lock
  /\ UNCHANGED todo

Next ==
  \/ Tick
  \/ \E p \in Procs : \/ Submit(p) \/ Cancel(p) \/ Reconcile(p) \/ Prepare(p)
                      \/ RoundTrip(p) \/ Exit(p) \/ Die(p)

\* Time passes, so a gateway's commands end; a worker's need not.
Fairness == WF_vars(Tick) /\ \A g \in Gateways : WF_vars(RoundTrip(g) \/ Exit(g))

Spec == Init /\ [][Next]_vars /\ Fairness

\* Every variable keeps to its range; the token carries a positive TTL.
TypeOK ==
  /\ lock \in Procs \cup {Nobody}
  /\ ttl \in 0..TTL
  /\ todo \in [Procs -> 0..(1 + SubmitTrips)]
  /\ left \in [Procs -> 0..CommandTimeout]
  /\ lock # Nobody <=> ttl > 0

\* The lock "cannot expire midway through admission": a gateway inside a
\* section still holds it, whatever workers that lost theirs do meanwhile.
LeaseOutlivesAdmission == \A g \in Gateways : Inside(g) => lock = g

LockPermit == INSTANCE Permits WITH
  Clients <- Gateways,
  Limit   <- 1,
  inside  <- {g \in Gateways : Inside(g)}

\* Gateways are inside their sections one at a time: a second one enters only
\* after the first has left.
LockIsPermit == LockPermit!Spec

=============================================================================
