---------------------------- MODULE ProjectQuota ----------------------------
(***************************************************************************)
(* The cloud projects of all visitors and the books that keep them within  *)
(* their quotas.  A project is a key in Redis with a TTL; how many bytes   *)
(* there are is kept in hashes and a counter with TTLs of their own.  One  *)
(* script sweeps what has expired, reconciles the books of the visitor     *)
(* with the keys that exist, and only then decides.  The gateway also      *)
(* deletes a project that it did not find, in a second call.               *)
(***************************************************************************)
EXTENDS Integers, FiniteSets, Totals

CONSTANTS
  Visitors,
  Tokens,           \* the projects there may be, each a visitor and a name
  Sizes,            \* bound: sizes of an encoded project
  ProjectTTL,       \* ttlSeconds, in ticks
  MaxProjects,      \* maxProjectsPerVisitor
  MaxVisitorBytes, MaxGlobalBytes,
  MaxLost           \* bound: lost counters and members of an index together

ASSUME QuotaConstants ==
  /\ IsFiniteSet(Tokens) /\ \A t \in Tokens : t[1] \in Visitors
  /\ Sizes \subseteq Nat \ {0} /\ ProjectTTL \in Nat \ {0}
  /\ MaxProjects \in Nat \ {0} /\ MaxVisitorBytes \in Nat \ {0}
  /\ MaxGlobalBytes \in Nat \ {0} /\ MaxLost \in Nat

OfVisitor(v) == {t \in Tokens : t[1] = v}

VARIABLES
  stored,      \* bytes of each project, 0 when there is none
  lives,        \* ticks until it expires
  counted,     \* the size hash of all projects; its members are those of the
               \* expiry set, with the scores of the keys' own expiry
  owned,       \* the size hashes of the visitors; a visitor's own counter is
               \* rebuilt from it by every script and decides nothing
  index,       \* the presentation indexes of the visitors
  counter,     \* the global byte counter, 0 when there is none
  globalLeft, counterLeft, visitorLeft,  \* ticks until the books expire
  looked,      \* lookups that found nothing, before their delete; one at a time
  lost

quotaVars == <<stored, lives, counted, owned, index, counter, globalLeft, counterLeft,
               visitorLeft, looked, lost>>

QuotaInit ==
  /\ stored = [t \in Tokens |-> 0] /\ lives = [t \in Tokens |-> 0]
  /\ counted = [t \in Tokens |-> 0] /\ owned = [t \in Tokens |-> 0]
  /\ index = {} /\ counter = 0
  /\ globalLeft = 0 /\ counterLeft = 0 /\ visitorLeft = [v \in Visitors |-> 0]
  /\ looked = {} /\ lost = 0

NotBelowZero(n) == IF n > 0 THEN n ELSE 0

----------------------------------------------------------------------------
(* The script, up to its decision. *)

\* A missing counter is repaired from the size hash.
Repaired == IF counter = 0 THEN Total(counted, Tokens) ELSE counter

Expired == {t \in Tokens : counted[t] > 0 /\ lives[t] = 0}

\* The books after the sweep of what has expired and the reconciliation of the
\* visitor's projects, by index and by size hash, and of the one concerned.
Reconciled(v, concerned, keys) ==
  LET gone  == Expired
      all   == [t \in Tokens |-> IF t \in gone THEN 0 ELSE counted[t]]
      mine  == [t \in Tokens |-> IF t \in gone THEN 0 ELSE owned[t]]
      names == index \ gone
      known == concerned \cup {t \in OfVisitor(v) : t \in names \/ mine[t] > 0}
      was   == [t \in known |-> IF all[t] > 0 \/ keys[t] > 0 THEN all[t] ELSE mine[t]]
  IN  [counted |-> [t \in Tokens |-> IF t \in known THEN keys[t] ELSE all[t]],
       owned   |-> [t \in Tokens |-> IF t \in known THEN keys[t] ELSE mine[t]],
       index   |-> names \ {t \in known : keys[t] = 0},
       counter |-> NotBelowZero(NotBelowZero(Repaired - Total(counted, gone))
                                + Total(keys, known) - Total(was, known))]

Places_Index(books, v) == Cardinality(books.index \cap OfVisitor(v))
Places(books, v) == Cardinality({t \in OfVisitor(v) : books.owned[t] > 0})
VisitorBytes(books, v) == Total(books.owned, OfVisitor(v))

WriteBooks(books) ==
  /\ counted' = books.counted /\ owned' = books.owned
  /\ index' = books.index /\ counter' = books.counter

Filled(books) == \E t \in Tokens : books.counted[t] > 0
VisitorFilled(books, v) == \E t \in OfVisitor(v) : books.owned[t] > 0 \/ t \in books.index

\* ensure_bookkeeping_ttls: what has no TTL gets one.
Ensured(present, ticks) == IF ~present THEN 0 ELSE IF ticks = 0 THEN ProjectTTL ELSE ticks
Renewed(present, ticks) == IF present THEN ProjectTTL ELSE 0

EnsureTTLs(v, books) ==
  /\ globalLeft' = Ensured(Filled(books), globalLeft)
  /\ counterLeft' = Ensured(books.counter > 0, IF counter > 0 THEN counterLeft ELSE 0)
  /\ visitorLeft' = [visitorLeft EXCEPT ![v] = Ensured(VisitorFilled(books, v), @)]

RenewTTLs(v, books) ==
  /\ globalLeft' = Renewed(Filled(books), globalLeft)
  /\ counterLeft' = Renewed(books.counter > 0, counterLeft)
  /\ visitorLeft' = [visitorLeft EXCEPT ![v] = Renewed(VisitorFilled(books, v), @)]

----------------------------------------------------------------------------
(* save, delete and cleanup. *)

\* The books with the project of n bytes that is saved.
WithProject(books, t, n) ==
  [counted |-> [books.counted EXCEPT ![t] = n],
   owned   |-> [books.owned EXCEPT ![t] = n],
   index   |-> books.index \cup {t},
   counter |-> NotBelowZero(books.counter + n - stored[t])]

\* "Every rejection is decided before the target SET."
Fitting(t, n) ==
  LET v      == t[1]
      before == Reconciled(v, {}, stored)
      books  == Reconciled(v, {t}, stored)
      delta  == n - stored[t]
  IN  /\ before.owned[t] > 0 \/ Places(before, v) < MaxProjects
      /\ delta > 0 => /\ VisitorBytes(books, v) + delta <= MaxVisitorBytes
                      /\ books.counter + delta <= MaxGlobalBytes

Save(t, n) ==
  /\ Fitting(t, n)
  /\ LET books == WithProject(Reconciled(t[1], {t}, stored), t, n)
     IN  WriteBooks(books) /\ RenewTTLs(t[1], books)
  /\ stored' = [stored EXCEPT ![t] = n]
  /\ lives' = [lives EXCEPT ![t] = ProjectTTL]
  /\ UNCHANGED <<looked, lost>>

SaveRejected(t, n) ==
  /\ ~Fitting(t, n)
  /\ LET books == Reconciled(t[1], {t}, stored)
     IN  WriteBooks(books) /\ EnsureTTLs(t[1], books)
  /\ UNCHANGED <<stored, lives, looked, lost>>

DeleteScript(t) ==
  LET keys  == [stored EXCEPT ![t] = 0]
      rest  == Reconciled(t[1], {t}, keys)
      books == IF Filled(rest) THEN rest ELSE [rest EXCEPT !.counter = 0]
  IN  /\ WriteBooks(books) /\ EnsureTTLs(t[1], books)
      /\ stored' = keys
      /\ lives' = [lives EXCEPT ![t] = 0]

Delete(t) == DeleteScript(t) /\ UNCHANGED <<looked, lost>>

\* GET /v1/projects, before it reads the index.
Cleanup(v) ==
  /\ LET books == Reconciled(v, {}, stored)
     IN  WriteBooks(books) /\ RenewTTLs(v, books)
  /\ UNCHANGED <<stored, lives, looked, lost>>

\* GET /v1/projects/:projectId, or a row of the list, finds no key.
LookUp(t) ==
  /\ stored[t] = 0 /\ looked = {}
  /\ looked' = {t}
  /\ UNCHANGED <<stored, lives, counted, owned, index, counter, globalLeft, counterLeft,
                 visitorLeft, lost>>

\* It deletes what it did not find, and with it what was saved meanwhile.
DropMissing(t) ==
  /\ looked = {t}
  /\ DeleteScript(t)
  /\ looked' = {}
  /\ UNCHANGED lost

----------------------------------------------------------------------------
(* What the script is made to survive, and the passage of time. *)

CounterLost ==
  /\ counter > 0 /\ lost < MaxLost
  /\ counter' = 0 /\ counterLeft' = 0
  /\ lost' = lost + 1
  /\ UNCHANGED <<stored, lives, counted, owned, index, globalLeft, visitorLeft, looked>>

IndexMemberLost ==
  /\ lost < MaxLost
  /\ \E t \in index : index' = index \ {t}
  /\ lost' = lost + 1
  /\ UNCHANGED <<stored, lives, counted, owned, counter, globalLeft, counterLeft,
                 visitorLeft, looked>>

QuotaTick ==
  /\ \E n \in {globalLeft, counterLeft} \cup {visitorLeft[v] : v \in Visitors} : n > 0
  /\ lives' = [t \in Tokens |-> NotBelowZero(lives[t] - 1)]
  /\ stored' = [t \in Tokens |-> IF lives'[t] = 0 THEN 0 ELSE stored[t]]
  /\ globalLeft' = NotBelowZero(globalLeft - 1)
  /\ counterLeft' = NotBelowZero(counterLeft - 1)
  /\ visitorLeft' = [v \in Visitors |-> NotBelowZero(visitorLeft[v] - 1)]
  /\ counted' = [t \in Tokens |-> IF globalLeft' = 0 THEN 0 ELSE counted[t]]
  /\ counter' = IF counterLeft' = 0 THEN 0 ELSE counter
  /\ owned' = [t \in Tokens |-> IF visitorLeft'[t[1]] = 0 THEN 0 ELSE owned[t]]
  /\ index' = {t \in index : visitorLeft'[t[1]] > 0}
  /\ UNCHANGED <<looked, lost>>

QuotaNext ==
  \/ \E v \in Visitors : Cleanup(v)
  \/ \E t \in Tokens :
       \/ Delete(t) \/ LookUp(t) \/ DropMissing(t)
       \/ \E n \in Sizes : Save(t, n) \/ SaveRejected(t, n)
  \/ CounterLost \/ IndexMemberLost \/ QuotaTick

QuotaSpec == QuotaInit /\ [][QuotaNext]_quotaVars

(***************************************************************************)
(* Properties.                                                             *)
(***************************************************************************)
\* Every variable keeps to its range; what the books say of a project that is
\* stored is its size, in both hashes, and the counter does not say less than
\* the hash unless it is lost.
QuotaTypeOK ==
  /\ stored \in [Tokens -> Sizes \cup {0}] /\ lives \in [Tokens -> 0..ProjectTTL]
  /\ \A t \in Tokens : stored[t] > 0 <=> lives[t] > 0
  /\ \A t \in Tokens : stored[t] > 0 => counted[t] = stored[t] /\ owned[t] = stored[t]
  /\ index \subseteq Tokens /\ Cardinality(looked) <= 1
  /\ counter = 0 \/ counter >= Total(counted, Tokens)
  /\ {globalLeft, counterLeft} \cup {visitorLeft[v] : v \in Visitors} \subseteq 0..ProjectTTL

\* What is stored, by the keys that exist and not by what the books say, is
\* within the quotas, though the books expire by themselves, are swept late and
\* may lose a counter or a member of an index.
ProjectsWithinQuota ==
  /\ Total(stored, Tokens) <= MaxGlobalBytes
  /\ \A v \in Visitors :
       /\ Total(stored, OfVisitor(v)) <= MaxVisitorBytes
       /\ Cardinality({t \in OfVisitor(v) : stored[t] > 0}) <= MaxProjects
=============================================================================
