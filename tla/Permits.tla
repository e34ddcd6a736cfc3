------------------------------ MODULE Permits ------------------------------
(***************************************************************************)
(* What a lease in Redis is for, however it is kept: of those who want to  *)
(* be inside at the same time, at most Limit are.                          *)
(***************************************************************************)
EXTENDS Integers, FiniteSets

CONSTANTS Clients, Limit

VARIABLE inside

Init == inside = {}

Enter(c) ==
  /\ c \in Clients \ inside
  /\ Cardinality(inside) < Limit
  /\ inside' = inside \cup {c}

\* Several may leave at once: time runs out for all of them.
Leave == inside' \in SUBSET inside

Next == Leave \/ \E c \in Clients : Enter(c)

Spec == Init /\ [][Next]_inside
=============================================================================
