------------------------------- MODULE Totals -------------------------------
(***************************************************************************)
(* Sums over finite sets, as the number of the units that are summed: each *)
(* byte of each row is one.  Counting them makes a sum a cardinality,      *)
(* about which theorems exist.                                             *)
(***************************************************************************)
EXTENDS Integers, FiniteSets

Units(f, S) == UNION {{x} \X (1..f[x]) : x \in S}
Total(f, S) == Cardinality(Units(f, S))
=============================================================================
