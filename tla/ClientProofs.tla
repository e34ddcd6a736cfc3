---------------------------- MODULE ClientProofs ----------------------------
(***************************************************************************)
(* The event stream and the stored handle of a page side by side: whichever*)
(* of them runs, the other rests, and the invariants of both hold.         *)
(***************************************************************************)
EXTENDS EventStreamProofs, ActiveCompileProofs, MCClient

ClientInv == Base /\ PageInv

LEMMA ClientStarts == ClientInit => ClientInv
BY BaseStart, PageStarts DEF ClientInit, ClientInv

LEMMA ClientKept ==
  ClientInv /\ [ClientNext]_<<vars, pageVars, side>> => ClientInv'
<1> SUFFICES ASSUME ClientInv, [ClientNext]_<<vars, pageVars, side>> PROVE ClientInv'
  OBVIOUS
<1>1. [Next]_vars /\ [PageNext]_pageVars
  BY DEF ClientNext, StreamSteps, PageSteps
<1> QED BY <1>1, BaseStep, PageKept DEF ClientInv

\* Every variable of the stream and of the page keeps to its range, whichever
\* of the two runs.
THEOREM ClientTypes == ClientSpec => []ClientTypeOK
<1>1. ClientInv => ClientTypeOK
  BY PageInvTypes DEF ClientInv, Base, ClientTypeOK
<1> QED BY <1>1, ClientStarts, ClientKept, PTL DEF ClientSpec
=============================================================================
