------------------------------- MODULE MCClient -------------------------------
(***************************************************************************)
(* What a client goes through while it waits for a compile, checked side   *)
(* by side: its event stream is lost and opened again with a cursor, and   *)
(* its page is loaded again with a stored handle.  The two share nothing   *)
(* but the job's ID; one of them runs, the other stays as it starts, where *)
(* no fair action of it is enabled.                                        *)
(***************************************************************************)
EXTENDS EventStream, ActiveCompile

VARIABLE side

ClientInit == Init /\ PageInit /\ side \in {"stream", "page"}

StreamSteps == side = "stream" /\ Next /\ UNCHANGED <<pageVars, side>>
PageSteps   == side = "page" /\ PageNext /\ UNCHANGED <<vars, side>>

ClientNext == StreamSteps \/ PageSteps

ClientSpec == ClientInit /\ [][ClientNext]_<<vars, pageVars, side>> /\ Fairness

\* Every variable of the two keeps to its range.
ClientTypeOK == TypeOK /\ PageTypeOK
=============================================================================
