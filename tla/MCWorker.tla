------------------------------- MODULE MCWorker -------------------------------
(***************************************************************************)
(* What a worker does for a compile, checked side by side: the queue hands *)
(* it a job and learns the outcome; the build runs the actions of its      *)
(* graph with the help of the caches; the artifacts go to the store that   *)
(* gateways serve.  The three share no variable: the queue has a name for  *)
(* an outcome, the graph is fixed before the build starts, and the store   *)
(* is asked for one digest.  One of them runs, the others stay as they     *)
(* start, in one of their initial states.                                  *)
(***************************************************************************)
EXTENDS MCCompileQueue, ActionBuild, ArtifactStore

CONSTANTS b1, b2, g1, h1, h2

\* Two builds of one graph, a compile and a link: with Redis, in one directory
\* and in two; without, also with another source or other tools for one of them.
TwoSteps == <<{}, {1}>>
TwoUp    == <<{1}, {1, 2}>>

On(h, tools, tiered, source) ==
  [host |-> h, tools |-> tools, tiered |-> tiered, pins |-> <<source, "x">>]

Pairs ==
  {b1 :> On(h1, "p", TRUE, "x") @@ b2 :> On(h, "p", TRUE, "x") : h \in {h1, h2}} \cup
  {b1 :> On(h1, "p", FALSE, "x") @@ b2 :> On(h1, e[1], FALSE, e[2]) :
     e \in {<<"p", "x">>, <<"p", "y">>, <<"q", "x">>}}

VARIABLE part

WorkerInit ==
  /\ Init /\ BuildInit /\ StoreInit /\ part \in {"queue", "build", "store"}
  /\ part # "build" => workload = CHOOSE w \in Workloads : TRUE
  /\ part # "store" => file = Nothing

QueueSteps == part = "queue" /\ Next /\ UNCHANGED <<buildVars, storeVars, part>>
BuildSteps == part = "build" /\ BuildNext /\ UNCHANGED <<vars, storeVars, part>>
StoreSteps == part = "store" /\ StoreNext /\ UNCHANGED <<vars, buildVars, part>>

WorkerNext == QueueSteps \/ BuildSteps \/ StoreSteps

WorkerSpec == WorkerInit /\ [][WorkerNext]_<<vars, buildVars, storeVars, part>>
===============================================================================
