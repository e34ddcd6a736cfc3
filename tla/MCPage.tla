-------------------------------- MODULE MCPage --------------------------------
(***************************************************************************)
(* What the users of a standalone server see, checked side by side: the    *)
(* jobs and the streams of the server; the handlers of a page; the chips   *)
(* that it flashes.  To the page a job is what runs and is over at some    *)
(* time, to a chip it is a firmware.  One of them runs, the others stay as *)
(* they start, where no fair action of theirs is enabled.                  *)
(***************************************************************************)
EXTENDS MCJobManager, PageSession, FirmwareFlash

VARIABLE part

PartInit ==
  /\ Init /\ SessionInit /\ FlasherInit
  /\ part \in {"stream", "jobs", "page", "chips"}
  /\ shown = CHOOSE c \in Contexts : TRUE

\* Three jobs on a server that is not shut down and that nobody streams from,
\* or two jobs and a stream.
JobSteps ==
  /\ part \in {"stream", "jobs"} /\ Next
  /\ part = "jobs" => stream' = stream /\ accepting' = accepting
  /\ part = "stream" => Cardinality({j \in Jobs : state'[j] # "none"}) <= 2
  /\ UNCHANGED <<sessionVars, flasherVars, part>>

SessionSteps == part = "page" /\ SessionNext /\ UNCHANGED <<vars, flasherVars, part>>
ChipSteps == part = "chips" /\ FlasherNext /\ UNCHANGED <<vars, sessionVars, part>>

PartNext == JobSteps \/ SessionSteps \/ ChipSteps

partVars == <<vars, sessionVars, flasherVars, part>>

PartSpec == PartInit /\ [][PartNext]_partVars /\ SessionFairness
=============================================================================
