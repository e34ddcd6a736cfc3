---------------------------- MODULE PageSession ----------------------------
(***************************************************************************)
(* One page of the editor: a compile is started, cancelled and watched by  *)
(* handlers that all wait for something and go on later, while the user    *)
(* edits, loads another project, compiles again or flashes what is shown.  *)
(* A handler that goes on checks that its run is still the active one, or  *)
(* that its result is still the last; cancelRemoteCompile() does so when   *)
(* the answer begins, and no more when it has read the body.               *)
(***************************************************************************)
EXTENDS Integers

CONSTANTS
  Contexts,  \* what the editor may hold: files, board, libraries, options
  MaxRuns    \* bound: compiles that are started

ASSUME PageConstants == MaxRuns \in Nat

VARIABLES
  shown,       \* the context in the editor: currentCompileContextKey()
  active,      \* activeCompile, the number of the run, or NoTab
  started,     \* runs started so far
  tab,         \* what the page knows of each run, and its job
  lastResult,  \* the run whose result is shown, or NoTab
  lastHex,     \* the run whose firmware is at hand, or NoTab
  priming,     \* results whose firmware is being fetched ahead
  flash,       \* what flash() is at: no, port, fetch, open or write
  chosen,      \* the result it was started for
  written      \* the firmware it has handed to the flasher

outputVars  == <<lastResult, lastHex, priming>>
flashVars   == <<flash, chosen, written>>
sessionVars == <<shown, active, started, tab, outputVars, flashVars>>

Runs == 1 .. MaxRuns
NoTab == 0

Unused(c) ==
  [key |-> c, at |-> "unused",
   cancelRequested |-> FALSE, cancelling |-> FALSE, handle |-> FALSE,
   calls |-> {},          \* what it waits for: delete, body, store, status
   timer |-> FALSE, listening |-> FALSE,
   job |-> "none"]        \* on the server: none, running, over or forgotten

SessionInit ==
  /\ shown \in Contexts
  /\ active = NoTab /\ started = 0
  /\ tab = [r \in Runs |-> Unused(shown)]
  /\ lastResult = NoTab /\ lastHex = NoTab /\ priming = {}
  /\ flash = "no" /\ chosen = NoTab /\ written = NoTab

Becomes(r, run) == tab' = [tab EXCEPT ![r] = run]

\* clearCompileOutput: what is being fetched ahead comes too late.
Clear == lastResult' = NoTab /\ lastHex' = NoTab /\ UNCHANGED priming

\* scheduleJobStatusCheck and checkJobStatus, which do nothing twice.
Scheduled(run) == [run EXCEPT !.timer = TRUE]
Asked(run) == [run EXCEPT !.calls = @ \cup {"status"}]

\* finishCompile, for the run that is active.  Its compile() and the answers it
\* waits for go on, and find it closed; the rest is of no use any more.
Finished(r, run) ==
  /\ Becomes(r, [Unused(run.key) EXCEPT !.at = run.at, !.calls = run.calls])
  /\ active' = NoTab

\* applyCompileResult: a firmware, diagnostics, or a cancellation.
Apply(r, run) ==
  /\ Finished(r, run)
  /\ \/ /\ shown = run.key
        /\ lastResult' = r /\ priming' = priming \cup {r}
        /\ UNCHANGED lastHex
     \/ shown = run.key /\ UNCHANGED outputVars
     \/ Clear

----------------------------------------------------------------------------
(* The editor. *)

\* An edit, or a project that has been loaded or a library imported.  While it
\* flashes the page takes no edits, but the form for libraries stays open, and
\* what was being loaded goes on: compile() calls it off, flash() does not.
ContextChanges ==
  /\ shown' \in Contexts
  /\ Clear
  /\ UNCHANGED <<active, started, tab, flashVars>>

----------------------------------------------------------------------------
(* compile() *)

CompileClicked ==
  /\ active = NoTab /\ flash = "no" /\ started < MaxRuns
  /\ started' = started + 1
  /\ active' = started'
  /\ Becomes(started', [Unused(shown) EXCEPT !.at = "browser"])
  /\ Clear
  /\ UNCHANGED <<shown, flashVars>>

\* The browser compiled it, or cannot and neither can the server; or the
\* server is asked.
BrowserReturns(r) ==
  /\ tab[r].at = "browser"
  /\ LET over == [tab[r] EXCEPT !.at = "returned"]
     IN  \/ active # r /\ Becomes(r, over) /\ UNCHANGED <<active, outputVars>>
         \/ active = r /\ Apply(r, over)
         \/ active = r /\ Finished(r, over) /\ UNCHANGED outputVars
         \/ /\ active = r
            /\ Becomes(r, [over EXCEPT !.at = "posting"])
            /\ UNCHANGED <<active, outputVars>>
  /\ UNCHANGED <<shown, started, flashVars>>

\* The POST is answered with a job, with or without a cancellation handle, or
\* it fails.  A cancellation does not reach it.
PostAnswered(r) ==
  /\ tab[r].at = "posting"
  /\ \/ /\ \E handle \in BOOLEAN :
             Becomes(r, [tab[r] EXCEPT !.at = "storing", !.handle = handle, !.job = "running"])
        /\ UNCHANGED <<active, outputVars>>
     \/ /\ Finished(r, [tab[r] EXCEPT !.at = "returned"])
        /\ IF tab[r].cancelRequested THEN Clear ELSE UNCHANGED outputVars
  /\ UNCHANGED <<shown, started, flashVars>>

\* commitCompileAcceptance, when the handle is stored: the run is tracked, or
\* the cancellation that was asked for meanwhile is sent.
Stored(r) ==
  /\ tab[r].at = "storing"
  /\ LET over == [tab[r] EXCEPT !.at = "returned", !.cancelRequested = FALSE]
     IN  \/ /\ ~tab[r].cancelRequested
            /\ Becomes(r, [over EXCEPT !.listening = (active = r)])
            /\ UNCHANGED <<active, outputVars>>
         \/ /\ tab[r].cancelRequested /\ over.handle
            /\ Becomes(r, [over EXCEPT !.calls = @ \cup {"delete"}])
            /\ UNCHANGED <<active, outputVars>>
         \/ tab[r].cancelRequested /\ ~over.handle /\ Finished(r, over) /\ Clear
  /\ UNCHANGED <<shown, started, flashVars>>

----------------------------------------------------------------------------
(* cancelCompile() and cancelRemoteCompile() *)

CancelClicked(r) ==
  /\ active = r /\ ~tab[r].cancelling
  /\ LET stopped == [tab[r] EXCEPT !.cancelRequested = TRUE, !.cancelling = TRUE]
     IN  \/ /\ tab[r].handle
            /\ Becomes(r, [tab[r] EXCEPT !.cancelling = TRUE, !.calls = @ \cup {"delete"}])
            /\ UNCHANGED <<active, outputVars>>
         \/ /\ tab[r].at = "posting"
            /\ Becomes(r, stopped)
            /\ UNCHANGED <<active, outputVars>>
         \/ tab[r].at = "browser" /\ Finished(r, stopped) /\ Clear
  /\ UNCHANGED <<shown, started, flashVars>>

\* The DELETE failed; the stream may never have been opened.
AfterFailedDelete_Waits(run) == [run EXCEPT !.cancelling = FALSE]
AfterFailedDelete(run) == Scheduled([run EXCEPT !.cancelling = FALSE])

\* The answer to the DELETE begins, or the call fails; a run that is over by then
\* is left alone.
CancelAnswered(r) ==
  /\ "delete" \in tab[r].calls
  /\ LET answered == [tab[r] EXCEPT !.calls = @ \ {"delete"}]
     IN  IF active # r THEN Becomes(r, answered)
         ELSE \/ Becomes(r, [answered EXCEPT !.calls = @ \cup {"body"}])
              \/ Becomes(r, AfterFailedDelete(answered))
  /\ UNCHANGED <<shown, active, started, outputVars, flashVars>>

\* Its body has been read: the handle has expired; the cancellation is refused,
\* granted, or too late.  That the run may be over now is looked at only when
\* it is refused: one that is granted clears whatever is shown.
CancelRead(r) ==
  /\ "body" \in tab[r].calls
  /\ LET read == [tab[r] EXCEPT !.calls = @ \ {"body"}]
         open == [read EXCEPT !.cancelling = FALSE]
     IN  \/ /\ \/ Becomes(r, [open EXCEPT !.handle = FALSE, !.calls = @ \cup {"store"}])
               \/ Becomes(r, IF active = r THEN AfterFailedDelete(read) ELSE read)
               \/ Becomes(r, IF active = r THEN Asked(open) ELSE open)
            /\ UNCHANGED <<active, outputVars>>
         \/ active = r /\ Finished(r, read) /\ Clear
         \/ active # r /\ Becomes(r, read) /\ UNCHANGED active /\ Clear
  /\ UNCHANGED <<shown, started, flashVars>>

\* The run is stored without the handle that has expired.
StoredAgain(r) ==
  /\ "store" \in tab[r].calls
  /\ LET answered == [tab[r] EXCEPT !.calls = @ \ {"store"}]
     IN  Becomes(r, IF active = r THEN Asked(answered) ELSE answered)
  /\ UNCHANGED <<shown, active, started, outputVars, flashVars>>

----------------------------------------------------------------------------
(* checkJobStatus() and the event stream *)

TimerFires(r) ==
  /\ tab[r].timer
  /\ Becomes(r, Asked([tab[r] EXCEPT !.timer = FALSE]))
  /\ UNCHANGED <<shown, active, started, outputVars, flashVars>>

StatusIn(r) == [tab[r] EXCEPT !.calls = @ \ {"status"}]

\* The job runs or is being cancelled, or nothing is learnt: ask again.
StatusUnknown(r) ==
  /\ "status" \in tab[r].calls
  /\ Becomes(r, IF active = r THEN Scheduled(StatusIn(r)) ELSE StatusIn(r))
  /\ UNCHANGED <<shown, active, started, outputVars, flashVars>>

\* The job is over, or the server does not know it any more.
StatusTold(r) ==
  /\ "status" \in tab[r].calls /\ active = r
  /\ \/ tab[r].job = "over" /\ Apply(r, StatusIn(r))
     \/ tab[r].job = "forgotten" /\ Finished(r, StatusIn(r)) /\ UNCHANGED outputVars
  /\ UNCHANGED <<shown, started, flashVars>>

StreamDone(r) ==
  /\ active = r /\ tab[r].listening /\ tab[r].job = "over"
  /\ Apply(r, tab[r])
  /\ UNCHANGED <<shown, started, flashVars>>

StreamError(r) ==
  /\ active = r /\ tab[r].listening
  /\ Becomes(r, Scheduled(tab[r]))
  /\ UNCHANGED <<shown, active, started, outputVars, flashVars>>

\* On the server; the result is kept for a while.
JobEnds(r) ==
  /\ tab[r].job = "running"
  /\ Becomes(r, [tab[r] EXCEPT !.job = "over"])
  /\ UNCHANGED <<shown, active, started, outputVars, flashVars>>

JobForgotten(r) ==
  /\ tab[r].job = "over"
  /\ Becomes(r, [tab[r] EXCEPT !.job = "forgotten"])
  /\ UNCHANGED <<shown, active, started, outputVars, flashVars>>

----------------------------------------------------------------------------
(* The firmware, fetched ahead and flashed. *)

StillShown_Any(r) == TRUE
StillShown(r) == lastResult = r

\* The artifact arrives, or does not.
Primed(r) ==
  /\ r \in priming
  /\ priming' = priming \ {r}
  /\ IF StillShown(r) THEN lastHex' \in {r, NoTab} ELSE UNCHANGED lastHex
  /\ UNCHANGED <<shown, active, started, tab, lastResult, flashVars>>

FlashClicked ==
  /\ flash = "no" /\ active = NoTab /\ lastResult # NoTab
  /\ IF shown = tab[lastResult].key
     THEN flash' = "port" /\ chosen' = lastResult /\ UNCHANGED <<written, outputVars>>
     ELSE Clear /\ UNCHANGED flashVars
  /\ UNCHANGED <<shown, active, started, tab>>

\* The user picks a port, and the monitor is stopped.
PortChosen ==
  /\ flash = "port" /\ shown = tab[chosen].key
  /\ flash' = IF lastHex = NoTab THEN "fetch" ELSE "open"
  /\ UNCHANGED <<shown, active, started, tab, outputVars, chosen, written>>

HexFetched ==
  /\ flash = "fetch"
  /\ flash' = "open" /\ lastHex' = chosen
  /\ UNCHANGED <<shown, active, started, tab, lastResult, priming, chosen, written>>

\* Without a firmware the flasher fails before it writes anything.
PortOpened ==
  /\ flash = "open" /\ lastHex # NoTab
  /\ flash' = "write" /\ written' = lastHex
  /\ UNCHANGED <<shown, active, started, tab, outputVars, chosen>>

\* The board is flashed, or something failed on the way.
FlashEnds ==
  /\ flash # "no"
  /\ flash' = "no" /\ chosen' = NoTab /\ written' = NoTab
  /\ UNCHANGED <<shown, active, started, tab, outputVars>>

----------------------------------------------------------------------------

SessionNext ==
  \/ ContextChanges \/ CompileClicked
  \/ \E r \in Runs :
       \/ BrowserReturns(r) \/ PostAnswered(r) \/ Stored(r)
       \/ CancelClicked(r) \/ CancelAnswered(r) \/ CancelRead(r)
       \/ StoredAgain(r)
       \/ TimerFires(r) \/ StatusUnknown(r) \/ StatusTold(r)
       \/ StreamDone(r) \/ StreamError(r) \/ JobEnds(r) \/ JobForgotten(r)
       \/ Primed(r)
  \/ FlashClicked \/ PortChosen \/ HexFetched \/ PortOpened \/ FlashEnds

\* What the page waits for comes or fails; a job has a deadline; a stream of a
\* job that is over tells so or breaks; a server that is asked again and again
\* answers at last.
SessionFairness ==
  /\ WF_sessionVars(\E r \in Runs : BrowserReturns(r) \/ PostAnswered(r) \/ Stored(r))
  /\ WF_sessionVars(\E r \in Runs : CancelAnswered(r) \/ CancelRead(r) \/ StoredAgain(r))
  /\ WF_sessionVars(\E r \in Runs : TimerFires(r))
  /\ WF_sessionVars(\E r \in Runs : StatusUnknown(r) \/ StatusTold(r))
  /\ SF_sessionVars(\E r \in Runs : StatusTold(r))
  /\ WF_sessionVars(\E r \in Runs : JobEnds(r))
  /\ WF_sessionVars(\E r \in Runs : tab[r].job # "running" /\ (StreamDone(r) \/ StreamError(r)))

SessionSpec == SessionInit /\ [][SessionNext]_sessionVars /\ SessionFairness

(***************************************************************************)
(* Properties.                                                             *)
(***************************************************************************)
RunType ==
  [key : Contexts, at : {"unused", "browser", "posting", "storing", "returned"},
   cancelRequested : BOOLEAN, cancelling : BOOLEAN, handle : BOOLEAN,
   calls : SUBSET {"delete", "body", "store", "status"}, timer : BOOLEAN, listening : BOOLEAN,
   job : {"none", "running", "over", "forgotten"}]

SessionTypeOK ==
  /\ shown \in Contexts
  /\ active \in Runs \cup {NoTab} /\ started \in 0 .. MaxRuns
  /\ tab \in [Runs -> RunType]
  /\ {lastResult, lastHex, chosen, written} \subseteq Runs \cup {NoTab}
  /\ priming \subseteq Runs
  /\ flash \in {"no", "port", "fetch", "open", "write"}

\* What reaches the board is the firmware of the result that flash() was
\* started for, which is that of the last compile, though an artifact that was
\* fetched ahead for an older result may arrive at any time.
WrittenIsChosen == flash = "write" => written = chosen /\ chosen = started

\* The page never waits for ever: a run that is active gets a result, is
\* cancelled or is given up, although its cancellation may fail before a
\* stream was opened, its stream may break and the server may not answer.
EveryRunEnds == \A r \in Runs : active = r ~> active # r
============================================================================
