------------------------------ MODULE Simulator ------------------------------
(***************************************************************************)
(* The live-feed simulator: a timer replays stored transactions through the*)
(* scorer, one at a time, and publishes each result to the feed.           *)
(*                                                                         *)
(*   backend/src/modules/simulator/simulator.service.js                    *)
(*   backend/src/realtime/publisher.js    publishFeedPrediction            *)
(*   backend/src/server.js                shutdown                         *)
(*   frontend/src/pages/LiveFeed.jsx      the page that starts and stops it*)
(*                                                                         *)
(* Starting awaits a query between its check and its claim; a tick awaits  *)
(* the scorer and the publisher. Everything else runs to its end.          *)
(***************************************************************************)
EXTENDS Integers, FiniteSets

CONSTANTS
    RunIds,   \* requests to start a run, and the runs they start
    MAX_COUNT,\* the most transactions a run replays
    None,     \* no run
    MaxStops  \* bound: requests of other users to stop a run

ASSUME SimulatorAssumption ==
    /\ IsFiniteSet(RunIds) /\ None \notin RunIds
    /\ MAX_COUNT \in Nat \ {0} /\ MaxStops \in Nat

Statuses == {"RUNNING", "COMPLETED", "STOPPED"}

\* sent is cursor too: they are set and advanced together. The timer is set
\* exactly while the run is RUNNING.
Run == [status : Statuses, total : 1..MAX_COUNT, sent : 0..MAX_COUNT,
        scored : 0..MAX_COUNT, failed : 0..MAX_COUNT,
        inFlight : {"no", "scoring", "publishing"}]

VARIABLES
    runs,       \* each run, None before it is created
    activeRun,  \* the run GET /status reports
    starts,     \* how far each request to start has come
    up,         \* the process has not been told to shut down
    overlapped, \* history: two requests were both past the check
    stops       \* requests of others to stop, for MaxStops

serverVars == <<runs, activeRun, starts, up, overlapped, stops>>

Starting    == {i \in RunIds : starts[i] = "query"}
RunningRuns == {i \in RunIds : runs[i] # None /\ runs[i].status = "RUNNING"}
Active      == activeRun \in RunningRuns

-----------------------------------------------------------------------------
(* Starting and stopping.                                                  *)

\* Mutant: a run that is active does not refuse another.
Free_Always == TRUE

Free == ~Active

CheckStart(i) ==
    /\ up /\ starts[i] = "none"
    /\ starts' = [starts EXCEPT ![i] = IF Free THEN "query" ELSE "refused"]
    /\ overlapped' = (overlapped \/ (Free /\ Starting # {}))
    /\ UNCHANGED <<runs, activeRun, up, stops>>

\* The sample is empty when there is nothing to replay.
startSimulator(i) ==
    /\ starts[i] = "query"
    /\ \/ /\ starts' = [starts EXCEPT ![i] = "refused"]
          /\ UNCHANGED <<runs, activeRun>>
       \/ /\ \E total \in 1..MAX_COUNT :
                runs' = [runs EXCEPT ![i] =
                   [status |-> "RUNNING", total |-> total, sent |-> 0, scored |-> 0,
                    failed |-> 0, inFlight |-> "no"]]
          /\ activeRun' = i
          /\ starts' = [starts EXCEPT ![i] = "started"]
    /\ UNCHANGED <<up, overlapped, stops>>

\* Whatever run it is given, finish makes it the one that is reported.
finish(r, run, s) ==
    /\ runs' = [runs EXCEPT ![r] = [run EXCEPT !.status = s]]
    /\ activeRun' = r

\* stopSimulator refuses any run but the one that is reported.
Stoppable(r) == Active /\ r = activeRun

stopSimulator(r) ==
    /\ Stoppable(r)
    /\ finish(r, runs[r], "STOPPED")
    /\ UNCHANGED <<starts, up, overlapped>>

StopByOthers(r) ==
    /\ up /\ stops < MaxStops /\ stops' = stops + 1
    /\ stopSimulator(r)

\* shutdown stops the reported run; requests that have begun go on.
shutdownSimulator ==
    /\ up /\ up' = FALSE
    /\ IF Active THEN finish(activeRun, runs[activeRun], "STOPPED")
       ELSE UNCHANGED <<runs, activeRun>>
    /\ UNCHANGED <<starts, overlapped, stops>>

-----------------------------------------------------------------------------
(* Ticks.                                                                  *)

\* Mutant: one transaction too many.
Exhausted_Late(run) == run.sent > run.total

Exhausted(run) == run.sent >= run.total

\* Mutant: a tick does not mind the one before it.
Idle_Always(run) == TRUE

Idle(run) == run.inFlight = "no"

\* What the interval calls: it is cleared when the run finishes.
tick(r) ==
    /\ r \in RunningRuns /\ Idle(runs[r])
    /\ IF Exhausted(runs[r]) THEN finish(r, runs[r], "COMPLETED")
       ELSE /\ runs' = [runs EXCEPT ![r].sent = @ + 1, ![r].inFlight = "scoring"]
            /\ UNCHANGED activeRun
    /\ UNCHANGED <<starts, up, overlapped, stops>>

\* Mutant: the last transaction ends the run whatever became of it meanwhile.
Completes_Always(run) == Exhausted(run)

Completes(run) == Exhausted(run) /\ run.status = "RUNNING"

\* finally
Ends(r, run) ==
    LET done == [run EXCEPT !.inFlight = "no"]
    IN  IF Completes(run) THEN finish(r, done, "COMPLETED")
        ELSE runs' = [runs EXCEPT ![r] = done] /\ UNCHANGED activeRun

\* Mutant: a tick that fails does not release the run.
Fails_Holding(r) == /\ runs' = [runs EXCEPT ![r].failed = @ + 1, ![r].inFlight = "held"]
                    /\ UNCHANGED activeRun

Fails(r) == Ends(r, [runs[r] EXCEPT !.failed = @ + 1])

Scoring(r) == runs[r] # None /\ runs[r].inFlight = "scoring"

\* scoreAndPersist fails for a transaction deleted since, or a scorer down.
ScoreSucceeds(r) ==
    /\ Scoring(r)
    /\ runs' = [runs EXCEPT ![r].scored = @ + 1, ![r].inFlight = "publishing"]
    /\ UNCHANGED <<activeRun, starts, up, overlapped, stops>>

ScoreFails(r) ==
    /\ Scoring(r) /\ Fails(r)
    /\ UNCHANGED <<starts, up, overlapped, stops>>

\* publish swallows its errors: the prediction counts as scored either way.
publishFeedPrediction(r) ==
    /\ runs[r] # None /\ runs[r].inFlight = "publishing"
    /\ Ends(r, runs[r])
    /\ UNCHANGED <<starts, up, overlapped, stops>>

Tick(r) == \/ tick(r) \/ ScoreSucceeds(r) \/ ScoreFails(r) \/ publishFeedPrediction(r)

-----------------------------------------------------------------------------

ServerInit ==
    /\ runs = [i \in RunIds |-> None] /\ activeRun = None
    /\ starts = [i \in RunIds |-> "none"]
    /\ up = TRUE /\ overlapped = FALSE /\ stops = 0

ServerNext ==
    \/ \E i \in RunIds : CheckStart(i) \/ startSimulator(i) \/ StopByOthers(i) \/ Tick(i)
    \/ \E r \in RunIds : stopSimulator(r) /\ UNCHANGED stops
    \/ shutdownSimulator

ServerSpec == ServerInit /\ [][ServerNext]_serverVars

-----------------------------------------------------------------------------
(* Properties.                                                             *)

TypeOK ==
    /\ runs \in [RunIds -> Run \union {None}]
    /\ activeRun \in RunIds \union {None}
    /\ starts \in [RunIds -> {"none", "query", "refused", "started"}]
    /\ up \in BOOLEAN /\ overlapped \in BOOLEAN /\ stops \in 0..MaxStops

\* Each transaction sent is scored, skipped or on its way, through stops and
\* ticks that end after them, and a run is reported complete only when nothing
\* is left to send and nothing is on its way.
RunAccounts ==
    \A r \in RunIds : runs[r] # None =>
        LET run == runs[r]
        IN  /\ run.sent = run.scored + run.failed
                             + (IF run.inFlight = "scoring" THEN 1 ELSE 0)
            /\ run.sent <= run.total
            /\ run.status = "COMPLETED" =>
                  /\ run.scored + run.failed = run.total
                  /\ run.inFlight = "no"

\* "the spec is one run at a time": if no two starts are past the check at
\* once, a run that is running is the only one, and the one stop reaches.
OneRunAtATime == ~overlapped => \A r \in RunningRuns : r = activeRun

\* A tick that is still scoring when its run is stopped, and ends when another
\* has started, neither revives nor completes it, and it sends nothing more.
FinishedStaysFinished ==
    [][\A r \in RunIds : runs[r] # None /\ runs[r].status # "RUNNING" =>
          /\ runs'[r].status = runs[r].status
          /\ runs'[r].sent = runs[r].sent]_serverVars

=============================================================================
