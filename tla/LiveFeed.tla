------------------------------ MODULE LiveFeed ------------------------------
(***************************************************************************)
(* The live-feed page of one user, over the simulator that other users may *)
(* start and stop too.                                                     *)
(*                                                                         *)
(*   frontend/src/pages/LiveFeed.jsx                                       *)
(*                                                                         *)
(* The page knows the run from GET /simulator/status only: it asks on      *)
(* mount, after its own start and stop, and every 1200 ms while the last   *)
(* answer said a run is active.                                            *)
(***************************************************************************)
EXTENDS Simulator

CONSTANTS
    Mine,      \* the requests to start that are this page's
    MaxVisits  \* bound: times the user comes back to the page

ASSUME LiveFeedAssumption ==
    Mine \subseteq RunIds /\ MaxVisits \in Nat

VARIABLES
    view,     \* the last answer
    asking,   \* a status request is under way
    starting, \* the page's start that is under way, or None
    stopping, \* the run its stop that is under way names, or None
    visits    \* visits so far, for MaxVisits

pageVars == <<view, asking, starting, stopping, visits>>
feedVars == <<serverVars, pageVars>>

\* publicView, as far as the controls depend on it
publicView == [active |-> Active, run |-> activeRun]

-----------------------------------------------------------------------------

Ask == asking' = TRUE

\* Mutant: the interval is not set.
Polls_Never == FALSE

\* refetchInterval
Polls == view.active

AskStatus ==
    /\ up /\ Polls /\ ~asking /\ Ask
    /\ UNCHANGED <<serverVars, view, starting, stopping, visits>>

ReceiveStatus ==
    /\ up /\ asking /\ asking' = FALSE
    /\ view' = publicView
    /\ UNCHANGED <<serverVars, starting, stopping, visits>>

\* Start replay, offered while the page sees no active run. The API's side is
\* CheckStart and startSimulator.
PressStart(i) ==
    /\ i \in Mine /\ ~view.active /\ starting = None /\ stopping = None
    /\ CheckStart(i)
    /\ starting' = i
    /\ UNCHANGED <<view, asking, stopping, visits>>

\* onSuccess asks for the status; onError says why and leaves the page as it is.
StartAnswered ==
    /\ starting # None /\ starts[starting] \in {"started", "refused"}
    /\ IF starts[starting] = "started" THEN Ask ELSE UNCHANGED asking
    /\ starting' = None
    /\ UNCHANGED <<serverVars, view, stopping, visits>>

\* Stop, for the run the page has seen.
PressStop ==
    /\ view.active /\ stopping = None /\ starting = None
    /\ stopping' = view.run
    /\ UNCHANGED <<serverVars, view, asking, starting, visits>>

StopAnswered ==
    /\ up /\ stopping # None
    /\ \/ stopSimulator(stopping) /\ Ask /\ UNCHANGED stops
       \/ ~Stoppable(stopping) /\ UNCHANGED <<serverVars, asking>>
    /\ stopping' = None
    /\ UNCHANGED <<view, starting, visits>>

\* Coming back mounts the page again: it asks, unless the answer it has is
\* younger than staleTime.
Visit ==
    /\ visits < MaxVisits /\ visits' = visits + 1
    /\ asking' \in {asking, TRUE}
    /\ UNCHANGED <<serverVars, view, starting, stopping>>

-----------------------------------------------------------------------------

Init ==
    /\ ServerInit
    /\ view = [active |-> FALSE, run |-> None] /\ asking = TRUE
    /\ starting = None /\ stopping = None /\ visits = 0

\* Requests of other users, and the API's side of everyone's.
Elsewhere ==
    \/ \E i \in RunIds : startSimulator(i) \/ StopByOthers(i)
    \/ \E i \in RunIds \ Mine : CheckStart(i)
    \/ shutdownSimulator

Server == /\ Elsewhere \/ \E r \in RunIds : Tick(r)
          /\ UNCHANGED pageVars

Page == \/ AskStatus \/ ReceiveStatus \/ StartAnswered \/ PressStop \/ StopAnswered \/ Visit
        \/ \E i \in RunIds : PressStart(i)

Next == Server \/ Page

Spec == Init /\ [][Next]_feedVars

\* The interval of a run keeps firing and its awaits end while the process is
\* up; the page polls and is answered.
FairSpec ==
    /\ Spec
    /\ \A r \in RunIds : WF_feedVars(up /\ Tick(r) /\ UNCHANGED pageVars)
    /\ WF_feedVars(AskStatus) /\ WF_feedVars(ReceiveStatus)

-----------------------------------------------------------------------------
(* Properties.                                                             *)

\* A run ends, also one that lost its place to another and that no stop
\* reaches: failures are skipped, and a tick that is skipped for the one
\* before it is followed by another.
EveryRunEnds == \A r \in RunIds : r \in RunningRuns ~> r \notin RunningRuns \/ ~up

\* A page that shows a run as active finds out that it is over, whoever
\* started or stopped it and whatever the page was doing.
PageSeesTheEnd == view.active ~> ~view.active \/ ~up

=============================================================================
