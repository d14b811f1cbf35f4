--------------------------- MODULE LiveFeedProofs ---------------------------
(***************************************************************************)
(* What holds of the simulator for every number of requests, transactions  *)
(* and stops: its type, its books, one run at a time, and that a finished  *)
(* run stays so; and that the page and the API together do to the          *)
(* simulator only what it allows, which carries these theorems, about      *)
(* ServerSpec, over to a feed with pages in front of it.                   *)
(***************************************************************************)
EXTENDS LiveFeed, TLAPS

\* The books of one run.
Books(run) ==
    /\ run.sent = run.scored + run.failed + (IF run.inFlight = "scoring" THEN 1 ELSE 0)
    /\ run.sent <= run.total
    /\ run.status = "COMPLETED" => /\ run.scored + run.failed = run.total
                                   /\ run.inFlight = "no"

\* While no two starts have been past the check at once.
Alone ==
    /\ \A r \in RunningRuns : r = activeRun
    /\ \A i, j \in Starting : i = j
    /\ Starting # {} => RunningRuns = {}

IInv ==
    /\ TypeOK
    /\ \A r \in RunIds : runs[r] # None => Books(runs[r]) /\ starts[r] = "started"
    /\ ~overlapped => Alone

-----------------------------------------------------------------------------
(* One run, whatever happens to it.                                        *)

\* A new run's books are in order.
LEMMA NewRun ==
    ASSUME NEW total \in 1..MAX_COUNT
    PROVE  LET run == [status |-> "RUNNING", total |-> total, sent |-> 0, scored |-> 0,
                       failed |-> 0, inFlight |-> "no"]
           IN  run \in Run /\ Books(run)
    BY SimulatorAssumption DEF Run, Statuses, Books

\* Stopping a run that is running.
LEMMA StopRun ==
    ASSUME NEW run \in Run, Books(run), run.status = "RUNNING"
    PROVE  LET new == [run EXCEPT !.status = "STOPPED"] IN new \in Run /\ Books(new)
    BY DEF Run, Statuses, Books

\* Completing one that has nothing left to send and nothing on its way.
LEMMA CompleteRun ==
    ASSUME NEW run \in Run, Books(run), Exhausted(run), run.inFlight = "no"
    PROVE  LET new == [run EXCEPT !.status = "COMPLETED"] IN new \in Run /\ Books(new)
<1>1. run.scored + run.failed = run.total
    BY DEF Run, Books, Exhausted
<1>. QED BY <1>1 DEF Run, Statuses, Books

\* The fields of a run.
LEMMA Fields ==
    ASSUME NEW run \in Run
    PROVE  /\ run.status \in Statuses
           /\ run.total \in Nat /\ run.total <= MAX_COUNT
           /\ run.sent \in Nat /\ run.scored \in Nat /\ run.failed \in Nat
    BY SimulatorAssumption DEF Run

\* A tick that sends.
LEMMA SendOne ==
    ASSUME NEW run \in Run, Books(run), ~Exhausted(run), run.inFlight = "no",
           run.status = "RUNNING"
    PROVE  LET new == [run EXCEPT !.sent = @ + 1, !.inFlight = "scoring"]
           IN  new \in Run /\ Books(new)
<1>. DEFINE new == [run EXCEPT !.sent = @ + 1, !.inFlight = "scoring"]
<1>1. run.sent + 1 \in 0..MAX_COUNT /\ run.sent + 1 <= run.total
    BY Fields, SimulatorAssumption DEF Exhausted
<1>2. new \in Run
    BY <1>1 DEF Run
<1>3. /\ new.sent = run.sent + 1 /\ new.scored = run.scored /\ new.failed = run.failed
      /\ new.total = run.total /\ new.status = "RUNNING" /\ new.inFlight = "scoring"
    BY DEF Run
<1>4. Books(new)
  <2>1. run.sent = run.scored + run.failed
      BY Fields DEF Books
  <2>. QED BY <1>1, <1>3, <2>1, Fields DEF Books
<1>. QED BY <1>2, <1>4

\* The scorer answers.
LEMMA ScoreOne ==
    ASSUME NEW run \in Run, Books(run), run.inFlight = "scoring"
    PROVE  LET new == [run EXCEPT !.scored = @ + 1, !.inFlight = "publishing"]
           IN  new \in Run /\ Books(new)
<1>. DEFINE new == [run EXCEPT !.scored = @ + 1, !.inFlight = "publishing"]
<1>1. run.sent = run.scored + run.failed + 1 /\ run.sent <= run.total
    BY DEF Books
<1>2. run.scored + 1 \in 0..MAX_COUNT
    BY <1>1, Fields, SimulatorAssumption
<1>3. new \in Run
    BY <1>2 DEF Run
<1>4. /\ new.sent = run.sent /\ new.scored = run.scored + 1 /\ new.failed = run.failed
      /\ new.total = run.total /\ new.status = run.status /\ new.inFlight = "publishing"
    BY DEF Run
<1>5. run.status # "COMPLETED"
    BY DEF Books
<1>6. Books(new)
    BY <1>1, <1>4, <1>5, Fields DEF Books
<1>. QED BY <1>3, <1>6

\* The scorer fails, up to finally.
LEMMA FailOne ==
    ASSUME NEW run \in Run, Books(run), run.inFlight = "scoring"
    PROVE  LET new == [run EXCEPT !.failed = @ + 1, !.inFlight = "no"]
           IN  new \in Run /\ Books(new)
<1>. DEFINE new == [run EXCEPT !.failed = @ + 1, !.inFlight = "no"]
<1>1. run.sent = run.scored + run.failed + 1 /\ run.sent <= run.total
    BY DEF Books
<1>2. run.failed + 1 \in 0..MAX_COUNT
    BY <1>1, Fields, SimulatorAssumption
<1>3. new \in Run
    BY <1>2 DEF Run
<1>4. /\ new.sent = run.sent /\ new.scored = run.scored /\ new.failed = run.failed + 1
      /\ new.total = run.total /\ new.status = run.status /\ new.inFlight = "no"
    BY DEF Run
<1>5. run.status # "COMPLETED"
    BY DEF Books
<1>6. Books(new)
    BY <1>1, <1>4, <1>5, Fields DEF Books
<1>. QED BY <1>3, <1>6

\* The result is published, up to finally.
LEMMA ReleaseOne ==
    ASSUME NEW run \in Run, Books(run), run.inFlight = "publishing"
    PROVE  LET new == [run EXCEPT !.inFlight = "no"] IN new \in Run /\ Books(new)
    BY DEF Run, Statuses, Books

-----------------------------------------------------------------------------
(* Steps.                                                                  *)

\* A step that changes one run, and either leaves its status and the reported
\* run alone or ends it and reports it.
LEMMA UpdateKeeps ==
    ASSUME IInv, NEW r \in RunIds, runs[r] # None, NEW new \in Run, Books(new),
           runs' = [runs EXCEPT ![r] = new],
           \/ new.status = runs[r].status /\ activeRun' = activeRun
           \/ runs[r].status = "RUNNING" /\ new.status # "RUNNING" /\ activeRun' = r,
           UNCHANGED <<starts, overlapped>>, up' \in BOOLEAN, stops' \in 0..MaxStops
    PROVE  IInv'
<1>1. TypeOK'
    BY DEF IInv, TypeOK
<1>2. \A i \in RunIds : runs'[i] # None => Books(runs'[i]) /\ starts'[i] = "started"
    BY DEF IInv, TypeOK
<1>3. RunningRuns' \subseteq RunningRuns /\ Starting' = Starting
    BY DEF IInv, TypeOK, RunningRuns, Starting
<1>4. ASSUME ~overlapped PROVE Alone'
  <2>1. Alone
      BY <1>4 DEF IInv
  <2>2. CASE activeRun' = activeRun
      BY <1>3, <2>1, <2>2 DEF Alone
  <2>3. CASE runs[r].status = "RUNNING" /\ new.status # "RUNNING" /\ activeRun' = r
    <3>1. RunningRuns \subseteq {r} /\ r \notin RunningRuns'
        BY <2>1, <2>3 DEF Alone, RunningRuns, IInv, TypeOK
    <3>. QED BY <1>3, <2>1, <3>1 DEF Alone
  <2>. QED BY <2>2, <2>3
<1>. QED BY <1>1, <1>2, <1>4 DEF IInv, Books

\* A tick's finally, for what the tick has made of the run.
LEMMA EndsKeeps ==
    ASSUME IInv, NEW r \in RunIds, runs[r] # None, NEW run \in Run,
           [run EXCEPT !.inFlight = "no"] \in Run, Books([run EXCEPT !.inFlight = "no"]),
           run.status = runs[r].status,
           Ends(r, run), UNCHANGED <<starts, up, overlapped, stops>>
    PROVE  IInv'
<1>. DEFINE done == [run EXCEPT !.inFlight = "no"]
<1>1. /\ done.status = run.status /\ done.inFlight = "no"
      /\ Exhausted(done) <=> Exhausted(run)
    BY DEF Run, Exhausted
<1>2. stops' \in 0..MaxStops /\ up' \in BOOLEAN
    BY DEF IInv, TypeOK
<1>3. CASE Completes(run)
  <2>. DEFINE new == [done EXCEPT !.status = "COMPLETED"]
  <2>1. new \in Run /\ Books(new)
      BY <1>1, <1>3, CompleteRun DEF Completes
  <2>2. runs' = [runs EXCEPT ![r] = new] /\ activeRun' = r
      BY <1>3 DEF Ends, finish
  <2>3. new.status = "COMPLETED" /\ runs[r].status = "RUNNING"
      BY <1>3 DEF Completes, Run
  <2>. HIDE DEF new
  <2>. QED BY <1>2, <2>1, <2>2, <2>3, UpdateKeeps
<1>4. CASE ~Completes(run)
  <2>1. runs' = [runs EXCEPT ![r] = done] /\ activeRun' = activeRun
      BY <1>4 DEF Ends
  <2>. HIDE DEF done
  <2>. QED BY <1>1, <1>2, <2>1, UpdateKeeps DEF done
<1>. QED BY <1>3, <1>4

LEMMA StopKeeps ==
    ASSUME IInv, NEW r \in RunningRuns, finish(r, runs[r], "STOPPED"),
           UNCHANGED <<starts, overlapped>>, up' \in BOOLEAN, stops' \in 0..MaxStops
    PROVE  IInv'
<1>. DEFINE new == [runs[r] EXCEPT !.status = "STOPPED"]
<1>1. r \in RunIds /\ runs[r] # None /\ runs[r] \in Run /\ Books(runs[r])
      /\ runs[r].status = "RUNNING"
    BY DEF RunningRuns, IInv, TypeOK
<1>2. new \in Run /\ Books(new) /\ new.status = "STOPPED"
    BY <1>1, StopRun DEF Run
<1>3. runs' = [runs EXCEPT ![r] = new] /\ activeRun' = r
    BY DEF finish
<1>. HIDE DEF new
<1>. QED BY <1>1, <1>2, <1>3, UpdateKeeps

LEMMA CheckStartKeeps ==
    ASSUME IInv, NEW i \in RunIds, CheckStart(i) PROVE IInv'
<1>1. TypeOK'
    BY DEF IInv, TypeOK, CheckStart
<1>2. \A r \in RunIds : runs'[r] # None => Books(runs'[r]) /\ starts'[r] = "started"
    BY DEF IInv, TypeOK, CheckStart
<1>3. RunningRuns' = RunningRuns /\ activeRun' = activeRun
    BY DEF CheckStart, RunningRuns
<1>4. ASSUME ~overlapped' PROVE Alone'
  <2>1. Alone /\ ~overlapped
      BY <1>4 DEF IInv, CheckStart
  <2>2. CASE Free
    <3>1. Starting = {} /\ RunningRuns = {}
        BY <1>4, <2>1, <2>2 DEF CheckStart, Alone, Free, Active
    <3>2. Starting' = {i}
        BY <2>2, <3>1 DEF CheckStart, Starting, IInv, TypeOK
    <3>. QED BY <1>3, <3>1, <3>2 DEF Alone
  <2>3. CASE ~Free
    <3>1. Starting' = Starting
        BY <2>3 DEF CheckStart, Starting, IInv, TypeOK
    <3>. QED BY <1>3, <2>1, <3>1 DEF Alone
  <2>. QED BY <2>2, <2>3
<1>. QED BY <1>1, <1>2, <1>4 DEF IInv, Books

LEMMA StartKeeps ==
    ASSUME IInv, NEW i \in RunIds, startSimulator(i) PROVE IInv'
<1>0. starts[i] = "query" /\ UNCHANGED <<up, overlapped, stops>>
    BY DEF startSimulator
<1>1. CASE starts' = [starts EXCEPT ![i] = "refused"] /\ UNCHANGED <<runs, activeRun>>
  <2>1. TypeOK' /\ \A r \in RunIds : runs'[r] # None => Books(runs'[r]) /\ starts'[r] = "started"
      BY <1>0, <1>1 DEF IInv, TypeOK
  <2>2. Starting' \subseteq Starting /\ RunningRuns' = RunningRuns
      BY <1>1 DEF Starting, RunningRuns, IInv, TypeOK
  <2>. QED BY <1>0, <1>1, <2>1, <2>2 DEF IInv, Alone, Books
<1>2. ASSUME NEW total \in 1..MAX_COUNT,
             runs' = [runs EXCEPT ![i] =
                [status |-> "RUNNING", total |-> total, sent |-> 0, scored |-> 0,
                 failed |-> 0, inFlight |-> "no"]],
             activeRun' = i, starts' = [starts EXCEPT ![i] = "started"]
      PROVE  IInv'
  <2>. DEFINE new == [status |-> "RUNNING", total |-> total, sent |-> 0, scored |-> 0,
                      failed |-> 0, inFlight |-> "no"]
  <2>1. new \in Run /\ Books(new)
      BY <1>2, NewRun
  <2>2. runs' = [runs EXCEPT ![i] = new]
      BY <1>2
  <2>. HIDE DEF new
  <2>3. TypeOK' /\ \A r \in RunIds : runs'[r] # None => Books(runs'[r]) /\ starts'[r] = "started"
      BY <1>0, <1>2, <2>1, <2>2 DEF IInv, TypeOK
  <2>4. ASSUME ~overlapped PROVE Alone'
    <3>1. i \in Starting /\ Alone
        BY <1>0, <2>4 DEF IInv, Starting
    <3>2. Starting' = {} /\ RunningRuns' \subseteq {i}
        BY <1>2, <2>2, <3>1 DEF Alone, Starting, RunningRuns, IInv, TypeOK
    <3>. QED BY <1>2, <3>2 DEF Alone
  <2>. QED BY <1>0, <2>3, <2>4 DEF IInv, Books
<1>. QED BY <1>1, <1>2 DEF startSimulator

LEMMA TickKeeps ==
    ASSUME IInv, NEW r \in RunIds, Tick(r) PROVE IInv'
<1>0. UNCHANGED <<starts, up, overlapped, stops>>
    BY DEF Tick, tick, ScoreSucceeds, ScoreFails, publishFeedPrediction
<1>1. stops' \in 0..MaxStops /\ up' \in BOOLEAN
    BY <1>0 DEF IInv, TypeOK
<1>2. runs[r] # None => runs[r] \in Run /\ Books(runs[r])
    BY DEF IInv, TypeOK
<1>3. CASE tick(r)
  <2>1. runs[r] # None /\ runs[r].status = "RUNNING" /\ runs[r].inFlight = "no"
      BY <1>3 DEF tick, RunningRuns, Idle
  <2>2. CASE Exhausted(runs[r])
    <3>. DEFINE new == [runs[r] EXCEPT !.status = "COMPLETED"]
    <3>1. new \in Run /\ Books(new) /\ new.status = "COMPLETED"
        BY <1>2, <2>1, <2>2, CompleteRun DEF Run
    <3>2. runs' = [runs EXCEPT ![r] = new] /\ activeRun' = r
        BY <1>3, <2>2 DEF tick, finish
    <3>. HIDE DEF new
    <3>. QED BY <1>0, <1>1, <2>1, <3>1, <3>2, UpdateKeeps
  <2>3. CASE ~Exhausted(runs[r])
    <3>. DEFINE new == [runs[r] EXCEPT !.sent = @ + 1, !.inFlight = "scoring"]
    <3>1. new \in Run /\ Books(new) /\ new.status = runs[r].status
        BY <1>2, <2>1, <2>3, SendOne DEF Run
    <3>2. runs' = [runs EXCEPT ![r] = new] /\ activeRun' = activeRun
        BY <1>3, <2>3 DEF tick, IInv, TypeOK
    <3>. HIDE DEF new
    <3>. QED BY <1>0, <1>1, <2>1, <3>1, <3>2, UpdateKeeps
  <2>. QED BY <2>2, <2>3
<1>4. CASE ScoreSucceeds(r)
  <2>1. runs[r] # None /\ runs[r].inFlight = "scoring"
      BY <1>4 DEF ScoreSucceeds, Scoring
  <2>. DEFINE new == [runs[r] EXCEPT !.scored = @ + 1, !.inFlight = "publishing"]
  <2>2. new \in Run /\ Books(new) /\ new.status = runs[r].status
      BY <1>2, <2>1, ScoreOne DEF Run
  <2>3. runs' = [runs EXCEPT ![r] = new] /\ activeRun' = activeRun
      BY <1>4 DEF ScoreSucceeds, IInv, TypeOK
  <2>. HIDE DEF new
  <2>. QED BY <1>0, <1>1, <2>1, <2>2, <2>3, UpdateKeeps
<1>5. CASE ScoreFails(r)
  <2>1. runs[r] # None /\ runs[r].inFlight = "scoring"
      BY <1>5 DEF ScoreFails, Scoring
  <2>. DEFINE run == [runs[r] EXCEPT !.failed = @ + 1]
  <2>2. [run EXCEPT !.inFlight = "no"] \in Run /\ Books([run EXCEPT !.inFlight = "no"])
      BY <1>2, <2>1, FailOne
  <2>3. run \in Run /\ run.status = runs[r].status
    <3>1. runs[r].failed + 1 \in 0..MAX_COUNT
        BY <1>2, <2>1, Fields, SimulatorAssumption DEF Books
    <3>. QED BY <1>2, <2>1, <3>1 DEF Run
  <2>4. Ends(r, run)
      BY <1>5 DEF ScoreFails, Fails
  <2>. HIDE DEF run
  <2>. QED BY <1>0, <2>1, <2>2, <2>3, <2>4, EndsKeeps
<1>6. CASE publishFeedPrediction(r)
  <2>1. runs[r] # None /\ runs[r].inFlight = "publishing" /\ Ends(r, runs[r])
      BY <1>6 DEF publishFeedPrediction
  <2>2. [runs[r] EXCEPT !.inFlight = "no"] \in Run /\ Books([runs[r] EXCEPT !.inFlight = "no"])
      BY <1>2, <2>1, ReleaseOne
  <2>. QED BY <1>0, <1>2, <2>1, <2>2, EndsKeeps
<1>. QED BY <1>3, <1>4, <1>5, <1>6 DEF Tick

LEMMA Inductive == IInv /\ [ServerNext]_serverVars => IInv'
<1>. SUFFICES ASSUME IInv, [ServerNext]_serverVars PROVE IInv'
    OBVIOUS
<1>0. stops \in 0..MaxStops /\ up \in BOOLEAN /\ MaxStops \in Nat
    BY SimulatorAssumption DEF IInv, TypeOK
<1>1. ASSUME NEW i \in RunIds, CheckStart(i) PROVE IInv'
    BY <1>1, CheckStartKeeps
<1>2. ASSUME NEW i \in RunIds, startSimulator(i) PROVE IInv'
    BY <1>2, StartKeeps
<1>3. ASSUME NEW i \in RunIds, Tick(i) PROVE IInv'
    BY <1>3, TickKeeps
<1>4. ASSUME NEW r \in RunIds, stopSimulator(r), stops' \in 0..MaxStops, UNCHANGED up
      PROVE  IInv'
  <2>1. r \in RunningRuns /\ finish(r, runs[r], "STOPPED") /\ UNCHANGED <<starts, overlapped>>
      BY <1>4 DEF stopSimulator, Stoppable, Active
  <2>. QED BY <1>0, <1>4, <2>1, StopKeeps
<1>5. ASSUME NEW r \in RunIds, StopByOthers(r) PROVE IInv'
  <2>1. stopSimulator(r) /\ stops' \in 0..MaxStops /\ UNCHANGED up
      BY <1>0, <1>5 DEF StopByOthers, stopSimulator
  <2>. QED BY <1>4, <2>1
<1>6. ASSUME NEW r \in RunIds, stopSimulator(r), UNCHANGED stops PROVE IInv'
    BY <1>0, <1>4, <1>6 DEF stopSimulator
<1>7. CASE shutdownSimulator
  <2>0. UNCHANGED <<starts, overlapped, stops>> /\ up' \in BOOLEAN
      BY <1>7 DEF shutdownSimulator
  <2>1. CASE Active
    <3>1. activeRun \in RunningRuns /\ finish(activeRun, runs[activeRun], "STOPPED")
        BY <1>7, <2>1 DEF shutdownSimulator, Active
    <3>. QED BY <1>0, <2>0, <3>1, StopKeeps
  <2>2. CASE ~Active
      BY <1>7, <2>0, <2>2
      DEF shutdownSimulator, IInv, TypeOK, Alone, Books, RunningRuns, Starting
  <2>. QED BY <2>1, <2>2
<1>8. CASE UNCHANGED serverVars
    BY <1>8 DEF serverVars, IInv, TypeOK, Alone, Books, RunningRuns, Starting
<1>. QED BY <1>1, <1>2, <1>3, <1>5, <1>6, <1>7, <1>8 DEF ServerNext

LEMMA Initially == ServerInit => IInv
<1>. SUFFICES ASSUME ServerInit PROVE IInv
    OBVIOUS
<1>1. TypeOK
  <2>1. stops \in 0..MaxStops
      BY SimulatorAssumption DEF ServerInit
  <2>2. runs \in [RunIds -> Run \union {None}]
      BY DEF ServerInit
  <2>3. starts \in [RunIds -> {"none", "query", "refused", "started"}]
      BY DEF ServerInit
  <2>4. activeRun \in RunIds \union {None} /\ up \in BOOLEAN /\ overlapped \in BOOLEAN
      BY DEF ServerInit
  <2>. QED BY <2>1, <2>2, <2>3, <2>4 DEF TypeOK
<1>2. \A r \in RunIds : runs[r] = None /\ starts[r] = "none"
    BY DEF ServerInit
<1>3. RunningRuns = {} /\ Starting = {}
    BY <1>2 DEF RunningRuns, Starting
<1>. QED BY <1>1, <1>2, <1>3 DEF IInv, Alone

LEMMA Invariant == ServerSpec => []IInv
    BY Initially, Inductive, PTL DEF ServerSpec

-----------------------------------------------------------------------------
(* The theorems.                                                           *)

\* The simulator's state keeps its type: no run sends, scores or fails more
\* than it was given.
THEOREM SimulatorTypeOK == ServerSpec => []TypeOK
<1>1. IInv => TypeOK
    BY DEF IInv
<1>. QED BY <1>1, Invariant, PTL

\* Each transaction sent is scored, skipped or on its way, and a completed run
\* has nothing left.
THEOREM RunsAccount == ServerSpec => []RunAccounts
<1>1. IInv => RunAccounts
    BY DEF IInv, RunAccounts, Books
<1>. QED BY <1>1, Invariant, PTL

\* Without two starts past the check at once, a running run is the only one
\* and the one that can be stopped.
THEOREM OneAtATime == ServerSpec => []OneRunAtATime
<1>1. IInv => OneRunAtATime
    BY DEF IInv, OneRunAtATime, Alone
<1>. QED BY <1>1, Invariant, PTL

\* No step of anyone revives a finished run or sends for it.
THEOREM FinishedForGood == ServerSpec => FinishedStaysFinished
<1>1. ASSUME IInv, [ServerNext]_serverVars
      PROVE  [\A r \in RunIds : runs[r] # None /\ runs[r].status # "RUNNING" =>
                 /\ runs'[r].status = runs[r].status
                 /\ runs'[r].sent = runs[r].sent]_serverVars
  <2>. SUFFICES ASSUME NEW r \in RunIds, runs[r] # None, runs[r].status # "RUNNING",
                       ServerNext
                PROVE  runs'[r].status = runs[r].status /\ runs'[r].sent = runs[r].sent
      BY <1>1
  <2>0. r \notin RunningRuns /\ runs[r] \in Run /\ starts[r] = "started"
        /\ runs \in [RunIds -> Run \union {None}]
      BY <1>1 DEF RunningRuns, IInv, TypeOK
  <2>1. ASSUME NEW i \in RunIds, CheckStart(i) PROVE runs'[r] = runs[r]
      BY <2>1 DEF CheckStart
  <2>2. ASSUME NEW i \in RunIds, startSimulator(i) PROVE runs'[r] = runs[r]
      BY <2>0, <2>2 DEF startSimulator
  <2>3. ASSUME NEW i \in RunIds, stopSimulator(i) PROVE runs'[r] = runs[r]
      BY <2>0, <2>3 DEF stopSimulator, Stoppable, Active, finish
  <2>4. CASE shutdownSimulator
      BY <2>0, <2>4 DEF shutdownSimulator, Active, finish
  <2>5. ASSUME NEW i \in RunIds, tick(i) PROVE runs'[r] = runs[r]
      BY <2>0, <2>5 DEF tick, finish
  <2>6. ASSUME NEW i \in RunIds, ScoreSucceeds(i)
        PROVE  runs'[r].status = runs[r].status /\ runs'[r].sent = runs[r].sent
      BY <2>0, <2>6 DEF ScoreSucceeds, Run
  <2>7. ASSUME NEW i \in RunIds, NEW run \in Run, Ends(i, run),
               i = r => run.status = runs[r].status /\ run.sent = runs[r].sent
        PROVE  runs'[r].status = runs[r].status /\ runs'[r].sent = runs[r].sent
    <3>1. CASE i = r
      <4>1. ~Completes(run)
          BY <2>7, <3>1 DEF Completes
      <4>2. runs'[r] = [run EXCEPT !.inFlight = "no"]
          BY <2>0, <2>7, <3>1, <4>1 DEF Ends
      <4>. QED BY <2>7, <3>1, <4>2 DEF Run
    <3>2. CASE i # r
        BY <2>0, <2>7, <3>2 DEF Ends, finish
    <3>. QED BY <3>1, <3>2
  <2>8. ASSUME NEW i \in RunIds, ScoreFails(i)
        PROVE  runs'[r].status = runs[r].status /\ runs'[r].sent = runs[r].sent
    <3>. DEFINE run == [runs[i] EXCEPT !.failed = @ + 1]
    <3>1. runs[i] \in Run /\ Books(runs[i]) /\ runs[i].inFlight = "scoring"
        BY <1>1, <2>8 DEF ScoreFails, Scoring, IInv, TypeOK
    <3>2. runs[i].failed + 1 \in 0..MAX_COUNT
        BY <3>1, Fields, SimulatorAssumption DEF Books
    <3>3. run \in Run /\ run.status = runs[i].status /\ run.sent = runs[i].sent
        BY <3>1, <3>2 DEF Run
    <3>4. Ends(i, run)
        BY <2>8 DEF ScoreFails, Fails
    <3>. HIDE DEF run
    <3>. QED BY <2>7, <3>3, <3>4
  <2>9. ASSUME NEW i \in RunIds, publishFeedPrediction(i)
        PROVE  runs'[r].status = runs[r].status /\ runs'[r].sent = runs[r].sent
    <3>1. runs[i] \in Run /\ Ends(i, runs[i])
        BY <2>9, <2>0 DEF publishFeedPrediction
    <3>. QED BY <2>7, <3>1
  <2>. QED BY <2>1, <2>2, <2>3, <2>4, <2>5, <2>6, <2>8, <2>9 DEF ServerNext, StopByOthers, Tick
<1>. QED BY <1>1, Invariant, PTL DEF ServerSpec, FinishedStaysFinished

-----------------------------------------------------------------------------
(* The page and the API together.                                          *)

\* Every step of the page or the API is a step of the simulator or leaves it
\* alone: the composition implements the simulator.
THEOREM FeedImplementsSimulator == Spec => ServerSpec
<1>1. Init => ServerInit
    BY DEF Init
<1>2. [Next]_feedVars => [ServerNext]_serverVars
  <2>. SUFFICES ASSUME [Next]_feedVars PROVE [ServerNext]_serverVars
      OBVIOUS
  <2>1. CASE UNCHANGED feedVars
      BY <2>1 DEF feedVars
  <2>2. CASE Server
      BY <2>2 DEF Server, Elsewhere, ServerNext
  <2>3. CASE AskStatus \/ ReceiveStatus \/ StartAnswered \/ PressStop \/ Visit
      BY <2>3 DEF AskStatus, ReceiveStatus, StartAnswered, PressStop, Visit
  <2>4. CASE StopAnswered
    <3>1. CASE ~Stoppable(stopping) /\ UNCHANGED serverVars
        BY <3>1
    <3>2. CASE stopSimulator(stopping) /\ UNCHANGED stops
      <4>1. stopping \in RunIds
          BY <3>2 DEF stopSimulator, Stoppable, Active, RunningRuns
      <4>. QED BY <3>2, <4>1 DEF ServerNext
    <3>. QED BY <2>4, <3>1, <3>2 DEF StopAnswered
  <2>5. ASSUME NEW i \in RunIds, PressStart(i) PROVE ServerNext
      BY <2>5 DEF PressStart, ServerNext
  <2>. QED BY <2>1, <2>2, <2>3, <2>4, <2>5 DEF Next, Page
<1>. QED BY <1>1, <1>2, PTL DEF Spec, ServerSpec

\* One run at a time, with any number of pages and users.
THEOREM FeedOneAtATime == Spec => []OneRunAtATime
    BY FeedImplementsSimulator, OneAtATime, PTL

=============================================================================
