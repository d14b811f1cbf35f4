---------------------------- MODULE BatchScoring ----------------------------
(***************************************************************************)
(* Batch scoring: an API request writes a BatchJob row and puts the job's  *)
(* transactions on a BullMQ queue in chunks; a worker process scores the   *)
(* chunks, several at a time, and the chunk whose recorded outcome brings  *)
(* completedChunks level with totalChunks gives the job its final status;  *)
(* an administrator may re-enqueue what a finished job left unscored.      *)
(*                                                                         *)
(*   backend/src/modules/jobs/jobs.service.js      createJob, retryJob,    *)
(*       markJobProcessing, recordChunkResult, finalizeJob                 *)
(*   backend/src/workers/batchScoring.worker.js    processChunk, the       *)
(*       'failed' listener, shutdown                                       *)
(*   backend/src/modules/predictions/predictions.service.js                *)
(*       scoreAndPersist                                                   *)
(*                                                                         *)
(* Every await of these functions ends an atomic step, save where two      *)
(* neighbouring steps commute with everything that can run between them.   *)
(***************************************************************************)
EXTENDS Integers, Sequences, FiniteSets, SequencesExt

CONSTANTS
    Jobs,         \* batch job ids; also the createJob request that makes each
    Txns,         \* transaction ids
    Retriers,     \* concurrent POST /jobs/:id/retry requests
    Absent,       \* "the transaction has no Prediction row"
    NoJob,        \* batchJobId = null: a synchronous score
    ChunkSize,    \* CHUNK_SIZE
    MaxAttempts,  \* JOB_OPTIONS.attempts
    MaxStalled,   \* BullMQ's maxStalledCount
    Concurrency,  \* chunks one worker process runs at a time
    Unscorable,   \* transactions without the balances the scorer needs
    Refused,      \* transactions whose request the scorer rejects (HTTP 422)
    Events,       \* what else may happen in this instance, of EventKinds
    MaxRetries,   \* bound: retries of one job
    MaxCrashes    \* bound: crashes and restarts of the worker process

EventKinds == {"ml",       \* the scoring service fails a call
               "db",       \* PostgreSQL fails a statement
               "enqueue",  \* addBulk throws, or the API dies before it
               "crash",    \* the worker process dies
               "stop",     \* the worker process is asked to stop
               "rescore",  \* POST /predictions scores a transaction
               "delete"}   \* a transaction is soft-deleted

ASSUME ConstantsAssumption ==
    /\ Absent \notin Jobs /\ NoJob \notin Jobs /\ Absent # NoJob
    /\ IsFiniteSet(Txns)
    /\ ChunkSize \in Nat \ {0}
    /\ MaxAttempts \in Nat \ {0}
    /\ Concurrency \in Nat \ {0}
    /\ MaxStalled \in Nat /\ MaxRetries \in Nat /\ MaxCrashes \in Nat
    /\ Unscorable \subseteq Txns /\ Refused \subseteq Txns
    /\ Events \subseteq EventKinds

VARIABLES
    job,         \* the BatchJob rows (PostgreSQL)
    prediction,  \* Absent, or the batchJobId of the transaction's Prediction
    deleted,     \* the transactions with a deletedAt
    issued,      \* chunks put on the queue so far: BullMQ's id counter
    queue,       \* the chunks (Redis), by id
    work,        \* what the worker process holds in memory for each chunk
    draining,    \* the worker is shutting down and takes no new chunk
    submitting,  \* jobs whose createJob is between its row and its addBulk
    retry,       \* the retryJob requests
    crashes,     \* crashes and restarts so far, for MaxCrashes
    runs,        \* how often each job was reset by a retry, for MaxRetries
    tallies      \* history: how often each chunk's outcome was recorded

database == <<job, prediction, deleted>>
requests == <<submitting, retry, runs>>
worker   == <<work, draining, crashes>>
vars     == <<job, prediction, deleted, issued, queue, work, draining,
              submitting, retry, crashes, runs, tallies>>

-----------------------------------------------------------------------------
(* The rows and records.                                                   *)

IN_FLIGHT          == {"QUEUED", "PROCESSING"}
RETRYABLE_STATUSES == {"FAILED", "PARTIALLY_COMPLETED"}
Terminal           == RETRYABLE_STATUSES \union {"COMPLETED"}

\* "NONE" is the absence of the row: the request has not been made.
JobRow == [status : IN_FLIGHT \union Terminal \union {"NONE"},
           transactionIds : Seq(Txns), processedCount : Nat, failedCount : Nat,
           totalChunks : Nat, completedChunks : Nat]
NoRow  == [status |-> "NONE", transactionIds |-> <<>>, processedCount |-> 0,
           failedCount |-> 0, totalChunks |-> 0, completedChunks |-> 0]

\* "stalled": BullMQ still lists it active, its worker is gone.
ChunkState == {"wait", "active", "stalled", "completed", "failed"}
Chunk == [batchJobId : Jobs, transactionIds : Seq(Txns) \ {<<>>},
          state : ChunkState, attemptsMade : Nat, stalls : Nat]

WorkPc == {"idle", "mark", "fetch", "insert", "update", "lookup", "salvage",
           "tally", "finalize", "ack"}
Work  == [pc : WorkPc, next : Nat \ {0}, processed : Nat, failed : Nat,
          verdict : Terminal]
Idle  == [pc |-> "idle", next |-> 1, processed |-> 0, failed |-> 0,
          verdict |-> "COMPLETED"]

RetryRequest == [pc : {"idle", "scan", "reset", "enqueue"}, job : Jobs \union {NoJob},
                 ids : Seq(Txns), done : SUBSET Txns]
NoRequest == [pc |-> "idle", job |-> NoJob, ids |-> <<>>, done |-> {}]

RowsOf(c)  == queue[c].transactionIds
TxnAt(c)   == RowsOf(c)[work[c].next]
JobOf(c)   == queue[c].batchJobId
IsHandler(c) == queue[c].state = "failed"

\* The predictions attributed to job j among S.
ScoredBy(j, S) == {t \in S : prediction[t] = j}

-----------------------------------------------------------------------------
(* Splitting ids into chunks, and putting them on the queue.               *)

\* How many chunks n ids make.
ChunkCount(n) == (n + ChunkSize - 1) \div ChunkSize

\* Mutant: chunks are numbered from 1 and cut as if numbered from 0.
chunk_FromZero(ids, k) ==
    LET last == (k + 1) * ChunkSize
    IN  SubSeq(ids, k * ChunkSize + 1, IF last < Len(ids) THEN last ELSE Len(ids))

\* The k-th chunk of ids.
chunk(ids, k) ==
    LET first == (k - 1) * ChunkSize + 1
        last  == first + ChunkSize - 1
    IN  SubSeq(ids, first, IF last < Len(ids) THEN last ELSE Len(ids))

\* queue.addBulk: one MULTI, so all of the job's chunks or none.
AddBulk(j, ids) ==
    LET n == ChunkCount(Len(ids))
    IN  /\ issued' = issued + n
        /\ queue' = [c \in 1..(issued + n) |->
               IF c <= issued THEN queue[c]
               ELSE [batchJobId |-> j, transactionIds |-> chunk(ids, c - issued),
                     state |-> "wait", attemptsMade |-> 0, stalls |-> 0]]
        /\ work' = [c \in 1..(issued + n) |-> IF c <= issued THEN work[c] ELSE Idle]
        /\ tallies' = [c \in 1..(issued + n) |-> IF c <= issued THEN tallies[c] ELSE 0]

-----------------------------------------------------------------------------
(* createJob                                                               *)

\* The id lists a request may resolve to. SQL returns explicit ids in no
\* particular order; the oldest unscored ones are some of the unscored.
resolveTransactionIds(filter) ==
    LET live == Txns \ deleted
    IN  UNION {SetToSeqs(S) : S \in SUBSET
            (IF filter = "unscored" THEN {t \in live : prediction[t] = Absent}
             ELSE live)}

\* Resolving and writing the row are one step: nothing else reads the row
\* before it exists, and a deletion between the two could as well come after.
CreateJob(j) ==
    /\ job[j].status = "NONE"
    /\ \E filter \in {"ids", "unscored"} :
       \E ids \in resolveTransactionIds(filter) :
          /\ ids # <<>>
          /\ job' = [job EXCEPT ![j] = [NoRow EXCEPT
                !.status = "QUEUED", !.transactionIds = ids,
                !.totalChunks = ChunkCount(Len(ids))]]
    /\ submitting' = submitting \union {j}
    /\ UNCHANGED <<prediction, deleted, issued, queue, work, draining, retry,
                   crashes, runs, tallies>>

EnqueueJob(j) ==
    /\ j \in submitting
    /\ submitting' = submitting \ {j}
    /\ AddBulk(j, job[j].transactionIds)
    /\ UNCHANGED <<database, draining, crashes, retry, runs>>

\* addBulk rejects, or the process dies before it: the row is already there.
EnqueueJobFails(j) ==
    /\ "enqueue" \in Events
    /\ j \in submitting
    /\ submitting' = submitting \ {j}
    /\ UNCHANGED <<database, issued, queue, tallies, worker, retry, runs>>

-----------------------------------------------------------------------------
(* retryJob: four awaits between the status check and the last write.      *)

RetryCheck(r, j) ==
    /\ retry[r].pc = "idle"
    /\ job[j].status \in RETRYABLE_STATUSES
    /\ runs[j] < MaxRetries
    /\ retry' = [retry EXCEPT ![r] = [NoRequest EXCEPT !.pc = "scan", !.job = j]]
    /\ UNCHANGED <<database, issued, queue, tallies, worker, submitting, runs>>

\* alreadyScored
RetryScan(r) ==
    LET j == retry[r].job
    IN  /\ retry[r].pc = "scan"
        /\ retry' = [retry EXCEPT ![r] = [@ EXCEPT !.pc = "reset",
              !.done = ScoredBy(j, ToSet(job[j].transactionIds))]]
        /\ UNCHANGED <<database, issued, queue, tallies, worker, submitting, runs>>

\* Mutant: a retry takes the whole roster again.
Outstanding_All(r) == ToSet(job[retry[r].job].transactionIds) \ deleted

\* What is left to score: no deletion, no prediction of this job.
Outstanding(r) ==
    ToSet(job[retry[r].job].transactionIds) \ (retry[r].done \union deleted)

\* NOTHING_TO_RETRY
RetryNothingLeft(r) ==
    /\ retry[r].pc = "reset"
    /\ Outstanding(r) = {}
    /\ retry' = [retry EXCEPT ![r] = NoRequest]
    /\ UNCHANGED <<database, issued, queue, tallies, worker, submitting, runs>>

\* Mutant: the previous run's failures are not cleared.
ResetRow_KeepsFailed(row, n) ==
    [row EXCEPT !.status = "QUEUED", !.totalChunks = n, !.completedChunks = 0]

\* The row at the start of a retry: processedCount is kept.
ResetRow(row, n) ==
    [row EXCEPT !.status = "QUEUED", !.failedCount = 0, !.totalChunks = n,
                !.completedChunks = 0]

\* The outstanding query and the update are one step: a deletion between the
\* two could as well come after.
RetryReset(r) ==
    LET j == retry[r].job
    IN  /\ retry[r].pc = "reset"
        /\ Outstanding(r) # {}
        /\ \E ids \in SetToSeqs(Outstanding(r)) :
              /\ job' = [job EXCEPT ![j] = ResetRow(@, ChunkCount(Len(ids)))]
              /\ retry' = [retry EXCEPT ![r] = [@ EXCEPT !.pc = "enqueue",
                                !.ids = ids, !.done = {}]]
        /\ runs' = [runs EXCEPT ![j] = @ + 1]
        /\ UNCHANGED <<prediction, deleted, issued, queue, tallies, worker,
                       submitting>>

\* (A bound: where addBulk may fail, it fails for retries.)
RetryEnqueue(r) ==
    /\ "enqueue" \notin Events
    /\ retry[r].pc = "enqueue"
    /\ AddBulk(retry[r].job, retry[r].ids)
    /\ retry' = [retry EXCEPT ![r] = NoRequest]
    /\ UNCHANGED <<database, draining, crashes, submitting, runs>>

RetryEnqueueFails(r) ==
    /\ "enqueue" \in Events
    /\ retry[r].pc = "enqueue"
    /\ retry' = [retry EXCEPT ![r] = NoRequest]
    /\ UNCHANGED <<database, issued, queue, tallies, worker, submitting, runs>>

-----------------------------------------------------------------------------
(* The worker: taking a chunk, and what BullMQ does when its attempt ends. *)

Active == {c \in 1..issued : queue[c].state = "active"}

\* A retried chunk waits for its backoff first and several chunks may be
\* waiting, so any waiting chunk may be the next.
Take(c) ==
    /\ queue[c].state = "wait"
    /\ ~draining
    /\ Cardinality(Active) < Concurrency
    /\ queue' = [queue EXCEPT ![c].state = "active"]
    /\ work' = [work EXCEPT ![c] = [Idle EXCEPT !.pc = "mark"]]
    /\ UNCHANGED <<database, issued, tallies, draining, crashes, requests>>

\* Mutant: nobody records a chunk that has used up its attempts.
AttemptFails_NoListener(c) ==
    LET made == queue[c].attemptsMade + 1
    IN  /\ queue' = [queue EXCEPT ![c].attemptsMade = made,
                ![c].state = IF made >= MaxAttempts THEN "failed" ELSE "wait"]
        /\ work' = [work EXCEPT ![c] = Idle]

\* The processor threw. BullMQ counts the attempt and re-queues the chunk or
\* fails it for good; the 'failed' listener acts on the last attempt only.
AttemptFails(c) ==
    LET made == queue[c].attemptsMade + 1
        last == made >= MaxAttempts
    IN  /\ queue' = [queue EXCEPT ![c] = [@ EXCEPT !.attemptsMade = made,
                         !.state = IF last THEN "failed" ELSE "wait"]]
        /\ work' = [work EXCEPT ![c] =
                        IF last THEN [Idle EXCEPT !.pc = "salvage"] ELSE Idle]

-----------------------------------------------------------------------------
(* processChunk                                                            *)

markJobProcessing(c) ==
    LET j == JobOf(c)
    IN  /\ work[c].pc = "mark"
        /\ job' = IF job[j].status = "QUEUED"
                  THEN [job EXCEPT ![j].status = "PROCESSING"] ELSE job
        /\ work' = [work EXCEPT ![c].pc = "fetch"]
        /\ UNCHANGED <<prediction, deleted, issued, queue, tallies, draining,
                       crashes, requests>>

\* The loop's next iteration, or its end.
NextRow(c) == IF work[c].next < Len(RowsOf(c)) THEN "fetch" ELSE "tally"

CountRow(c, ok) ==
    work' = [work EXCEPT ![c].pc = NextRow(c), ![c].next = @ + 1,
                ![c].processed = IF ok THEN @ + 1 ELSE @,
                ![c].failed = IF ok THEN @ ELSE @ + 1]

\* scoreAndPersist up to the scorer's answer: the transaction is absent or
\* lacks balances and is counted failed, or it has a score to write.
FetchRow(c) ==
    /\ work[c].pc = "fetch"
    /\ \/ /\ TxnAt(c) \in deleted \union Unscorable
          /\ CountRow(c, FALSE)
       \/ /\ TxnAt(c) \notin deleted \union Unscorable \union Refused
          /\ work' = [work EXCEPT ![c].pc = "lookup"]
    /\ UNCHANGED <<database, issued, queue, tallies, draining, crashes, requests>>

\* A RETRYABLE_ML_CODES error: the chunk is abandoned. A request the scorer
\* refuses comes back as ML_SERVICE_ERROR, one of these codes.
ScorerFails(c) ==
    /\ work[c].pc = "fetch"
    /\ TxnAt(c) \notin deleted \union Unscorable
    /\ TxnAt(c) \in Refused \/ "ml" \in Events
    /\ AttemptFails(c)
    /\ UNCHANGED <<database, issued, tallies, draining, crashes, requests>>

\* The upsert selects a nested relation, so it is a read and then a write:
\* an insert that meets a row written in between is a unique violation, which
\* the loop counts as a failed transaction.
LookupRow(c) ==
    /\ work[c].pc = "lookup"
    /\ work' = [work EXCEPT ![c].pc =
                   IF prediction[TxnAt(c)] = Absent THEN "insert" ELSE "update"]
    /\ UNCHANGED <<database, issued, queue, tallies, draining, crashes, requests>>

WriteRow(c) ==
    LET clash == work[c].pc = "insert" /\ prediction[TxnAt(c)] # Absent
    IN  /\ work[c].pc \in {"insert", "update"}
        /\ prediction' = IF clash THEN prediction
                         ELSE [prediction EXCEPT ![TxnAt(c)] = JobOf(c)]
        /\ CountRow(c, ~clash)
        /\ UNCHANGED <<job, deleted, issued, queue, tallies, draining, crashes,
                       requests>>

\* Any other error inside the loop, a database error among them.
RowFails(c) ==
    /\ "db" \in Events
    /\ work[c].pc \in {"fetch", "lookup", "insert", "update"}
    /\ CountRow(c, FALSE)
    /\ UNCHANGED <<database, issued, queue, tallies, draining, crashes, requests>>

-----------------------------------------------------------------------------
(* Recording a chunk's outcome: the processor's last calls, and the        *)
(* listener's.                                                             *)

\* Where the caller goes once the outcome is recorded: the processor returns
\* and BullMQ completes the chunk, the listener is done.
Recorded(c) == IF IsHandler(c) THEN Idle ELSE [Idle EXCEPT !.pc = "ack"]

FinalStatus(row) ==
    CASE row.failedCount = 0 -> "COMPLETED"
      [] row.failedCount # 0 /\ row.processedCount = 0 -> "FAILED"
      [] OTHER -> "PARTIALLY_COMPLETED"

\* Mutant: the run ends one chunk early.
IsLast_Early(row) == row.completedChunks + 1 >= row.totalChunks

\* Mutant: the run ends only when the two numbers are equal.
IsLast_Exact(row) == row.completedChunks = row.totalChunks

IsLast(row) == row.completedChunks >= row.totalChunks

\* Mutant: the status is decided from the row before the update.
Finaliser_Stale(c, row) ==
    [Idle EXCEPT !.pc = "finalize", !.verdict = FinalStatus(job[JobOf(c)])]

\* The caller that saw the last chunk recorded; the status is decided now.
Finaliser(c, row) == [Idle EXCEPT !.pc = "finalize", !.verdict = FinalStatus(row)]

\* One UPDATE ... SET x = x + n RETURNING *.
recordChunkResult(c) ==
    LET j == JobOf(c)
        updated == [job[j] EXCEPT !.processedCount = @ + work[c].processed,
                                  !.failedCount = @ + work[c].failed,
                                  !.completedChunks = @ + 1]
    IN  /\ work[c].pc = "tally"
        /\ job' = [job EXCEPT ![j] = updated]
        /\ tallies' = [tallies EXCEPT ![c] = @ + 1]
        /\ work' = [work EXCEPT ![c] =
               IF IsLast(updated) THEN Finaliser(c, updated) ELSE Recorded(c)]
        /\ UNCHANGED <<prediction, deleted, issued, queue, draining, crashes,
                       requests>>

finalizeJob(c) ==
    LET j == JobOf(c)
    IN  /\ work[c].pc = "finalize"
        /\ job' = IF job[j].status \in IN_FLIGHT
                  THEN [job EXCEPT ![j].status = work[c].verdict] ELSE job
        /\ work' = [work EXCEPT ![c] = Recorded(c)]
        /\ UNCHANGED <<prediction, deleted, issued, queue, tallies, draining,
                       crashes, requests>>

\* The processor returned: BullMQ moves the chunk to completed.
Acknowledge(c) ==
    /\ work[c].pc = "ack"
    /\ queue' = [queue EXCEPT ![c].state = "completed"]
    /\ work' = [work EXCEPT ![c] = Idle]
    /\ UNCHANGED <<database, issued, tallies, draining, crashes, requests>>

\* Mutant: the whole chunk is written off.
Salvaged_Nothing(c) == 0

\* How many of a chunk's transactions carry a prediction of its job.
Salvaged(c) == Cardinality(ScoredBy(JobOf(c), ToSet(RowsOf(c))))

\* The 'failed' listener, last attempt: count what landed.
countScored(c) ==
    LET scored == Salvaged(c)
    IN  /\ work[c].pc = "salvage"
        /\ work' = [work EXCEPT ![c] = [Idle EXCEPT !.pc = "tally",
               !.processed = scored, !.failed = Len(RowsOf(c)) - scored]]
        /\ UNCHANGED <<database, issued, queue, tallies, draining, crashes,
                       requests>>

\* A statement outside the loop throws: a processor's attempt fails, the
\* listener logs it and gives up.
BookkeepingFails(c) ==
    /\ "db" \in Events
    /\ work[c].pc \in {"mark", "salvage", "tally", "finalize"}
    /\ IF IsHandler(c)
       THEN work' = [work EXCEPT ![c] = Idle] /\ UNCHANGED queue
       ELSE AttemptFails(c)
    /\ UNCHANGED <<database, issued, tallies, draining, crashes, requests>>

-----------------------------------------------------------------------------
(* The worker process dies, or stops and is started again.                 *)

\* Everything in memory is lost, a running 'failed' listener included.
WorkerDies ==
    /\ "crash" \in Events
    /\ crashes < MaxCrashes
    /\ crashes' = crashes + 1
    /\ queue' = [c \in 1..issued |->
                    IF queue[c].state = "active"
                    THEN [queue[c] EXCEPT !.state = "stalled"] ELSE queue[c]]
    /\ work' = [c \in 1..issued |-> Idle]
    /\ draining' = FALSE
    /\ UNCHANGED <<database, issued, tallies, requests>>

\* BullMQ's periodic check hands a stalled chunk back, or fails it once it
\* has stalled too often. That failure counts as one attempt, so the listener
\* takes it for one of several unless it is the last.
StalledCheck(c) ==
    LET stalls == queue[c].stalls + 1
        made   == queue[c].attemptsMade + 1
    IN  /\ queue[c].state = "stalled"
        /\ IF stalls <= MaxStalled
           THEN /\ queue' = [queue EXCEPT ![c] =
                              [@ EXCEPT !.state = "wait", !.stalls = stalls]]
                /\ UNCHANGED work
           ELSE /\ queue' = [queue EXCEPT ![c] = [@ EXCEPT !.state = "failed",
                                 !.stalls = stalls, !.attemptsMade = made]]
                /\ work' = [work EXCEPT ![c].pc =
                                IF made >= MaxAttempts THEN "salvage" ELSE "idle"]
        /\ UNCHANGED <<database, issued, tallies, draining, crashes, requests>>

\* SIGTERM: worker.close() takes no new chunk and waits for the running ones.
Stop ==
    /\ "stop" \in Events
    /\ crashes < MaxCrashes
    /\ ~draining
    /\ crashes' = crashes + 1
    /\ draining' = TRUE
    /\ UNCHANGED <<database, issued, queue, work, tallies, requests>>

\* close() waits for processors only; process.exit takes the listeners along.
Exit ==
    /\ draining
    /\ Active = {}
    /\ work' = [c \in 1..issued |-> Idle]
    /\ draining' = FALSE
    /\ UNCHANGED <<database, issued, queue, tallies, crashes, requests>>

-----------------------------------------------------------------------------
(* The rest of the API, as far as it touches the same rows.                *)

\* createPrediction: a synchronous score overwrites batchJobId with null.
Rescore(t) ==
    /\ "rescore" \in Events
    /\ t \notin deleted \union Unscorable \union Refused
    /\ prediction' = [prediction EXCEPT ![t] = NoJob]
    /\ UNCHANGED <<job, deleted, issued, queue, tallies, worker, requests>>

softDeleteTransaction(t) ==
    /\ "delete" \in Events
    /\ t \notin deleted
    /\ deleted' = deleted \union {t}
    /\ UNCHANGED <<job, prediction, issued, queue, tallies, worker, requests>>

-----------------------------------------------------------------------------
(* The specification.                                                      *)

Init ==
    /\ job = [j \in Jobs |-> NoRow]
    /\ prediction = [t \in Txns |-> Absent]
    /\ deleted = {}
    /\ issued = 0
    /\ queue = [c \in 1..0 |-> 0]
    /\ work = [c \in 1..0 |-> 0]
    /\ tallies = [c \in 1..0 |-> 0]
    /\ draining = FALSE
    /\ submitting = {}
    /\ retry = [r \in Retriers |-> NoRequest]
    /\ crashes = 0
    /\ runs = [j \in Jobs |-> 0]

\* The steps of a chunk's processor and of its listener.
ChunkStep(c) ==
    \/ Take(c)
    \/ markJobProcessing(c)
    \/ FetchRow(c) \/ ScorerFails(c) \/ LookupRow(c) \/ WriteRow(c) \/ RowFails(c)
    \/ recordChunkResult(c) \/ finalizeJob(c) \/ Acknowledge(c)
    \/ countScored(c) \/ BookkeepingFails(c)
    \/ StalledCheck(c)

WorkerStep == Exit \/ \E c \in 1..issued : ChunkStep(c)

\* The steps of a retry that has passed its status check.
RetryStep(r) == RetryScan(r) \/ RetryNothingLeft(r) \/ RetryReset(r)
                    \/ RetryEnqueue(r) \/ RetryEnqueueFails(r)

ApiStep == \/ \E j \in Jobs : EnqueueJob(j) \/ EnqueueJobFails(j)
           \/ \E r \in Retriers : RetryStep(r)

Outside == \/ \E j \in Jobs : CreateJob(j) \/ \E r \in Retriers : RetryCheck(r, j)
           \/ \E t \in Txns : Rescore(t) \/ softDeleteTransaction(t)
           \/ WorkerDies \/ Stop

Next == ApiStep \/ WorkerStep \/ Outside

Spec == Init /\ [][Next]_vars

\* The worker and a started request keep going; users and failures need not.
FairSpec == Spec /\ WF_vars(ApiStep) /\ WF_vars(WorkerStep)

-----------------------------------------------------------------------------
(* Type invariant.                                                         *)

\* Every variable ranges over what the schema, the queue and the worker can
\* hold; work and the chunks have the same ids.
TypeOK ==
    /\ job \in [Jobs -> JobRow]
    /\ prediction \in [Txns -> Jobs \union {Absent, NoJob}]
    /\ deleted \subseteq Txns
    /\ issued \in Nat
    /\ queue \in [1..issued -> Chunk]
    /\ work \in [1..issued -> Work]
    /\ tallies \in [1..issued -> Nat]
    /\ draining \in BOOLEAN
    /\ submitting \subseteq Jobs
    /\ retry \in [Retriers -> RetryRequest]
    /\ \A r \in Retriers : retry[r].pc # "idle" => retry[r].job \in Jobs
    /\ crashes \in Nat
    /\ runs \in [Jobs -> Nat]

-----------------------------------------------------------------------------
(* Safety.                                                                 *)

ChunksOf(j) == {c \in 1..issued : queue[c].batchJobId = j}

\* The chunks of j whose outcome no one has recorded yet.
Owed(j) == {c \in ChunksOf(j) : tallies[c] = 0}

\* A request still has j's chunks to enqueue.
Unqueued(j) == \/ j \in submitting
               \/ \E r \in Retriers : retry[r].pc = "enqueue" /\ retry[r].job = j

\* Some caller saw the last chunk recorded and is about to finalise j.
Finalising(j) == \E c \in ChunksOf(j) : work[c].pc = "finalize"

\* The chunk can still come to record its outcome: it will be run (again), is
\* being run, or its 'failed' listener has yet to record it.
CanStillRecord(c) ==
    \/ queue[c].state \in {"wait", "stalled"}
    \/ work[c].pc \in WorkPc \ {"idle", "ack"}

\* Whatever a job in flight waits for is there: chunks to enqueue, a chunk
\* that can still record its outcome, or the caller that finalises it. This
\* is the "stuck job" the 'failed' listener exists to avoid.
NoStuckJob ==
    \A j \in Jobs : job[j].status \in IN_FLIGHT =>
        \/ Unqueued(j)
        \/ Finalising(j)
        \/ \E c \in Owed(j) : CanStillRecord(c)

\* "finalise the job if it was the last": a job is final only when every
\* chunk ever enqueued for it, by createJob or a retry, has been recorded.
FinalAfterLastChunk ==
    \A j \in Jobs : job[j].status \in Terminal => Owed(j) = {} /\ ~Unqueued(j)

\* The final status says what the final counters say, though it is decided
\* from the row one statement returned and written by another.
StatusMatchesCounters ==
    \A j \in Jobs : job[j].status \in Terminal => job[j].status = FinalStatus(job[j])

\* COMPLETED means scored: every transaction on the roster has a prediction,
\* of this job or a later writer, unless it has been deleted. Failed attempts,
\* salvaged chunks and a retry's shorter list may not lose a row.
CompletedMeansScored ==
    \A j \in Jobs : job[j].status = "COMPLETED" =>
        \A t \in ToSet(job[j].transactionIds) : prediction[t] # Absent \/ t \in deleted

\* The transactions whose outcome j's row does not count yet: those a request is
\* about to enqueue, and those of the chunks it still waits for.
Unrecorded(j) ==
    {t \in Txns :
        \/ j \in submitting /\ t \in ToSet(job[j].transactionIds)
        \/ \E r \in Retriers :
              retry[r].pc = "enqueue" /\ retry[r].job = j /\ t \in ToSet(retry[r].ids)
        \/ \E c \in Owed(j) : t \in ToSet(RowsOf(c))}

\* The first run's books balance: what is recorded and what is not yet recorded
\* make up totalTxns.
LedgerBalances ==
    \A j \in Jobs : runs[j] = 0 =>
        job[j].processedCount + job[j].failedCount + Cardinality(Unrecorded(j))
        = Len(job[j].transactionIds)

\* "exactly one caller observes completedChunks reaching totalChunks": no
\* chunk is recorded beyond the run's last.
ChunksCountedOnce == \A j \in Jobs : job[j].completedChunks <= job[j].totalChunks

\* "Rows that succeeded the first time are left alone": the rows a retry is
\* about to enqueue and the rows already counted processed fit in the roster.
RetryLeavesScoredAlone ==
    \A r \in Retriers : retry[r].pc = "enqueue" =>
        LET row == job[retry[r].job]
        IN  row.processedCount + Len(retry[r].ids) <= Len(row.transactionIds)

\* Every prediction that carries a finished job's id was counted processed:
\* predictionsStored never exceeds processedCount, whatever attempts were
\* abandoned half-way, salvaged or overwritten by others. (One scored by an
\* abandoned attempt and deleted before the next is counted failed.)
StoredPredictionsAreCounted ==
    \A j \in Jobs : job[j].status \in Terminal =>
        Cardinality(ScoredBy(j, Txns \ deleted)) <= job[j].processedCount

\* Together: a job's row tells the truth about its transactions. It takes a
\* long mix of aborted attempts, salvaged chunks, deletions and retries to get
\* one of the four wrong.
RowTellsTheTruth ==
    /\ StatusMatchesCounters
    /\ CompletedMeansScored
    /\ LedgerBalances
    /\ StoredPredictionsAreCounted

-----------------------------------------------------------------------------
(* Why no job gets stuck: the books of the queue and of the rows agree.    *)
(* These hold while nothing but the scorer fails and one retry runs at a   *)
(* time.                                                                   *)

\* A chunk's outcome is unrecorded exactly as long as someone will record it.
ChunkAccounted(c) ==
    LET state == queue[c].state
        pc    == work[c].pc
    IN  \/ state = "wait" /\ pc = "idle" /\ tallies[c] = 0
        \/ /\ state = "active" /\ tallies[c] = 0
           /\ pc \in {"mark", "fetch", "lookup", "insert", "update", "tally"}
        \/ state = "active" /\ pc \in {"finalize", "ack"} /\ tallies[c] # 0
        \/ state = "completed" /\ pc = "idle" /\ tallies[c] # 0
        \/ state = "failed" /\ pc \in {"salvage", "tally"} /\ tallies[c] = 0
        \/ state = "failed" /\ pc \in {"finalize", "idle"} /\ tallies[c] # 0

\* A row's counters and status say how far its chunks have got.
RowAccounted(j) ==
    /\ Unqueued(j) => /\ job[j].status = "QUEUED"
                      /\ job[j].completedChunks = 0
                      /\ Owed(j) = {} /\ ~Finalising(j)
    /\ ~Unqueued(j) =>
          /\ job[j].completedChunks + Cardinality(Owed(j)) = job[j].totalChunks
          /\ job[j].status \in IN_FLIGHT <=> (Owed(j) # {} \/ Finalising(j))
    /\ job[j].status \in Terminal => job[j].status = FinalStatus(job[j])

\* The finaliser is alone, is last, and holds the status of the final row.
FinaliserAccounted(c) ==
    work[c].pc = "finalize" =>
        /\ Owed(JobOf(c)) = {}
        /\ work[c].verdict = FinalStatus(job[JobOf(c)])
        /\ \A d \in ChunksOf(JobOf(c)) : work[d].pc = "finalize" => d = c

\* What a request is about to enqueue is what the row announces.
RequestsAccounted ==
    /\ \A j \in submitting : /\ job[j].transactionIds # <<>>
                             /\ job[j].totalChunks = ChunkCount(Len(job[j].transactionIds))
    /\ \A r \in Retriers :
          LET j == retry[r].job
          IN  /\ retry[r].pc \in {"scan", "reset"} => job[j].status \in RETRYABLE_STATUSES
              /\ retry[r].pc = "enqueue" =>
                    /\ j \notin submitting
                    /\ retry[r].ids # <<>>
                    /\ job[j].totalChunks = ChunkCount(Len(retry[r].ids))

\* Every chunk still unrecorded is one the row still waits for, and the other
\* way round; the inductive reason for NoStuckJob and FinalAfterLastChunk.
Accounted ==
    /\ ~draining
    /\ \A c \in 1..issued : ChunkAccounted(c) /\ FinaliserAccounted(c)
    /\ \A j \in Jobs : RowAccounted(j)
    /\ RequestsAccounted

-----------------------------------------------------------------------------
(* What a job promises, without the queue.                                 *)

Lifecycle == INSTANCE BatchJobLifecycle WITH
    MaxChunks <- ChunkCount(Cardinality(Txns)), MaxRows <- ChunkSize,
    status <- [j \in Jobs |-> job[j].status],
    left <- [j \in Jobs |-> job[j].totalChunks - job[j].completedChunks],
    processed <- [j \in Jobs |-> job[j].processedCount],
    failed <- [j \in Jobs |-> job[j].failedCount]

\* The worker, the queue and the two requests implement the job's promise:
\* every step accounts one chunk once, finishes, reopens, or leaves it alone.
ImplementsLifecycle == Lifecycle!Spec

-----------------------------------------------------------------------------
(* Action properties.                                                      *)

\* No straggler touches a finished run: once a job is final, its row changes
\* only by a retry's reset.
FinalRowIsFrozen ==
    [][\A j \in Jobs : job[j].status \in Terminal /\ job'[j] # job[j]
                          => runs'[j] = runs[j] + 1]_vars

-----------------------------------------------------------------------------
(* Liveness.                                                               *)

\* The chunk is on BullMQ's failed list and nobody is recording its outcome.
Abandoned(c) == queue[c].state = "failed" /\ work[c].pc = "idle"

\* Whatever fails, a job ends, or shows why it does not: one of its chunks sits
\* on BullMQ's failed list, where an operator can find it, or it is still QUEUED
\* because its run never reached the queue. (Not so for a job that is retried while
\* a crash makes the queue count a chunk of the run before again.)
EndsOrShowsWhy ==
    \A j \in Jobs : job[j].status \in IN_FLIGHT ~>
        \/ job[j].status \in Terminal
        \/ \E c \in ChunksOf(j) : Abandoned(c)
        \/ job[j].status = "QUEUED" /\ Owed(j) = {}
        \/ runs[j] > 0 /\ \E c \in ChunksOf(j) : tallies[c] > 1

=============================================================================
