-------------------------- MODULE BatchScoringProofs --------------------------
(***************************************************************************)
(* What holds of BatchScoring for every value of its constants: where the  *)
(* chunks and attempts of a job are; that its row tells the truth about    *)
(* its transactions, while nothing but the scorer fails and retries do not *)
(* overlap; and that it keeps the promise of BatchJobLifecycle.            *)
(***************************************************************************)
EXTENDS BatchScoring, TLAPS, FiniteSetTheorems, FunctionTheorems, SequenceTheorems

-----------------------------------------------------------------------------
(* Cutting a list into chunks.                                             *)

\* What division by s gives, for natural numbers.
LEMMA Division ==
    ASSUME NEW m \in Nat, NEW s \in Nat \ {0}
    PROVE  /\ m \div s \in Nat
           /\ (m \div s) * s <= m
           /\ m < (m \div s) * s + s
OBVIOUS

\* Multiplication preserves order.
LEMMA TimesIsMonotone ==
    ASSUME NEW a \in Nat, NEW b \in Nat, a <= b, NEW s \in Nat
    PROVE  a * s <= b * s
OBVIOUS

\* ChunkCount is right: a non-empty list makes a chunk, and every chunk
\* starts inside the list.
LEMMA ChunkCountCovers ==
    ASSUME NEW n \in Nat
    PROVE  /\ ChunkCount(n) \in Nat
           /\ n > 0 => ChunkCount(n) > 0
           /\ \A k \in 1..ChunkCount(n) : (k - 1) * ChunkSize + 1 <= n
<1> DEFINE q == ChunkCount(n)
<1>1. ChunkSize \in Nat \ {0}
  BY ConstantsAssumption
<1>2. /\ q \in Nat
      /\ q * ChunkSize <= n + ChunkSize - 1
      /\ n + ChunkSize - 1 < q * ChunkSize + ChunkSize
  BY <1>1, Division DEF ChunkCount
<1>3. n > 0 => q > 0
  <2> SUFFICES ASSUME n > 0, q = 0 PROVE FALSE
    BY <1>2
  <2>1. q * ChunkSize = 0
    BY <1>1
  <2> QED
    BY <1>1, <1>2, <2>1
<1>4. ASSUME NEW k \in 1..q PROVE (k - 1) * ChunkSize + 1 <= n
  <2>1. k * ChunkSize <= q * ChunkSize
    BY <1>1, <1>2, TimesIsMonotone
  <2>2. (k - 1) * ChunkSize = k * ChunkSize - ChunkSize
    BY <1>1
  <2>3. k * ChunkSize \in Nat /\ q * ChunkSize \in Nat
    BY <1>1, <1>2
  <2> QED
    BY <1>1, <1>2, <2>1, <2>2, <2>3
<1> QED
  BY <1>2, <1>3, <1>4

\* No chunk is empty: a worker never sees a chunk without rows.
LEMMA ChunkIsNotEmpty ==
    ASSUME NEW ids \in Seq(Txns), NEW k \in 1..ChunkCount(Len(ids))
    PROVE  chunk(ids, k) \in Seq(Txns) \ {<<>>}
<1> DEFINE first == (k - 1) * ChunkSize + 1
           end   == first + ChunkSize - 1
           last  == IF end < Len(ids) THEN end ELSE Len(ids)
<1>1. ChunkSize \in Nat \ {0} /\ Len(ids) \in Nat
  BY ConstantsAssumption
<1>2. first <= Len(ids)
  BY <1>1, ChunkCountCovers
<1>3. k \in Nat \ {0}
  BY <1>1, ChunkCountCovers
<1>4. first \in Nat \ {0}
  BY <1>1, <1>3
<1>5. last \in Nat /\ first <= last /\ last <= Len(ids)
  BY <1>1, <1>2, <1>4
<1>6. \A i \in first..last : ids[i] \in Txns
  BY <1>4, <1>5
<1> HIDE DEF first, last
<1>7. /\ SubSeq(ids, first, last) \in Seq(Txns)
      /\ Len(SubSeq(ids, first, last)) = last - first + 1
  BY <1>4, <1>5, <1>6, SubSeqProperties
<1>8. SubSeq(ids, first, last) # <<>>
  BY <1>4, <1>5, <1>7
<1> QED
  BY <1>7, <1>8 DEF chunk, first, last

\* What SQL returns for a set of transactions lists each of them once.
LEMMA IdsOfASet ==
    ASSUME NEW S \in SUBSET Txns, NEW ids \in SetToSeqs(S)
    PROVE  ids \in Seq(Txns) /\ Len(ids) = Cardinality(S)
<1>1. IsFiniteSet(S)
  BY ConstantsAssumption, FS_Subset
<1>2. Cardinality(S) \in Nat
  BY <1>1, FS_CardinalityType
<1>3. ids \in [1..Cardinality(S) -> S]
  BY DEF SetToSeqs
<1> QED
  BY <1>2, <1>3

\* An idle work record is a work record, whatever its pc is set to.
LEMMA IdleType == Idle \in Work /\ \A p \in WorkPc : [Idle EXCEPT !.pc = p] \in Work
BY DEF Idle, Work, WorkPc, Terminal

\* A work record stays one when its pc moves.
LEMMA WorkPcType ==
    ASSUME NEW w \in Work, NEW p \in WorkPc
    PROVE  [w EXCEPT !.pc = p] \in Work
BY DEF Work

\* Records the listener and the finaliser are given.
LEMMA WorkOutcomeType ==
    ASSUME NEW a \in Nat, NEW b \in Nat, NEW v \in Terminal
    PROVE  /\ [Idle EXCEPT !.pc = "tally", !.processed = a, !.failed = b] \in Work
           /\ [Idle EXCEPT !.pc = "finalize", !.verdict = v] \in Work
<1>1. Idle \in Work /\ "tally" \in WorkPc /\ "finalize" \in WorkPc
  BY IdleType DEF WorkPc
<1> QED
  BY <1>1 DEF Work

\* A chunk stays one when BullMQ moves it and counts.
LEMMA ChunkMoveType ==
    ASSUME NEW q \in Chunk, NEW m \in Nat, NEW n \in Nat, NEW s \in ChunkState
    PROVE  /\ [q EXCEPT !.state = s] \in Chunk
           /\ [q EXCEPT !.attemptsMade = m, !.state = s] \in Chunk
           /\ [q EXCEPT !.state = s, !.stalls = n] \in Chunk
           /\ [q EXCEPT !.state = s, !.stalls = n, !.attemptsMade = m] \in Chunk
<1> DEFINE Rows == Seq(Txns) \ {<<>>}
<1>1. Chunk = [batchJobId : Jobs, transactionIds : Rows,
               state : ChunkState, attemptsMade : Nat, stalls : Nat]
  BY DEF Chunk
<1> HIDE DEF Rows
<1> QED
  BY <1>1

\* A job row stays one when a chunk's outcome is added or its status set.
LEMMA JobRowUpdateType ==
    ASSUME NEW row \in JobRow, NEW a \in Nat, NEW b \in Nat,
           NEW st \in IN_FLIGHT \union Terminal
    PROVE  /\ [row EXCEPT !.processedCount = @ + a, !.failedCount = @ + b,
                          !.completedChunks = @ + 1] \in JobRow
           /\ [row EXCEPT !.status = st] \in JobRow
<1> DEFINE Rows == Seq(Txns)
           Statuses == IN_FLIGHT \union Terminal \union {"NONE"}
<1>1. JobRow = [status : Statuses, transactionIds : Rows, processedCount : Nat,
                failedCount : Nat, totalChunks : Nat, completedChunks : Nat]
  BY DEF JobRow
<1>2. st \in Statuses
  OBVIOUS
<1> HIDE DEF Rows, Statuses
<1>3. /\ row.processedCount + a \in Nat /\ row.failedCount + b \in Nat
      /\ row.completedChunks + 1 \in Nat
  BY <1>1
<1>4. \A x, y, z \in Nat : [row EXCEPT !.processedCount = x, !.failedCount = y,
                                       !.completedChunks = z] \in JobRow
  BY <1>1
<1>5. [row EXCEPT !.status = st] \in JobRow
  BY <1>1, <1>2
<1> QED
  BY <1>3, <1>4, <1>5

\* addBulk keeps the tables well-typed.
LEMMA AddBulkType ==
    ASSUME TypeOK, NEW j \in Jobs, NEW ids \in Seq(Txns), AddBulk(j, ids)
    PROVE  /\ issued' \in Nat
           /\ queue' \in [1..issued' -> Chunk]
           /\ work' \in [1..issued' -> Work]
           /\ tallies' \in [1..issued' -> Nat]
<1> DEFINE n == ChunkCount(Len(ids))
<1>1. n \in Nat /\ issued \in Nat
  BY ChunkCountCovers DEF TypeOK
<1>2. issued' = issued + n
  BY DEF AddBulk
<1>3. ASSUME NEW c \in 1..(issued + n), ~(c <= issued)
      PROVE  chunk(ids, c - issued) \in Seq(Txns) \ {<<>>}
  <2>1. c - issued \in 1..n
    BY <1>1, <1>3
  <2> QED
    BY <2>1, ChunkIsNotEmpty
<1>4. queue' \in [1..issued' -> Chunk]
  BY <1>1, <1>2, <1>3 DEF AddBulk, TypeOK, Chunk, ChunkState
<1>5. work' \in [1..issued' -> Work]
  BY <1>1, <1>2, IdleType DEF AddBulk, TypeOK
<1>6. tallies' \in [1..issued' -> Nat]
  BY <1>1, <1>2 DEF AddBulk, TypeOK
<1> QED
  BY <1>1, <1>2, <1>4, <1>5, <1>6

\* The first n chunk ids, counted.
LEMMA CardinalityUpTo ==
    ASSUME NEW n \in Nat
    PROVE  IsFiniteSet(1..n) /\ Cardinality(1..n) = n
<1>1. /\ IsFiniteSet(1..n)
      /\ Cardinality(1..n) = IF 1 > n THEN 0 ELSE n - 1 + 1
  BY FS_Interval, 1 \in Int, n \in Int
<1> QED
  BY <1>1

\* The n chunk ids issued after the first m, counted.
LEMMA CardinalityBetween ==
    ASSUME NEW m \in Nat, NEW n \in Nat \ {0}
    PROVE  Cardinality((m + 1)..(m + n)) = n
<1>1. m + 1 \in Int /\ m + n \in Int /\ ~(m + 1 > m + n)
  OBVIOUS
<1>2. Cardinality((m + 1)..(m + n)) = IF m + 1 > m + n THEN 0 ELSE (m + n) - (m + 1) + 1
  BY <1>1, FS_Interval
<1>3. Cardinality((m + 1)..(m + n)) = (m + n) - (m + 1) + 1
  BY <1>1, <1>2
<1> QED
  BY <1>3

\* A chunk's salvaged rows are at most its rows.
LEMMA SalvagedIsBounded ==
    ASSUME TypeOK, NEW c \in 1..issued
    PROVE  Salvaged(c) \in 0..Len(RowsOf(c)) /\ Len(RowsOf(c)) \in Nat
<1> DEFINE s == RowsOf(c)
           D == 1..Len(s)
<1>1. s \in Seq(Txns) /\ Len(s) \in Nat
  BY DEF TypeOK, Chunk, RowsOf
<1>2. ToSet(s) = Range(s) /\ s \in [D -> ToSet(s)] /\ \A y \in ToSet(s) : \E x \in D : s[x] = y
  BY <1>1 DEF ToSet, Range
<1>3. IsFiniteSet(D) /\ Cardinality(D) = Len(s)
  BY <1>1, CardinalityUpTo
<1>4. s \in Surjection(D, ToSet(s))
  BY <1>2 DEF Surjection
<1>5. IsFiniteSet(ToSet(s)) /\ Cardinality(ToSet(s)) <= Len(s)
  BY <1>3, <1>4, FS_Surjection
<1>6. ScoredBy(JobOf(c), ToSet(s)) \in SUBSET ToSet(s)
  BY DEF ScoredBy
<1>7. /\ IsFiniteSet(ScoredBy(JobOf(c), ToSet(s)))
      /\ Cardinality(ScoredBy(JobOf(c), ToSet(s))) <= Cardinality(ToSet(s))
  BY <1>5, <1>6, FS_Subset
<1>8. Cardinality(ToSet(s)) \in Nat /\ Cardinality(ScoredBy(JobOf(c), ToSet(s))) \in Nat
  BY <1>5, <1>7, FS_CardinalityType
<1> QED
  BY <1>1, <1>5, <1>7, <1>8 DEF Salvaged

-----------------------------------------------------------------------------
(* Type correctness.                                                       *)

\* Initially every variable has its type.
LEMMA InitType == Init => TypeOK
<1> SUFFICES ASSUME Init PROVE TypeOK
  OBVIOUS
<1>1. NoRow \in JobRow
  BY DEF NoRow, JobRow
<1>2. NoRequest \in RetryRequest /\ NoRequest.pc = "idle"
  BY DEF NoRequest, RetryRequest
<1>3. Init => 1..issued = {}
  BY DEF Init
<1> QED
  BY <1>1, <1>2, <1>3 DEF Init, TypeOK

\* Steps that end an attempt keep the tables well-typed.
LEMMA AttemptFailsType ==
    ASSUME TypeOK, NEW c \in 1..issued, AttemptFails(c)
    PROVE  queue' \in [1..issued -> Chunk] /\ work' \in [1..issued -> Work]
<1>1. [Idle EXCEPT !.pc = "salvage"] \in Work /\ Idle \in Work
  BY IdleType DEF WorkPc
<1>2. work' \in [1..issued -> Work]
  BY <1>1 DEF AttemptFails, TypeOK
<1>3. queue[c] \in Chunk /\ queue[c].attemptsMade + 1 \in Nat
  BY DEF TypeOK, Chunk
<1>4. \A m \in Nat, s \in ChunkState :
          [queue[c] EXCEPT !.attemptsMade = m, !.state = s] \in Chunk
  BY <1>3 DEF Chunk
<1>5. queue' \in [1..issued -> Chunk]
  BY <1>3, <1>4 DEF AttemptFails, TypeOK, ChunkState
<1> QED
  BY <1>2, <1>5

\* Counting a row keeps the worker's memory well-typed.
LEMMA CountRowType ==
    ASSUME TypeOK, NEW c \in 1..issued, NEW ok \in BOOLEAN, CountRow(c, ok)
    PROVE  work' \in [1..issued -> Work]
<1>1. NextRow(c) \in WorkPc
  BY DEF NextRow, WorkPc
<1> QED
  BY <1>1 DEF CountRow, TypeOK, Work

\* Each step of a chunk's processor or listener keeps every type.
LEMMA ChunkStepType ==
    ASSUME TypeOK, NEW c \in 1..issued, ChunkStep(c)
    PROVE  TypeOK'
<1> USE DEF TypeOK
<1>1. CASE Take(c)
  <2>1. [Idle EXCEPT !.pc = "mark"] \in Work
    BY IdleType DEF WorkPc
  <2>2. queue' \in [1..issued -> Chunk]
    BY <1>1 DEF Take, Chunk, ChunkState
  <2> QED
    BY <1>1, <2>1, <2>2 DEF Take, database, requests
<1>2. CASE markJobProcessing(c)
  <2>1. job' \in [Jobs -> JobRow]
    BY <1>2 DEF markJobProcessing, JobRow, IN_FLIGHT
  <2>2. work' \in [1..issued -> Work]
    BY <1>2 DEF markJobProcessing, Work, WorkPc
  <2> QED
    BY <1>2, <2>1, <2>2 DEF markJobProcessing, requests
<1>3. CASE FetchRow(c)
  <2>1. work' \in [1..issued -> Work]
    <3>1. CASE CountRow(c, FALSE)
      BY <3>1, CountRowType
    <3>2. CASE work' = [work EXCEPT ![c].pc = "lookup"]
      BY <3>2 DEF Work, WorkPc
    <3> QED
      BY <1>3, <3>1, <3>2 DEF FetchRow
  <2> QED
    BY <1>3, <2>1 DEF FetchRow, database, requests
<1>4. CASE ScorerFails(c)
  <2>1. AttemptFails(c)
    BY <1>4 DEF ScorerFails
  <2> QED
    BY <1>4, <2>1, AttemptFailsType DEF ScorerFails, database, requests
<1>5. CASE LookupRow(c)
  <2>1. work' \in [1..issued -> Work]
    BY <1>5, WorkPcType DEF LookupRow, WorkPc
  <2> QED
    BY <1>5, <2>1 DEF LookupRow, database, requests
<1>6. CASE WriteRow(c)
  <2>1. JobOf(c) \in Jobs
    BY DEF JobOf, Chunk
  <2>2. prediction' \in [Txns -> Jobs \union {Absent, NoJob}]
    BY <1>6, <2>1 DEF WriteRow
  <2>3. PICK ok \in BOOLEAN : CountRow(c, ok)
    BY <1>6 DEF WriteRow
  <2>4. work' \in [1..issued -> Work]
    BY <2>3, CountRowType
  <2> QED
    BY <1>6, <2>2, <2>4 DEF WriteRow, requests
<1>7. CASE RowFails(c)
  <2>1. work' \in [1..issued -> Work]
    BY <1>7, CountRowType DEF RowFails
  <2> QED
    BY <1>7, <2>1 DEF RowFails, database, requests
<1>8. CASE recordChunkResult(c)
  <2> DEFINE updated == [job[JobOf(c)] EXCEPT
                !.processedCount = @ + work[c].processed,
                !.failedCount = @ + work[c].failed, !.completedChunks = @ + 1]
  <2>1. JobOf(c) \in Jobs
    BY DEF JobOf, Chunk
  <2>2. updated \in JobRow
    <3>1. job[JobOf(c)] \in JobRow /\ work[c].processed \in Nat /\ work[c].failed \in Nat
      BY <2>1 DEF Work
    <3> QED
      BY <3>1, JobRowUpdateType DEF IN_FLIGHT
  <2>3. Finaliser(c, updated) \in Work /\ Recorded(c) \in Work
    <3>1. FinalStatus(updated) \in Terminal
      BY DEF FinalStatus, Terminal, RETRYABLE_STATUSES
    <3> HIDE DEF updated
    <3>2. Finaliser(c, updated) \in Work
      BY <3>1, WorkOutcomeType DEF Finaliser
    <3>3. Recorded(c) \in Work
      BY IdleType DEF Recorded, WorkPc
    <3> QED
      BY <3>2, <3>3
  <2>4. work' \in [1..issued -> Work]
    BY <1>8, <2>3 DEF recordChunkResult
  <2>5. tallies' \in [1..issued -> Nat] /\ job' \in [Jobs -> JobRow]
    <3>1. job' = [job EXCEPT ![JobOf(c)] = updated] /\ tallies' = [tallies EXCEPT ![c] = @ + 1]
      BY <1>8 DEF recordChunkResult
    <3> HIDE DEF updated
    <3>2. tallies[c] + 1 \in Nat
      OBVIOUS
    <3>3. tallies' \in [1..issued -> Nat]
      BY <3>1, <3>2
    <3>4. job' \in [Jobs -> JobRow]
      BY <2>1, <2>2, <3>1
    <3> QED
      BY <3>3, <3>4
  <2> QED
    BY <1>8, <2>4, <2>5 DEF recordChunkResult, requests
<1>9. CASE finalizeJob(c)
  <2>1. Recorded(c) \in Work
    BY IdleType DEF Recorded, WorkPc
  <2>2. job' \in [Jobs -> JobRow]
    <3>1. JobOf(c) \in Jobs /\ work[c].verdict \in Terminal
      BY DEF JobOf, Chunk, Work
    <3>2. [job[JobOf(c)] EXCEPT !.status = work[c].verdict] \in JobRow
      BY <3>1, JobRowUpdateType
    <3> QED
      BY <1>9, <3>2 DEF finalizeJob
  <2> QED
    BY <1>9, <2>1, <2>2 DEF finalizeJob, requests
<1>10. CASE Acknowledge(c)
  <2>1. queue' \in [1..issued -> Chunk]
    BY <1>10 DEF Acknowledge, Chunk, ChunkState
  <2> QED
    BY <1>10, <2>1, IdleType DEF Acknowledge, database, requests
<1>11. CASE countScored(c)
  <2>1. Salvaged(c) \in Nat /\ Len(RowsOf(c)) - Salvaged(c) \in Nat
    BY SalvagedIsBounded
  <2>2. work' \in [1..issued -> Work]
    BY <1>11, <2>1, WorkOutcomeType DEF countScored, Terminal
  <2> QED
    BY <1>11, <2>2 DEF countScored, database, requests
<1>12. CASE BookkeepingFails(c)
  <2>1. queue' \in [1..issued -> Chunk] /\ work' \in [1..issued -> Work]
    BY <1>12, AttemptFailsType, IdleType DEF BookkeepingFails
  <2> QED
    BY <1>12, <2>1 DEF BookkeepingFails, database, requests
<1>13. CASE StalledCheck(c)
  <2>1. queue' \in [1..issued -> Chunk]
    <3>1. queue[c] \in Chunk /\ queue[c].stalls + 1 \in Nat /\ queue[c].attemptsMade + 1 \in Nat
      BY DEF Chunk
    <3>2. \E q \in Chunk : queue' = [queue EXCEPT ![c] = q]
      BY <1>13, <3>1, ChunkMoveType DEF StalledCheck, ChunkState
    <3> QED
      BY <3>2
  <2>2. work' \in [1..issued -> Work]
    <3>1. \A s \in {"salvage", "idle"} : [work[c] EXCEPT !.pc = s] \in Work
      BY WorkPcType DEF WorkPc
    <3> QED
      BY <1>13, <3>1 DEF StalledCheck
  <2> QED
    BY <1>13, <2>1, <2>2 DEF StalledCheck, database, requests
<1> QED
  BY <1>1, <1>2, <1>3, <1>4, <1>5, <1>6, <1>7, <1>8, <1>9, <1>10, <1>11,
     <1>12, <1>13 DEF ChunkStep

\* The rows and requests the API writes.
LEMMA NewRowType ==
    ASSUME NEW ids \in Seq(Txns), NEW n \in Nat
    PROVE  [NoRow EXCEPT !.status = "QUEUED", !.transactionIds = ids,
                         !.totalChunks = n] \in JobRow
<1>1. NoRow \in JobRow /\ "QUEUED" \in IN_FLIGHT
  BY DEF NoRow, JobRow, IN_FLIGHT
<1> QED
  BY <1>1 DEF JobRow

LEMMA ResetRowType ==
    ASSUME NEW row \in JobRow, NEW n \in Nat
    PROVE  ResetRow(row, n) \in JobRow
<1>1. "QUEUED" \in IN_FLIGHT
  BY DEF IN_FLIGHT
<1> QED
  BY <1>1 DEF ResetRow, JobRow

LEMMA RetryRecordType ==
    /\ NoRequest \in RetryRequest
    /\ \A j \in Jobs : [NoRequest EXCEPT !.pc = "scan", !.job = j] \in RetryRequest
    /\ \A q \in RetryRequest, S \in SUBSET Txns :
          [q EXCEPT !.pc = "reset", !.done = S] \in RetryRequest
    /\ \A q \in RetryRequest, ids \in Seq(Txns) :
          [q EXCEPT !.pc = "enqueue", !.ids = ids, !.done = {}] \in RetryRequest
<1>1. NoRequest \in RetryRequest
  BY DEF NoRequest, RetryRequest
<1> QED
  BY <1>1 DEF RetryRequest

\* A roster lists transactions.
LEMMA RosterType ==
    ASSUME TypeOK, NEW j \in Jobs
    PROVE  ToSet(job[j].transactionIds) \in SUBSET Txns
<1>1. job[j].transactionIds \in Seq(Txns)
  BY DEF TypeOK, JobRow
<1> QED
  BY <1>1 DEF ToSet

\* The API's steps keep every type: a job is created or reset with a list of
\* transactions, and its chunks are put on the queue.
LEMMA JobRequestType ==
    ASSUME TypeOK, NEW j \in Jobs,
           CreateJob(j) \/ EnqueueJob(j) \/ EnqueueJobFails(j)
    PROVE  TypeOK'
<1> USE DEF TypeOK
<1>1. CASE CreateJob(j)
  <2>1. PICK filter \in {"ids", "unscored"} : \E ids \in resolveTransactionIds(filter) :
           job' = [job EXCEPT ![j] = [NoRow EXCEPT !.status = "QUEUED",
                      !.transactionIds = ids, !.totalChunks = ChunkCount(Len(ids))]]
    BY <1>1 DEF CreateJob
  <2>2. PICK ids \in resolveTransactionIds(filter) :
           job' = [job EXCEPT ![j] = [NoRow EXCEPT !.status = "QUEUED",
                      !.transactionIds = ids, !.totalChunks = ChunkCount(Len(ids))]]
    BY <2>1
  <2>3. ids \in Seq(Txns)
    BY IdsOfASet DEF resolveTransactionIds
  <2>4. ChunkCount(Len(ids)) \in Nat
    BY <2>3, ChunkCountCovers
  <2>5. [NoRow EXCEPT !.status = "QUEUED", !.transactionIds = ids,
                      !.totalChunks = ChunkCount(Len(ids))] \in JobRow
    BY <2>3, <2>4, NewRowType
  <2>6. job' \in [Jobs -> JobRow]
    BY <2>2, <2>5
  <2> QED
    BY <1>1, <2>6 DEF CreateJob
<1>2. CASE EnqueueJob(j)
  <2>1. job[j].transactionIds \in Seq(Txns)
    BY DEF JobRow
  <2>2. AddBulk(j, job[j].transactionIds)
    BY <1>2 DEF EnqueueJob
  <2> QED
    BY <1>2, <2>1, <2>2, AddBulkType DEF EnqueueJob, database
<1>3. CASE EnqueueJobFails(j)
  BY <1>3 DEF EnqueueJobFails, database, worker
<1> QED
  BY <1>1, <1>2, <1>3

\* A retry keeps every type.
LEMMA RetryType ==
    ASSUME TypeOK, NEW r \in Retriers,
           RetryStep(r) \/ \E j \in Jobs : RetryCheck(r, j)
    PROVE  TypeOK'
<1> USE DEF TypeOK
<1>1. ASSUME NEW j \in Jobs, RetryCheck(r, j) PROVE TypeOK'
  <2>1. retry' \in [Retriers -> RetryRequest]
    BY <1>1, RetryRecordType DEF RetryCheck
  <2>2. \A q \in Retriers : retry'[q].pc # "idle" => retry'[q].job \in Jobs
    BY <1>1 DEF RetryCheck, NoRequest
  <2> QED
    BY <1>1, <2>1, <2>2 DEF RetryCheck, database, worker
<1>2. CASE RetryScan(r)
  <2> DEFINE j == retry[r].job
             done == ScoredBy(j, ToSet(job[j].transactionIds))
  <2>1. j \in Jobs
    BY <1>2 DEF RetryScan
  <2>2. done \in SUBSET Txns
    BY <2>1, RosterType DEF ScoredBy
  <2>3. retry' = [retry EXCEPT ![r] = [@ EXCEPT !.pc = "reset", !.done = done]]
    BY <1>2 DEF RetryScan
  <2> HIDE DEF done
  <2>4. [retry[r] EXCEPT !.pc = "reset", !.done = done] \in RetryRequest
    BY <2>2, RetryRecordType
  <2>5. retry' \in [Retriers -> RetryRequest]
    BY <2>3, <2>4
  <2>6. \A q \in Retriers : retry'[q].pc # "idle" => retry'[q].job \in Jobs
    BY <2>1, <2>3
  <2> QED
    BY <1>2, <2>5, <2>6 DEF RetryScan, database, worker
<1>3. ASSUME retry' = [retry EXCEPT ![r] = NoRequest]
      PROVE  /\ retry' \in [Retriers -> RetryRequest]
             /\ \A q \in Retriers : retry'[q].pc # "idle" => retry'[q].job \in Jobs
  BY <1>3, RetryRecordType DEF NoRequest
<1>4. CASE RetryNothingLeft(r)
  BY <1>3, <1>4 DEF RetryNothingLeft, database, worker
<1>5. CASE RetryReset(r)
  <2> DEFINE j == retry[r].job
  <2>1. j \in Jobs
    BY <1>5 DEF RetryReset
  <2>2. PICK ids \in SetToSeqs(Outstanding(r)) :
           /\ job' = [job EXCEPT ![j] = ResetRow(@, ChunkCount(Len(ids)))]
           /\ retry' = [retry EXCEPT ![r] = [@ EXCEPT !.pc = "enqueue", !.ids = ids,
                                                      !.done = {}]]
    BY <1>5 DEF RetryReset
  <2>3. ids \in Seq(Txns)
    BY <2>1, RosterType, IdsOfASet DEF Outstanding
  <2>4. ChunkCount(Len(ids)) \in Nat
    BY <2>3, ChunkCountCovers
  <2>5. ResetRow(job[j], ChunkCount(Len(ids))) \in JobRow
    BY <2>1, <2>4, ResetRowType
  <2>6. job' \in [Jobs -> JobRow]
    BY <2>1, <2>2, <2>5
  <2>7. [retry[r] EXCEPT !.pc = "enqueue", !.ids = ids, !.done = {}] \in RetryRequest
    BY <2>3, RetryRecordType
  <2>8. retry' \in [Retriers -> RetryRequest]
    BY <2>2, <2>7
  <2>9. \A q \in Retriers : retry'[q].pc # "idle" => retry'[q].job \in Jobs
    BY <2>1, <2>2
  <2>10. runs' \in [Jobs -> Nat]
    BY <1>5, <2>1 DEF RetryReset
  <2> QED
    BY <1>5, <2>6, <2>8, <2>9, <2>10 DEF RetryReset, worker
<1>6. CASE RetryEnqueue(r)
  <2>1. retry[r].job \in Jobs /\ retry[r].ids \in Seq(Txns)
    BY <1>6 DEF RetryEnqueue, RetryRequest
  <2>2. AddBulk(retry[r].job, retry[r].ids)
    BY <1>6 DEF RetryEnqueue
  <2> QED
    BY <1>3, <1>6, <2>1, <2>2, AddBulkType DEF RetryEnqueue, database
<1>7. CASE RetryEnqueueFails(r)
  BY <1>3, <1>7 DEF RetryEnqueueFails, database, worker
<1> QED
  BY <1>1, <1>2, <1>4, <1>5, <1>6, <1>7 DEF RetryStep

\* Every step keeps every type.
LEMMA NextType == TypeOK /\ [Next]_vars => TypeOK'
<1> SUFFICES ASSUME TypeOK, [Next]_vars PROVE TypeOK'
  OBVIOUS
<1>1. CASE ApiStep
  BY <1>1, JobRequestType, RetryType DEF ApiStep
<1>2. ASSUME NEW c \in 1..issued, ChunkStep(c) PROVE TypeOK'
  BY <1>2, ChunkStepType
<1>3. CASE Exit
  BY <1>3, IdleType DEF Exit, TypeOK, database, requests
<1>4. ASSUME NEW j \in Jobs, CreateJob(j) \/ \E r \in Retriers : RetryCheck(r, j)
      PROVE  TypeOK'
  BY <1>4, JobRequestType, RetryType
<1>5. ASSUME NEW t \in Txns, Rescore(t) \/ softDeleteTransaction(t) PROVE TypeOK'
  BY <1>5 DEF Rescore, softDeleteTransaction, TypeOK, worker, requests
<1>6. CASE WorkerDies
  <2>1. 0 \in Nat /\ "stalled" \in ChunkState
    BY DEF ChunkState
  <2>2. queue' \in [1..issued -> Chunk]
    <3>1. ASSUME NEW c \in 1..issued
          PROVE  queue[c] \in Chunk /\ [queue[c] EXCEPT !.state = "stalled"] \in Chunk
      <4>1. queue[c] \in Chunk
        BY DEF TypeOK
      <4> QED
        BY <2>1, <4>1, ChunkMoveType
    <3> QED
      BY <1>6, <3>1 DEF WorkerDies
  <2>3. work' \in [1..issued -> Work]
    BY <1>6, IdleType DEF WorkerDies
  <2>4. issued' = issued /\ crashes' \in Nat /\ draining' \in BOOLEAN
    <3>1. issued' = issued /\ crashes' = crashes + 1 /\ draining' = FALSE
      BY <1>6 DEF WorkerDies
    <3>2. crashes' \in Nat
      BY <3>1 DEF TypeOK
    <3>3. draining' \in BOOLEAN
      BY <3>1
    <3> QED
      BY <3>1, <3>2, <3>3
  <2>5. UNCHANGED <<job, prediction, deleted, tallies, submitting, retry, runs>>
    BY <1>6 DEF WorkerDies, database, requests
  <2> QED
    BY <2>2, <2>3, <2>4, <2>5 DEF TypeOK
<1>7. CASE Stop
  BY <1>7 DEF Stop, TypeOK, database, requests
<1>8. CASE UNCHANGED vars
  BY <1>8 DEF vars, TypeOK
<1> QED
  BY <1>1, <1>2, <1>3, <1>4, <1>5, <1>6, <1>7, <1>8 DEF Next, WorkerStep, Outside

\* Every reachable state is well-typed, whatever fails and however many
\* requests run at once.
THEOREM TypeCorrect == Spec => []TypeOK
BY InitType, NextType, PTL DEF Spec

-----------------------------------------------------------------------------
(* No job gets stuck while only the scorer fails and one retry runs at a   *)
(* time: the books of the queue and of the rows agree in every state.      *)

\* Nothing but the scorer fails, and no two retries run at once.
Calm == /\ Events \intersect {"db", "enqueue", "crash", "stop"} = {}
        /\ \A q, r \in Retriers : q = r

\* Only finitely many chunks are owed.
LEMMA OwedIsFinite ==
    ASSUME TypeOK, NEW j
    PROVE  IsFiniteSet(Owed(j)) /\ Cardinality(Owed(j)) \in Nat
<1>1. issued \in Nat
  BY DEF TypeOK
<1>2. Owed(j) \in SUBSET (1..issued)
  BY DEF Owed, ChunksOf
<1>3. IsFiniteSet(Owed(j))
  BY <1>1, <1>2, CardinalityUpTo, FS_Subset
<1> QED
  BY <1>3, FS_CardinalityType

\* Nothing owed is no chunk owed.
LEMMA NothingOwed ==
    ASSUME TypeOK, NEW j
    PROVE  Cardinality(Owed(j)) = 0 <=> Owed(j) = {}
BY OwedIsFinite, FS_EmptySet

\* A row whose surroundings stay the same stays accounted.
LEMMA RowFrame ==
    ASSUME NEW j \in Jobs, RowAccounted(j), job'[j] = job[j],
           Owed(j)' = Owed(j), Unqueued(j)' <=> Unqueued(j),
           Finalising(j)' <=> Finalising(j)
    PROVE  RowAccounted(j)'
BY DEF RowAccounted, FinalStatus

\* A chunk whose record, work and tally stay the same stays accounted.
LEMMA ChunkFrame ==
    ASSUME NEW d, ChunkAccounted(d), queue'[d] = queue[d],
           work'[d].pc = work[d].pc, tallies'[d] = tallies[d]
    PROVE  ChunkAccounted(d)'
BY DEF ChunkAccounted

\* The chunks of a job, and the owed ones, depend on ids and tallies only.
LEMMA OwedFrame ==
    ASSUME issued' = issued, tallies' = tallies,
           \A d \in 1..issued : queue'[d].batchJobId = queue[d].batchJobId
    PROVE  \A j : ChunksOf(j)' = ChunksOf(j) /\ Owed(j)' = Owed(j)
BY DEF ChunksOf, Owed

\* A step that moves one chunk's processor or listener, and neither starts a
\* finaliser nor ends one, keeps the books.
LEMMA QuietStep ==
    ASSUME TypeOK, Accounted, NEW c \in 1..issued,
           UNCHANGED <<issued, tallies, submitting, retry, draining>>,
           \A d \in 1..issued : d # c => queue'[d] = queue[d] /\ work'[d] = work[d],
           queue'[c].batchJobId = queue[c].batchJobId,
           work[c].pc # "finalize", work'[c].pc # "finalize",
           ChunkAccounted(c)',
           \A j \in Jobs : \/ job'[j] = job[j]
                           \/ /\ j = JobOf(c) /\ tallies[c] = 0
                              /\ job'[j] = [job[j] EXCEPT !.status = "PROCESSING"]
    PROVE  Accounted'
<1>1. \A d \in 1..issued : queue'[d].batchJobId = queue[d].batchJobId
  OBVIOUS
<1>2. \A j : ChunksOf(j)' = ChunksOf(j) /\ Owed(j)' = Owed(j)
  BY <1>1, OwedFrame
<1>3. \A d \in 1..issued : JobOf(d)' = JobOf(d)
  BY <1>1 DEF JobOf
<1>4. \A j : (Unqueued(j)' <=> Unqueued(j))
  BY DEF Unqueued
<1>5. \A d \in 1..issued : (work'[d].pc = "finalize" <=> work[d].pc = "finalize")
  OBVIOUS
<1>6. \A j : (Finalising(j)' <=> Finalising(j))
  BY <1>2, <1>5 DEF Finalising, ChunksOf
<1>7. ASSUME NEW j \in Jobs, tallies[c] = 0, j = JobOf(c)
      PROVE  job[j].status \in IN_FLIGHT /\ ~Unqueued(j)
  <2>1. c \in Owed(j)
    BY <1>7 DEF Owed, ChunksOf, JobOf
  <2> QED
    BY <2>1 DEF Accounted, RowAccounted
<1>8. ASSUME NEW j \in Jobs PROVE RowAccounted(j)'
  <2>1. RowAccounted(j)
    BY DEF Accounted
  <2>2. CASE job'[j] = job[j]
    BY <1>2, <1>4, <1>6, <2>1, <2>2, RowFrame
  <2>3. CASE /\ j = JobOf(c) /\ tallies[c] = 0
             /\ job'[j] = [job[j] EXCEPT !.status = "PROCESSING"]
    <3>1. /\ job[j].status \in IN_FLIGHT /\ ~Unqueued(j)
      BY <1>7, <2>3
    <3>2. job[j] \in JobRow
      BY DEF TypeOK
    <3>3. /\ job'[j].status = "PROCESSING"
          /\ job'[j].completedChunks = job[j].completedChunks
          /\ job'[j].totalChunks = job[j].totalChunks
      BY <2>3, <3>2 DEF JobRow
    <3>4. "PROCESSING" \in IN_FLIGHT /\ "PROCESSING" \notin Terminal
      BY DEF IN_FLIGHT, Terminal, RETRYABLE_STATUSES
    <3> QED
      BY <1>2, <1>4, <1>6, <2>1, <3>1, <3>3, <3>4 DEF RowAccounted
  <2> QED
    BY <2>2, <2>3
<1>9. ASSUME NEW d \in 1..issued PROVE ChunkAccounted(d)'
  <2>1. CASE d = c
    BY <2>1
  <2>2. CASE d # c
    BY <2>2, ChunkFrame DEF Accounted
  <2> QED
    BY <2>1, <2>2
<1>10. \A j \in Jobs : /\ job'[j].processedCount = job[j].processedCount
                       /\ job'[j].failedCount = job[j].failedCount
                       /\ job'[j].totalChunks = job[j].totalChunks
                       /\ job'[j].transactionIds = job[j].transactionIds
  <2>1. SUFFICES ASSUME NEW j \in Jobs
                 PROVE  /\ job'[j].processedCount = job[j].processedCount
                        /\ job'[j].failedCount = job[j].failedCount
                        /\ job'[j].totalChunks = job[j].totalChunks
                        /\ job'[j].transactionIds = job[j].transactionIds
    OBVIOUS
  <2>2. job[j] \in JobRow
    BY DEF TypeOK
  <2>3. job'[j] = job[j] \/ job'[j] = [job[j] EXCEPT !.status = "PROCESSING"]
    OBVIOUS
  <2> QED
    BY <2>2, <2>3 DEF JobRow
<1>11. ASSUME NEW d \in 1..issued PROVE FinaliserAccounted(d)'
  <2>1. SUFFICES ASSUME work'[d].pc = "finalize"
                 PROVE  FinaliserAccounted(d)'
    BY DEF FinaliserAccounted
  <2>2. d # c /\ work'[d] = work[d] /\ work[d].pc = "finalize"
    BY <2>1
  <2>3. FinaliserAccounted(d)
    BY DEF Accounted
  <2>4. JobOf(d) \in Jobs
    BY DEF TypeOK, Chunk, JobOf
  <2>5. FinalStatus(job'[JobOf(d)]) = FinalStatus(job[JobOf(d)])
    BY <1>10, <2>4 DEF FinalStatus
  <2>6. \A e \in ChunksOf(JobOf(d)) : e \in 1..issued
    BY DEF ChunksOf
  <2> QED
    BY <1>2, <1>3, <1>5, <2>2, <2>3, <2>5, <2>6 DEF FinaliserAccounted
<1>12. RequestsAccounted'
  <2>1. ASSUME NEW r \in Retriers, retry[r].pc \in {"scan", "reset"}
        PROVE  job'[retry[r].job] = job[retry[r].job]
    <3>1. retry[r].job \in Jobs
      BY <2>1 DEF TypeOK
    <3>2. job[retry[r].job].status \in RETRYABLE_STATUSES
      BY <2>1 DEF Accounted, RequestsAccounted
    <3>3. job[retry[r].job].status \notin IN_FLIGHT
      BY <3>2 DEF RETRYABLE_STATUSES, IN_FLIGHT
    <3> QED
      BY <1>7, <3>1, <3>3
  <2>2. ASSUME NEW r \in Retriers, retry[r].pc = "enqueue"
        PROVE  retry[r].job \in Jobs
    BY <2>2 DEF TypeOK
  <2>3. \A j \in submitting : j \in Jobs
    BY DEF TypeOK
  <2> QED
    BY <1>10, <2>1, <2>2, <2>3 DEF Accounted, RequestsAccounted
<1>13. issued' = issued
  OBVIOUS
<1>14. ~draining'
  BY Zenon DEF Accounted
<1> QED
  BY <1>8, <1>9, <1>11, <1>12, <1>13, <1>14 DEF Accounted

\* The steps of one chunk that record nothing: taking it, its rows, a failed
\* attempt, the salvage count, the acknowledgement.
LEMMA UnrecordedStepAccounted ==
    ASSUME TypeOK, Accounted, NEW c \in 1..issued,
           \/ Take(c) \/ markJobProcessing(c)
           \/ FetchRow(c) \/ ScorerFails(c) \/ LookupRow(c) \/ WriteRow(c)
           \/ Acknowledge(c) \/ countScored(c)
    PROVE  Accounted'
<1>1. /\ queue[c] \in Chunk /\ work[c] \in Work
      /\ queue \in [1..issued -> Chunk] /\ work \in [1..issued -> Work]
      /\ ChunkAccounted(c)
  BY DEF TypeOK, Accounted
<1>2. CASE Take(c)
  <2>1. /\ UNCHANGED <<job, issued, tallies, submitting, retry, draining>>
        /\ queue' = [queue EXCEPT ![c].state = "active"]
        /\ work' = [work EXCEPT ![c] = [Idle EXCEPT !.pc = "mark"]]
        /\ queue[c].state = "wait"
    BY <1>2 DEF Take, database, requests
  <2>2. queue'[c].state = "active" /\ queue'[c].batchJobId = queue[c].batchJobId
    BY <1>1, <2>1 DEF Chunk
  <2>3. work'[c].pc = "mark" /\ work[c].pc = "idle" /\ tallies[c] = 0
    BY <1>1, <2>1 DEF Idle, ChunkAccounted
  <2>4. ChunkAccounted(c)'
    BY <2>1, <2>2, <2>3 DEF ChunkAccounted
  <2> QED
    BY <1>1, <2>1, <2>2, <2>3, <2>4, QuietStep
<1>3. CASE markJobProcessing(c)
  <2>1. /\ UNCHANGED <<queue, issued, tallies, submitting, retry, draining>>
        /\ work' = [work EXCEPT ![c].pc = "fetch"]
        /\ work[c].pc = "mark"
        /\ job' = IF job[JobOf(c)].status = "QUEUED"
                  THEN [job EXCEPT ![JobOf(c)].status = "PROCESSING"] ELSE job
    BY <1>3 DEF markJobProcessing, requests
  <2>2. work'[c].pc = "fetch" /\ tallies[c] = 0 /\ queue[c].state = "active"
    BY <1>1, <2>1 DEF Work, ChunkAccounted
  <2>3. ChunkAccounted(c)'
    BY <2>1, <2>2 DEF ChunkAccounted
  <2>4. \A j \in Jobs : \/ job'[j] = job[j]
                        \/ /\ j = JobOf(c) /\ tallies[c] = 0
                           /\ job'[j] = [job[j] EXCEPT !.status = "PROCESSING"]
    BY <2>1, <2>2 DEF TypeOK
  <2> QED
    BY <1>1, <2>1, <2>2, <2>3, <2>4, QuietStep
<1>4. ASSUME UNCHANGED <<job, queue, issued, tallies, submitting, retry, draining>>,
             NEW p \in {"fetch", "lookup", "insert", "update", "tally"},
             \A d \in 1..issued : d # c => work'[d] = work[d],
             work[c].pc \in {"fetch", "lookup", "insert", "update"},
             work'[c].pc = p
      PROVE  Accounted'
  <2>1. tallies[c] = 0 /\ queue[c].state = "active"
    BY <1>1, <1>4 DEF ChunkAccounted
  <2>2. ChunkAccounted(c)'
    BY <1>4, <2>1 DEF ChunkAccounted
  <2> QED
    BY <1>4, <2>2, QuietStep
<1>5. ASSUME NEW ok \in BOOLEAN, CountRow(c, ok)
      PROVE  /\ work'[c].pc \in {"fetch", "tally"}
             /\ \A d \in 1..issued : d # c => work'[d] = work[d]
  <2>1. work'[c].pc = NextRow(c)
    BY <1>1, <1>5 DEF CountRow, Work
  <2>2. \A d \in 1..issued : d # c => work'[d] = work[d]
    BY <1>1, <1>5 DEF CountRow
  <2> QED
    BY <2>1, <2>2 DEF NextRow
<1>6. CASE FetchRow(c)
  <2>1. /\ UNCHANGED <<job, queue, issued, tallies, submitting, retry, draining>>
        /\ work[c].pc = "fetch"
    BY <1>6 DEF FetchRow, database, requests
  <2>2. CASE CountRow(c, FALSE)
    BY <1>4, <1>5, <2>1, <2>2
  <2>3. CASE work' = [work EXCEPT ![c].pc = "lookup"]
    <3>1. work'[c].pc = "lookup" /\ \A d \in 1..issued : d # c => work'[d] = work[d]
      BY <1>1, <2>3 DEF Work
    <3> QED
      BY <1>4, <2>1, <3>1
  <2> QED
    BY <1>6, <2>2, <2>3 DEF FetchRow
<1>7. CASE ScorerFails(c)
  <2> DEFINE made == queue[c].attemptsMade + 1
             last == made >= MaxAttempts
  <2>1. /\ UNCHANGED <<job, issued, tallies, submitting, retry, draining>>
        /\ work[c].pc = "fetch" /\ AttemptFails(c)
    BY <1>7 DEF ScorerFails, database, requests
  <2>2. /\ queue'[c].batchJobId = queue[c].batchJobId
        /\ queue'[c].state = IF last THEN "failed" ELSE "wait"
        /\ \A d \in 1..issued : d # c => queue'[d] = queue[d]
    BY <1>1, <2>1 DEF AttemptFails, Chunk
  <2>3. /\ work'[c].pc = IF last THEN "salvage" ELSE "idle"
        /\ \A d \in 1..issued : d # c => work'[d] = work[d]
    BY <1>1, <2>1 DEF AttemptFails, Idle
  <2>4. tallies'[c] = 0
    BY <1>1, <2>1 DEF ChunkAccounted
  <2> HIDE DEF last
  <2>5. ChunkAccounted(c)'
    BY <2>2, <2>3, <2>4 DEF ChunkAccounted
  <2> QED
    BY <2>1, <2>2, <2>3, <2>5, QuietStep
<1>8. CASE LookupRow(c)
  <2>1. /\ UNCHANGED <<job, queue, issued, tallies, submitting, retry, draining>>
        /\ work[c].pc = "lookup"
    BY <1>8 DEF LookupRow, database, requests
  <2>2. /\ work'[c].pc \in {"insert", "update"}
        /\ \A d \in 1..issued : d # c => work'[d] = work[d]
    BY <1>1, <1>8 DEF LookupRow, Work
  <2> QED
    BY <1>4, <2>1, <2>2
<1>9. CASE WriteRow(c)
  <2>1. /\ UNCHANGED <<job, queue, issued, tallies, submitting, retry, draining>>
        /\ work[c].pc \in {"insert", "update"}
    BY <1>9 DEF WriteRow, requests
  <2>2. PICK ok \in BOOLEAN : CountRow(c, ok)
    BY <1>9 DEF WriteRow
  <2> QED
    BY <1>4, <1>5, <2>1, <2>2
<1>10. CASE Acknowledge(c)
  <2>1. /\ UNCHANGED <<job, issued, tallies, submitting, retry, draining>>
        /\ work[c].pc = "ack"
        /\ queue' = [queue EXCEPT ![c].state = "completed"]
        /\ work' = [work EXCEPT ![c] = Idle]
    BY <1>10 DEF Acknowledge, database, requests
  <2>2. /\ queue'[c].batchJobId = queue[c].batchJobId
        /\ queue'[c].state = "completed" /\ work'[c].pc = "idle"
    BY <1>1, <2>1 DEF Chunk, Idle
  <2>3. tallies'[c] # 0
    BY <1>1, <2>1 DEF ChunkAccounted
  <2>4. ChunkAccounted(c)'
    BY <2>2, <2>3 DEF ChunkAccounted
  <2> QED
    BY <1>1, <2>1, <2>2, <2>4, QuietStep
<1>11. CASE countScored(c)
  <2>1. /\ UNCHANGED <<job, queue, issued, tallies, submitting, retry, draining>>
        /\ work[c].pc = "salvage"
    BY <1>11 DEF countScored, database, requests
  <2>2. /\ work'[c].pc = "tally"
        /\ \A d \in 1..issued : d # c => work'[d] = work[d]
    BY <1>1, <1>11 DEF countScored, Idle
  <2>3. tallies'[c] = 0 /\ queue'[c].state = "failed"
    BY <1>1, <2>1 DEF ChunkAccounted
  <2>4. ChunkAccounted(c)'
    BY <2>2, <2>3 DEF ChunkAccounted
  <2> QED
    BY <2>1, <2>2, <2>4, QuietStep
<1> QED
  BY <1>2, <1>3, <1>6, <1>7, <1>8, <1>9, <1>10, <1>11

\* Recording an outcome takes one chunk off what is owed, adds one to the
\* row, and makes the caller the finaliser exactly when nothing is owed.
LEMMA RecordAccounted ==
    ASSUME TypeOK, Accounted, NEW c \in 1..issued, recordChunkResult(c)
    PROVE  Accounted'
<1>0. PICK j \in Jobs : j = JobOf(c)
  BY DEF TypeOK, Chunk, JobOf
<1> DEFINE updated == [job[j] EXCEPT !.processedCount = @ + work[c].processed,
                                !.failedCount = @ + work[c].failed,
                                !.completedChunks = @ + 1]
<1>1. /\ UNCHANGED <<queue, issued, submitting, retry, draining>>
      /\ work[c].pc = "tally"
      /\ job' = [job EXCEPT ![j] = updated]
      /\ tallies' = [tallies EXCEPT ![c] = @ + 1]
      /\ work' = [work EXCEPT ![c] = IF IsLast(updated) THEN Finaliser(c, updated)
                                     ELSE Recorded(c)]
  BY <1>0 DEF recordChunkResult, requests
<1>2. /\ queue[c] \in Chunk /\ work[c] \in Work /\ job[j] \in JobRow
      /\ work \in [1..issued -> Work] /\ tallies \in [1..issued -> Nat]
      /\ job \in [Jobs -> JobRow] /\ ChunkAccounted(c) /\ RowAccounted(j)
  BY DEF TypeOK, Accounted
<1>3. tallies[c] = 0 /\ queue[c].state \in {"active", "failed"}
  BY <1>1, <1>2 DEF ChunkAccounted
<1>4. c \in Owed(j)
  BY <1>0, <1>3 DEF Owed, ChunksOf, JobOf
<1>5. /\ ~Unqueued(j) /\ job[j].status \in IN_FLIGHT
      /\ job[j].completedChunks + Cardinality(Owed(j)) = job[j].totalChunks
  BY <1>2, <1>4 DEF RowAccounted
<1>6. \A d \in ChunksOf(j) : work[d].pc # "finalize"
  <2>1. SUFFICES ASSUME NEW d \in ChunksOf(j), work[d].pc = "finalize" PROVE FALSE
    OBVIOUS
  <2>2. d \in 1..issued /\ JobOf(d) = j
    BY DEF ChunksOf, JobOf
  <2>3. FinaliserAccounted(d)
    BY <2>2 DEF Accounted
  <2> QED
    BY <1>4, <2>1, <2>2, <2>3 DEF FinaliserAccounted
<1>7. /\ updated.status = job[j].status
      /\ updated.completedChunks = job[j].completedChunks + 1
      /\ updated.totalChunks = job[j].totalChunks
      /\ updated.transactionIds = job[j].transactionIds
  BY <1>2 DEF JobRow
<1>8. /\ job'[j] = updated /\ \A k \in Jobs : k # j => job'[k] = job[k]
      /\ \A d \in 1..issued : d # c => work'[d] = work[d] /\ tallies'[d] = tallies[d]
      /\ work'[c] = IF IsLast(updated) THEN Finaliser(c, updated) ELSE Recorded(c)
      /\ tallies'[c] # 0
  BY <1>1, <1>2, <1>3
<1> HIDE DEF updated
<1>9. \A k : ChunksOf(k)' = ChunksOf(k)
  BY <1>1 DEF ChunksOf
<1>10. Owed(j)' = Owed(j) \ {c}
  BY <1>8, <1>9 DEF Owed, ChunksOf
<1>11. \A k \in Jobs : k # j => Owed(k)' = Owed(k)
  BY <1>0, <1>8, <1>9 DEF Owed, ChunksOf, JobOf
<1>12. Cardinality(Owed(j)') = Cardinality(Owed(j)) - 1
  BY <1>4, <1>10, OwedIsFinite, FS_RemoveElement
<1>13. Owed(j)' = {} <=> Cardinality(Owed(j)) = 1
  <2>1. IsFiniteSet(Owed(j)') /\ Cardinality(Owed(j)') \in Nat
    BY <1>4, <1>10, OwedIsFinite, FS_RemoveElement, FS_CardinalityType
  <2>2. Cardinality(Owed(j)') = 0 <=> Owed(j)' = {}
    BY <2>1, FS_EmptySet
  <2> QED
    BY <1>12, <2>1, <2>2, OwedIsFinite
<1>14. IsLast(updated) <=> Owed(j)' = {}
  <2>1. job[j].completedChunks \in Nat /\ job[j].totalChunks \in Nat
    BY <1>2 DEF JobRow
  <2>2. Cardinality(Owed(j)) \in Nat \ {0}
    BY <1>4, OwedIsFinite, NothingOwed
  <2> QED
    BY <1>5, <1>7, <1>13, <2>1, <2>2 DEF IsLast
<1>15. work'[c].pc = "finalize" <=> Owed(j)' = {}
  <2>1. Finaliser(c, updated).pc = "finalize" /\ Recorded(c).pc \in {"ack", "idle"}
    BY DEF Finaliser, Recorded, Idle
  <2> QED
    BY <1>8, <1>14, <2>1
<1>16. \A k : (Unqueued(k)' <=> Unqueued(k))
  BY <1>1 DEF Unqueued
<1>17. Finalising(j)' <=> Owed(j)' = {}
  <2>1. c \in ChunksOf(j) /\ \A d \in ChunksOf(j) : d \in 1..issued
    BY <1>4 DEF Owed, ChunksOf
  <2> QED
    BY <1>6, <1>8, <1>9, <1>15, <2>1 DEF Finalising
<1>18. ASSUME NEW k \in Jobs, k # j PROVE Finalising(k)' <=> Finalising(k)
  <2>1. \A d \in ChunksOf(k) : d \in 1..issued /\ d # c
    BY <1>0, <1>18 DEF ChunksOf, JobOf
  <2> QED
    BY <1>8, <1>9, <2>1 DEF Finalising
<1>19. ASSUME NEW k \in Jobs PROVE RowAccounted(k)'
  <2>1. CASE k # j
    <3>1. RowAccounted(k)
      BY DEF Accounted
    <3> QED
      BY <1>8, <1>11, <1>16, <1>18, <2>1, <3>1, RowFrame
  <2>2. CASE k = j
    <3>1. updated.completedChunks + Cardinality(Owed(j)') = updated.totalChunks
      <4>1. job[j].completedChunks \in Nat /\ job[j].totalChunks \in Nat
        BY <1>2 DEF JobRow
      <4>2. Cardinality(Owed(j)) \in Nat
        BY OwedIsFinite
      <4> QED
        BY <1>5, <1>7, <1>12, <4>1, <4>2
    <3>2. updated.status \in IN_FLIGHT /\ updated.status \notin Terminal
      BY <1>5, <1>7 DEF IN_FLIGHT, Terminal, RETRYABLE_STATUSES
    <3> QED
      BY <1>5, <1>8, <1>16, <1>17, <2>2, <3>1, <3>2 DEF RowAccounted
  <2> QED
    BY <2>1, <2>2
<1>20. ASSUME NEW d \in 1..issued PROVE ChunkAccounted(d)'
  <2>1. CASE d # c
    <3>1. ChunkAccounted(d)
      BY DEF Accounted
    <3> QED
      BY <1>1, <1>8, <2>1, <3>1, ChunkFrame
  <2>2. CASE d = c
    <3>1. queue[c].state = "failed" => work'[c].pc \in {"finalize", "idle"}
      BY <1>8 DEF Finaliser, Recorded, IsHandler, Idle
    <3>2. queue[c].state = "active" => work'[c].pc \in {"finalize", "ack"}
      BY <1>8 DEF Finaliser, Recorded, IsHandler, Idle
    <3> QED
      BY <1>1, <1>3, <1>8, <2>2, <3>1, <3>2 DEF ChunkAccounted
  <2> QED
    BY <2>1, <2>2
<1>21. ASSUME NEW d \in 1..issued PROVE FinaliserAccounted(d)'
  <2>1. JobOf(d)' = JobOf(d) /\ JobOf(d) \in Jobs
    BY <1>1 DEF JobOf, TypeOK, Chunk
  <2>2. CASE JobOf(d) # j
    <3>1. FinaliserAccounted(d)
      BY DEF Accounted
    <3>2. d # c /\ \A e \in ChunksOf(JobOf(d)) : e \in 1..issued /\ e # c
      BY <1>0, <2>2 DEF ChunksOf, JobOf
    <3> QED
      BY <1>8, <1>9, <1>11, <2>1, <2>2, <3>1, <3>2 DEF FinaliserAccounted
  <2>3. CASE JobOf(d) = j
    <3>1. d \in ChunksOf(j) /\ \A e \in ChunksOf(j) : e \in 1..issued
      BY <2>3 DEF ChunksOf, JobOf
    <3>2. ASSUME work'[d].pc = "finalize"
          PROVE  /\ Owed(j)' = {}
                 /\ work'[d].verdict = FinalStatus(job'[j])
                 /\ \A e \in ChunksOf(j) : work'[e].pc = "finalize" => e = d
      <4>1. d = c
        BY <1>6, <1>8, <3>1, <3>2
      <4>2. Owed(j)' = {} /\ IsLast(updated)
        BY <1>14, <1>15, <3>2, <4>1
      <4>3. Finaliser(c, updated).verdict = FinalStatus(updated)
        BY DEF Finaliser, Idle
      <4> QED
        BY <1>6, <1>8, <3>1, <4>1, <4>2, <4>3
    <3> QED
      BY <1>9, <2>1, <2>3, <3>2 DEF FinaliserAccounted
  <2> QED
    BY <2>2, <2>3
<1>22. RequestsAccounted'
  <2>1. \A k \in Jobs : /\ job'[k].status = job[k].status
                        /\ job'[k].totalChunks = job[k].totalChunks
                        /\ job'[k].transactionIds = job[k].transactionIds
    BY <1>7, <1>8
  <2>2. \A r \in Retriers : retry[r].pc \in {"scan", "reset", "enqueue"}
                               => retry[r].job \in Jobs
    BY DEF TypeOK
  <2>3. \A k \in submitting : k \in Jobs
    BY DEF TypeOK
  <2> QED
    BY <1>1, <2>1, <2>2, <2>3 DEF Accounted, RequestsAccounted
<1>23. issued' = issued
  BY <1>1
<1>24. ~draining'
  BY <1>1, Zenon DEF Accounted
<1> QED
  BY <1>19, <1>20, <1>21, <1>22, <1>23, <1>24 DEF Accounted

\* The finaliser writes the status of the final row, and there is no other.
LEMMA FinaliseAccounted ==
    ASSUME TypeOK, Accounted, NEW c \in 1..issued, finalizeJob(c)
    PROVE  Accounted'
<1>0. PICK j \in Jobs : j = JobOf(c)
  BY DEF TypeOK, Chunk, JobOf
<1>1. /\ UNCHANGED <<queue, issued, tallies, submitting, retry, draining>>
      /\ work[c].pc = "finalize"
      /\ job' = IF job[j].status \in IN_FLIGHT
                THEN [job EXCEPT ![j].status = work[c].verdict] ELSE job
      /\ work' = [work EXCEPT ![c] = Recorded(c)]
  BY <1>0 DEF finalizeJob, requests
<1>2. /\ work[c] \in Work /\ job[j] \in JobRow /\ work \in [1..issued -> Work]
      /\ job \in [Jobs -> JobRow] /\ ChunkAccounted(c) /\ FinaliserAccounted(c)
      /\ RowAccounted(j)
  BY DEF TypeOK, Accounted
<1>3. c \in ChunksOf(j) /\ \A d \in ChunksOf(j) : d \in 1..issued /\ JobOf(d) = j
  BY <1>0 DEF ChunksOf, JobOf
<1>4. Finalising(j)
  BY <1>1, <1>3 DEF Finalising
<1>5. /\ ~Unqueued(j) /\ job[j].status \in IN_FLIGHT
      /\ job[j].completedChunks + Cardinality(Owed(j)) = job[j].totalChunks
  BY <1>2, <1>4 DEF RowAccounted
<1>6. /\ Owed(j) = {}
      /\ work[c].verdict = FinalStatus(job[j])
      /\ \A d \in ChunksOf(j) : work[d].pc = "finalize" => d = c
  BY <1>0, <1>1, <1>2 DEF FinaliserAccounted
<1>7. /\ job' = [job EXCEPT ![j].status = work[c].verdict]
      /\ \A k \in Jobs : k # j => job'[k] = job[k]
      /\ job'[j].status = work[c].verdict
      /\ \A k \in Jobs : /\ job'[k].processedCount = job[k].processedCount
                         /\ job'[k].failedCount = job[k].failedCount
                         /\ job'[k].totalChunks = job[k].totalChunks
                         /\ job'[k].completedChunks = job[k].completedChunks
                         /\ job'[k].transactionIds = job[k].transactionIds
  <2>1. job' = [job EXCEPT ![j].status = work[c].verdict]
    BY <1>1, <1>5
  <2> QED
    BY <1>2, <2>1 DEF JobRow
<1>8. /\ \A d \in 1..issued : d # c => work'[d] = work[d]
      /\ work'[c].pc = IF queue[c].state = "failed" THEN "idle" ELSE "ack"
  BY <1>1, <1>2 DEF Recorded, IsHandler, Idle
<1>9. \A k : ChunksOf(k)' = ChunksOf(k) /\ Owed(k)' = Owed(k)
  BY <1>1 DEF ChunksOf, Owed
<1>10. \A k : (Unqueued(k)' <=> Unqueued(k))
  BY <1>1 DEF Unqueued
<1>11. ~Finalising(j)'
  BY <1>3, <1>6, <1>8, <1>9 DEF Finalising
<1>12. ASSUME NEW k \in Jobs, k # j PROVE Finalising(k)' <=> Finalising(k)
  <2>1. \A d \in ChunksOf(k) : d \in 1..issued /\ d # c
    BY <1>0, <1>12 DEF ChunksOf, JobOf
  <2> QED
    BY <1>8, <1>9, <2>1 DEF Finalising
<1>13. \A k \in Jobs : FinalStatus(job'[k]) = FinalStatus(job[k])
  BY <1>7 DEF FinalStatus
<1>14. ASSUME NEW k \in Jobs PROVE RowAccounted(k)'
  <2>1. CASE k # j
    <3>1. RowAccounted(k)
      BY DEF Accounted
    <3> QED
      BY <1>7, <1>9, <1>10, <1>12, <2>1, <3>1, RowFrame
  <2>2. CASE k = j
    <3>1. job'[j].status \notin IN_FLIGHT
      BY <1>6, <1>7 DEF FinalStatus, IN_FLIGHT
    <3> QED
      BY <1>5, <1>6, <1>7, <1>9, <1>10, <1>11, <1>13, <2>2, <3>1 DEF RowAccounted
  <2> QED
    BY <2>1, <2>2
<1>15. ASSUME NEW d \in 1..issued PROVE ChunkAccounted(d)'
  <2>1. CASE d # c
    <3>1. ChunkAccounted(d)
      BY DEF Accounted
    <3> QED
      BY <1>1, <1>8, <2>1, <3>1, ChunkFrame
  <2>2. CASE d = c
    <3>1. tallies[c] # 0 /\ queue[c].state \in {"active", "failed"}
      BY <1>1, <1>2 DEF ChunkAccounted
    <3> QED
      BY <1>1, <1>8, <2>2, <3>1 DEF ChunkAccounted
  <2> QED
    BY <2>1, <2>2
<1>16. ASSUME NEW d \in 1..issued PROVE FinaliserAccounted(d)'
  <2>1. JobOf(d)' = JobOf(d) /\ JobOf(d) \in Jobs
    BY <1>1 DEF JobOf, TypeOK, Chunk
  <2>2. FinaliserAccounted(d)
    BY DEF Accounted
  <2>3. work'[c].pc # "finalize"
    BY <1>8
  <2>4. \A e \in ChunksOf(JobOf(d)) : e \in 1..issued
    BY DEF ChunksOf
  <2> QED
    BY <1>8, <1>9, <1>13, <2>1, <2>2, <2>3, <2>4 DEF FinaliserAccounted
<1>17. RequestsAccounted'
  <2>1. ASSUME NEW r \in Retriers, retry[r].pc \in {"scan", "reset"}
        PROVE  job'[retry[r].job] = job[retry[r].job]
    <3>1. retry[r].job \in Jobs
      BY <2>1 DEF TypeOK
    <3>2. job[retry[r].job].status \in RETRYABLE_STATUSES
      BY <2>1 DEF Accounted, RequestsAccounted
    <3>3. retry[r].job # j
      BY <1>5, <3>2 DEF RETRYABLE_STATUSES, IN_FLIGHT
    <3> QED
      BY <1>7, <3>1, <3>3
  <2>2. ASSUME NEW r \in Retriers, retry[r].pc = "enqueue"
        PROVE  retry[r].job \in Jobs
    BY <2>2 DEF TypeOK
  <2>3. \A k \in submitting : k \in Jobs
    BY DEF TypeOK
  <2> QED
    BY <1>1, <1>7, <2>1, <2>2, <2>3 DEF Accounted, RequestsAccounted
<1>18. issued' = issued
  BY <1>1
<1>19. ~draining'
  BY <1>1, Zenon DEF Accounted
<1> QED
  BY <1>14, <1>15, <1>16, <1>17, <1>18, <1>19 DEF Accounted

\* Putting on the queue exactly the chunks a row announces keeps the books.
LEMMA AddBulkAccounted ==
    ASSUME TypeOK, Accounted, NEW j \in Jobs, NEW ids \in Seq(Txns), ids # <<>>,
           AddBulk(j, ids), UNCHANGED <<job, draining>>,
           Unqueued(j), ~Unqueued(j)',
           \A k \in Jobs : k # j => (Unqueued(k)' <=> Unqueued(k)),
           job[j].totalChunks = ChunkCount(Len(ids)),
           RequestsAccounted'
    PROVE  Accounted'
<1> DEFINE n == ChunkCount(Len(ids))
<1>1. n \in Nat \ {0} /\ issued \in Nat /\ issued' = issued + n
  <2>1. Len(ids) \in Nat \ {0}
    OBVIOUS
  <2> QED
    BY <2>1, ChunkCountCovers DEF TypeOK, AddBulk
<1> HIDE DEF n
<1>2. /\ \A c \in 1..issued : /\ queue'[c] = queue[c] /\ work'[c] = work[c]
                              /\ tallies'[c] = tallies[c]
      /\ \A c \in (issued + 1)..(issued + n) :
            /\ queue'[c].batchJobId = j /\ queue'[c].state = "wait"
            /\ work'[c].pc = "idle" /\ tallies'[c] = 0
  BY <1>1 DEF AddBulk, Idle, n
<1>3. 1..issued' = (1..issued) \union ((issued + 1)..(issued + n))
  BY <1>1
<1>4. ChunksOf(j)' = ChunksOf(j) \union ((issued + 1)..(issued + n))
  BY <1>1, <1>2, <1>3 DEF ChunksOf
<1>5. \A k \in Jobs : k # j => ChunksOf(k)' = ChunksOf(k)
  BY <1>1, <1>2, <1>3 DEF ChunksOf
<1>6. Owed(j)' = Owed(j) \union ((issued + 1)..(issued + n))
  BY <1>1, <1>2, <1>4 DEF Owed, ChunksOf
<1>7. \A k \in Jobs : k # j => Owed(k)' = Owed(k)
  BY <1>2, <1>5 DEF Owed, ChunksOf
<1>8. RowAccounted(j)
  BY DEF Accounted
<1>9. /\ job[j].status = "QUEUED" /\ job[j].completedChunks = 0
      /\ Owed(j) = {} /\ ~Finalising(j)
  BY <1>8 DEF RowAccounted
<1>10. Owed(j)' # {} /\ Cardinality(Owed(j)') = n
  <2>1. Owed(j)' = (issued + 1)..(issued + n)
    BY <1>6, <1>9
  <2>2. issued + 1 \in (issued + 1)..(issued + n)
    BY <1>1
  <2>3. Cardinality((issued + 1)..(issued + n)) = n
    BY <1>1, CardinalityBetween
  <2>4. Owed(j)' # {}
    BY <2>1, <2>2
  <2>5. Cardinality(Owed(j)') = n
    BY <2>1, <2>3
  <2> QED
    BY <2>4, <2>5
<1>11. \A k \in Jobs : (Finalising(k)' <=> Finalising(k))
  BY <1>2, <1>4, <1>5 DEF Finalising, ChunksOf
<1>12. ASSUME NEW k \in Jobs PROVE RowAccounted(k)'
  <2>1. CASE k # j
    <3>1. RowAccounted(k)
      BY DEF Accounted
    <3> QED
      BY <1>7, <1>11, <2>1, <3>1, RowFrame
  <2>2. CASE k = j
    <3>1. job[j].completedChunks + Cardinality(Owed(j)') = job[j].totalChunks
      BY <1>1, <1>9, <1>10 DEF n
    <3>2. "QUEUED" \in IN_FLIGHT /\ "QUEUED" \notin Terminal
      BY DEF IN_FLIGHT, Terminal, RETRYABLE_STATUSES
    <3> QED
      BY <1>9, <1>10, <2>2, <3>1, <3>2 DEF RowAccounted
  <2> QED
    BY <2>1, <2>2
<1>13. ASSUME NEW d \in 1..issued' PROVE ChunkAccounted(d)' /\ FinaliserAccounted(d)'
  <2>1. CASE d \in 1..issued
    <3>1. ChunkAccounted(d) /\ FinaliserAccounted(d)
      BY <2>1 DEF Accounted
    <3>2. ChunkAccounted(d)'
      BY <1>2, <2>1, <3>1, ChunkFrame
    <3>3. PICK k \in Jobs : k = JobOf(d)
      BY <2>1 DEF JobOf, TypeOK, Chunk
    <3>4. JobOf(d)' = k
      BY <1>2, <2>1, <3>3 DEF JobOf
    <3>5. CASE k = j
      <4>1. d \in ChunksOf(j)
        BY <2>1, <3>3, <3>5 DEF ChunksOf, JobOf
      <4>2. work'[d].pc # "finalize"
        BY <1>2, <1>9, <2>1, <4>1 DEF Finalising
      <4> QED
        BY <3>2, <4>2 DEF FinaliserAccounted
    <3>6. CASE k # j
      <4>1. ChunksOf(k)' = ChunksOf(k) /\ Owed(k)' = Owed(k)
        BY <1>5, <1>7, <3>6
      <4>2. \A e \in ChunksOf(k) : e \in 1..issued
        BY DEF ChunksOf
      <4> QED
        BY <1>2, <2>1, <3>1, <3>2, <3>3, <3>4, <4>1, <4>2 DEF FinaliserAccounted
    <3> QED
      BY <3>5, <3>6
  <2>2. CASE d \in (issued + 1)..(issued + n)
    <3>1. queue'[d].state = "wait" /\ work'[d].pc = "idle" /\ tallies'[d] = 0
      BY <1>2, <2>2
    <3>2. ChunkAccounted(d)'
      BY <3>1 DEF ChunkAccounted
    <3>3. FinaliserAccounted(d)'
      BY <3>1 DEF FinaliserAccounted
    <3> QED
      BY <3>2, <3>3
  <2> QED
    BY <1>3, <2>1, <2>2
<1>14. ~draining'
  BY Zenon DEF Accounted
<1> QED
  BY <1>12, <1>13, <1>14 DEF Accounted

\* A step that writes one job's row, or none, and neither queues nor runs
\* anything keeps the books if it keeps that row's.
LEMMA RequestStep ==
    ASSUME TypeOK, Accounted, NEW j \in Jobs,
           UNCHANGED <<issued, queue, work, tallies, draining>>,
           \A k \in Jobs : k # j =>
              job'[k] = job[k] /\ (Unqueued(k)' <=> Unqueued(k)),
           job'[j] = job[j] \/ ~Finalising(j),
           RowAccounted(j)',
           RequestsAccounted'
    PROVE  Accounted'
<1>1. \A k : ChunksOf(k)' = ChunksOf(k) /\ Owed(k)' = Owed(k)
  BY DEF ChunksOf, Owed
<1>2. \A k : (Finalising(k)' <=> Finalising(k))
  BY <1>1 DEF Finalising
<1>3. ASSUME NEW k \in Jobs PROVE RowAccounted(k)'
  <2>1. CASE k # j
    <3>1. RowAccounted(k)
      BY DEF Accounted
    <3> QED
      BY <1>1, <1>2, <2>1, <3>1, RowFrame
  <2> QED
    BY <2>1
<1>4. ASSUME NEW d \in 1..issued PROVE ChunkAccounted(d)' /\ FinaliserAccounted(d)'
  <2>1. ChunkAccounted(d) /\ FinaliserAccounted(d)
    BY DEF Accounted
  <2>2. ChunkAccounted(d)'
    BY <2>1, ChunkFrame
  <2>3. PICK k \in Jobs : k = JobOf(d)
    BY DEF JobOf, TypeOK, Chunk
  <2>4. JobOf(d)' = k
    BY <2>3 DEF JobOf
  <2>5. ASSUME work[d].pc = "finalize" PROVE job'[k] = job[k]
    <3>1. d \in ChunksOf(k)
      BY <2>3 DEF ChunksOf, JobOf
    <3>2. Finalising(k)
      BY <2>5, <3>1 DEF Finalising
    <3> QED
      BY <3>2
  <2>6. FinaliserAccounted(d)'
    BY <1>1, <2>1, <2>3, <2>4, <2>5 DEF FinaliserAccounted, FinalStatus
  <2> QED
    BY <2>2, <2>6
<1>5. issued' = issued
  OBVIOUS
<1>6. ~draining'
  BY Zenon DEF Accounted
<1> QED
  BY <1>3, <1>4, <1>5, <1>6 DEF Accounted

\* createJob keeps the books.
LEMMA CreateAccounted ==
    ASSUME TypeOK, Accounted, NEW j \in Jobs, CreateJob(j)
    PROVE  Accounted'
<1>1. PICK filter \in {"ids", "unscored"} : \E ids \in resolveTransactionIds(filter) :
         /\ ids # <<>>
         /\ job' = [job EXCEPT ![j] = [NoRow EXCEPT !.status = "QUEUED",
                      !.transactionIds = ids, !.totalChunks = ChunkCount(Len(ids))]]
  BY DEF CreateJob
<1>2. PICK ids \in resolveTransactionIds(filter) :
         /\ ids # <<>>
         /\ job' = [job EXCEPT ![j] = [NoRow EXCEPT !.status = "QUEUED",
                      !.transactionIds = ids, !.totalChunks = ChunkCount(Len(ids))]]
  BY <1>1
<1>3. /\ UNCHANGED <<issued, queue, work, tallies, draining, retry>>
      /\ job[j].status = "NONE" /\ submitting' = submitting \union {j}
  BY DEF CreateJob
<1>4. /\ job'[j] = [NoRow EXCEPT !.status = "QUEUED", !.transactionIds = ids,
                                 !.totalChunks = ChunkCount(Len(ids))]
      /\ \A k \in Jobs : k # j => job'[k] = job[k]
  BY <1>2 DEF TypeOK
<1>5. /\ job'[j].status = "QUEUED" /\ job'[j].transactionIds = ids
      /\ job'[j].totalChunks = ChunkCount(Len(ids)) /\ job'[j].completedChunks = 0
  BY <1>4 DEF NoRow
<1>6. RowAccounted(j) /\ "NONE" \notin IN_FLIGHT \union RETRYABLE_STATUSES
  BY DEF Accounted, IN_FLIGHT, RETRYABLE_STATUSES
<1>7. ~Unqueued(j) /\ Owed(j) = {} /\ ~Finalising(j)
  BY <1>3, <1>6 DEF RowAccounted
<1>8. Owed(j)' = {} /\ ~Finalising(j)'
  BY <1>3, <1>7 DEF Owed, ChunksOf, Finalising
<1>9. Unqueued(j)' /\ \A k \in Jobs : k # j => (Unqueued(k)' <=> Unqueued(k))
  BY <1>3 DEF Unqueued
<1>10. RowAccounted(j)'
  BY <1>5, <1>8, <1>9 DEF RowAccounted, Terminal, RETRYABLE_STATUSES
<1>11. RequestsAccounted'
  <2>1. ASSUME NEW k \in submitting'
        PROVE  /\ job'[k].transactionIds # <<>>
               /\ job'[k].totalChunks = ChunkCount(Len(job'[k].transactionIds))
    <3>1. CASE k = j
      BY <1>2, <1>5, <3>1
    <3>2. CASE k # j
      <4>1. k \in submitting /\ k \in Jobs
        BY <1>3, <3>2 DEF TypeOK
      <4> QED
        BY <1>4, <3>2, <4>1 DEF Accounted, RequestsAccounted
    <3> QED
      BY <3>1, <3>2
  <2>2. ASSUME NEW r \in Retriers, retry[r].pc \in {"scan", "reset", "enqueue"}
        PROVE  retry[r].job \in Jobs /\ retry[r].job # j
    <3>1. retry[r].job \in Jobs
      BY <2>2 DEF TypeOK
    <3>2. CASE retry[r].pc = "enqueue"
      BY <1>7, <3>1, <3>2 DEF Unqueued
    <3>3. CASE retry[r].pc \in {"scan", "reset"}
      BY <1>3, <1>6, <3>1, <3>3 DEF Accounted, RequestsAccounted
    <3> QED
      BY <2>2, <3>1, <3>2, <3>3
  <2>3. ASSUME NEW r \in Retriers, retry[r].pc = "enqueue"
        PROVE  retry[r].job \notin submitting'
    BY <1>3, <2>2, <2>3 DEF Accounted, RequestsAccounted
  <2> QED
    BY <1>3, <1>4, <2>1, <2>2, <2>3 DEF Accounted, RequestsAccounted
<1> QED
  BY <1>3, <1>4, <1>7, <1>9, <1>10, <1>11, RequestStep

\* createJob's addBulk keeps the books.
LEMMA EnqueueAccounted ==
    ASSUME TypeOK, Accounted, NEW j \in Jobs, EnqueueJob(j)
    PROVE  Accounted'
<1> DEFINE roster == job[j].transactionIds
<1>1. /\ UNCHANGED <<job, draining, retry>> /\ j \in submitting
      /\ submitting' = submitting \ {j} /\ AddBulk(j, roster)
  BY DEF EnqueueJob, database
<1>2. /\ roster \in Seq(Txns) /\ roster # <<>>
      /\ job[j].totalChunks = ChunkCount(Len(roster))
  BY <1>1 DEF TypeOK, JobRow, Accounted, RequestsAccounted
<1>3. Unqueued(j)
  BY <1>1 DEF Unqueued
<1>4. ~Unqueued(j)'
  BY <1>1 DEF Unqueued, Accounted, RequestsAccounted
<1>5. \A k \in Jobs : k # j => (Unqueued(k)' <=> Unqueued(k))
  BY <1>1 DEF Unqueued
<1>6. RequestsAccounted'
  BY <1>1 DEF Accounted, RequestsAccounted
<1> QED
  BY <1>1, <1>2, <1>3, <1>4, <1>5, <1>6, AddBulkAccounted

\* A retry keeps the books, being the only one.
LEMMA RetryAccounted ==
    ASSUME Calm, TypeOK, Accounted, NEW r \in Retriers,
           RetryStep(r) \/ \E j \in Jobs : RetryCheck(r, j)
    PROVE  Accounted'
<1>0. \A q \in Retriers : q = r
  BY DEF Calm
<1>1. /\ retry \in [Retriers -> RetryRequest] /\ retry[r] \in RetryRequest
      /\ submitting \subseteq Jobs
      /\ retry[r].pc # "idle" => retry[r].job \in Jobs
      /\ RequestsAccounted
  BY DEF TypeOK, Accounted
<1>2. ASSUME NEW j \in Jobs, RetryCheck(r, j) PROVE Accounted'
  <2>1. /\ UNCHANGED <<job, issued, queue, work, tallies, draining, submitting>>
        /\ retry[r].pc = "idle" /\ job[j].status \in RETRYABLE_STATUSES
        /\ retry'[r].pc = "scan" /\ retry'[r].job = j
    BY <1>1, <1>2 DEF RetryCheck, database, worker, NoRequest
  <2>2. \A k \in Jobs : (Unqueued(k)' <=> Unqueued(k))
    BY <1>0, <2>1 DEF Unqueued
  <2>3. RequestsAccounted'
    BY <1>0, <1>1, <2>1 DEF RequestsAccounted
  <2>4. RowAccounted(j)'
    <3>1. /\ RowAccounted(j) /\ Owed(j)' = Owed(j)
          /\ (Finalising(j)' <=> Finalising(j))
      BY <2>1 DEF Accounted, Owed, ChunksOf, Finalising
    <3> QED
      BY <2>1, <2>2, <3>1, RowFrame
  <2> QED
    BY <2>1, <2>2, <2>3, <2>4, RequestStep
<1>3. ASSUME UNCHANGED <<job, issued, queue, work, tallies, draining, submitting>>,
             retry[r].pc \in {"scan", "reset"},
             \/ retry'[r].pc = "idle"
             \/ retry'[r].pc = "reset" /\ retry'[r].job = retry[r].job
      PROVE  Accounted'
  <2>1. \A k \in Jobs : (Unqueued(k)' <=> Unqueued(k))
    BY <1>0, <1>3 DEF Unqueued
  <2>2. RequestsAccounted'
    BY <1>0, <1>1, <1>3 DEF RequestsAccounted
  <2>3. PICK j \in Jobs : j = retry[r].job
    BY <1>1, <1>3
  <2>4. RowAccounted(j)'
    <3>1. /\ RowAccounted(j) /\ Owed(j)' = Owed(j)
          /\ (Finalising(j)' <=> Finalising(j))
      BY <1>3 DEF Accounted, Owed, ChunksOf, Finalising
    <3> QED
      BY <1>3, <2>1, <3>1, RowFrame
  <2> QED
    BY <1>3, <2>1, <2>2, <2>4, RequestStep
<1>4. CASE RetryScan(r)
  <2>1. /\ UNCHANGED <<job, issued, queue, work, tallies, draining, submitting>>
        /\ retry[r].pc = "scan"
    BY <1>4 DEF RetryScan, database, worker
  <2>2. retry'[r].pc = "reset" /\ retry'[r].job = retry[r].job
    BY <1>1, <1>4 DEF RetryScan, RetryRequest
  <2> QED
    BY <1>3, <2>1, <2>2
<1>5. CASE RetryNothingLeft(r)
  <2>1. /\ UNCHANGED <<job, issued, queue, work, tallies, draining, submitting>>
        /\ retry[r].pc = "reset" /\ retry'[r].pc = "idle"
    BY <1>1, <1>5 DEF RetryNothingLeft, database, worker, NoRequest
  <2> QED
    BY <1>3, <2>1
<1>6. CASE RetryReset(r)
  <2>1. PICK j \in Jobs : j = retry[r].job
    BY <1>1, <1>6 DEF RetryReset
  <2>2. PICK ids \in SetToSeqs(Outstanding(r)) :
           /\ job' = [job EXCEPT ![j] = ResetRow(@, ChunkCount(Len(ids)))]
           /\ retry' = [retry EXCEPT ![r] = [@ EXCEPT !.pc = "enqueue", !.ids = ids,
                                                      !.done = {}]]
    BY <1>6, <2>1 DEF RetryReset
  <2>3. /\ UNCHANGED <<issued, queue, work, tallies, draining, submitting>>
        /\ retry[r].pc = "reset" /\ Outstanding(r) # {}
    BY <1>6 DEF RetryReset, worker
  <2>4. ids # <<>>
    <3>1. Outstanding(r) \in SUBSET Txns
      BY <2>1, RosterType DEF Outstanding
    <3>2. ids \in Seq(Txns) /\ Len(ids) = Cardinality(Outstanding(r))
      BY <3>1, IdsOfASet
    <3>3. IsFiniteSet(Outstanding(r))
      BY <3>1, ConstantsAssumption, FS_Subset
    <3>4. Cardinality(Outstanding(r)) # 0
      BY <2>3, <3>3, FS_EmptySet
    <3> QED
      BY <3>2, <3>4
  <2>5. job[j].status \in RETRYABLE_STATUSES
    BY <1>1, <2>1, <2>3 DEF RequestsAccounted
  <2>6. RowAccounted(j) /\ job[j].status \notin IN_FLIGHT
    BY <2>5 DEF Accounted, RETRYABLE_STATUSES, IN_FLIGHT
  <2>7. ~Unqueued(j) /\ Owed(j) = {} /\ ~Finalising(j) /\ j \notin submitting
    <3>1. job[j].status # "QUEUED"
      BY <2>6 DEF IN_FLIGHT
    <3>2. ~Unqueued(j)
      BY <2>6, <3>1 DEF RowAccounted
    <3> QED
      BY <2>6, <3>2 DEF RowAccounted, Unqueued
  <2>8. /\ retry'[r].pc = "enqueue" /\ retry'[r].job = j /\ retry'[r].ids = ids
    BY <1>1, <2>1, <2>2 DEF RetryRequest
  <2>9. /\ \A k \in Jobs : k # j => job'[k] = job[k]
        /\ job'[j] = ResetRow(job[j], ChunkCount(Len(ids)))
    BY <2>2 DEF TypeOK
  <2>10. job[j] \in JobRow
    BY DEF TypeOK
  <2>11. /\ job'[j].status = "QUEUED" /\ job'[j].completedChunks = 0
         /\ job'[j].totalChunks = ChunkCount(Len(ids))
         /\ job'[j].transactionIds = job[j].transactionIds
    BY <2>9, <2>10 DEF ResetRow, JobRow
  <2>12. Unqueued(j)'
    BY <2>8 DEF Unqueued
  <2>13. \A k \in Jobs : k # j => (Unqueued(k)' <=> Unqueued(k))
    BY <1>0, <2>3, <2>8 DEF Unqueued
  <2>14. Owed(j)' = {} /\ ~Finalising(j)'
    BY <2>3, <2>7 DEF Owed, ChunksOf, Finalising
  <2>15. RowAccounted(j)'
    BY <2>11, <2>12, <2>14 DEF RowAccounted, Terminal, RETRYABLE_STATUSES
  <2>16. RequestsAccounted'
    <3>1. \A k \in submitting : k # j /\ k \in Jobs
      BY <1>1, <2>7
    <3> QED
      BY <1>0, <1>1, <2>3, <2>4, <2>7, <2>8, <2>9, <2>11, <3>1 DEF RequestsAccounted
  <2> QED
    BY <2>3, <2>7, <2>9, <2>13, <2>15, <2>16, RequestStep
<1>7. CASE RetryEnqueue(r)
  <2>1. PICK j \in Jobs : j = retry[r].job
    BY <1>1, <1>7 DEF RetryEnqueue
  <2>2. PICK ids \in Seq(Txns) : ids = retry[r].ids
    BY <1>1 DEF RetryRequest
  <2>3. /\ UNCHANGED <<job, draining, submitting>> /\ retry[r].pc = "enqueue"
        /\ AddBulk(j, ids)
    BY <1>7, <2>1, <2>2 DEF RetryEnqueue, database
  <2>4. retry'[r].pc = "idle"
    BY <1>1, <1>7 DEF RetryEnqueue, NoRequest
  <2>5. ids # <<>> /\ j \notin submitting /\ job[j].totalChunks = ChunkCount(Len(ids))
    BY <1>1, <2>1, <2>2, <2>3 DEF RequestsAccounted
  <2>6. Unqueued(j) /\ ~Unqueued(j)'
    BY <1>0, <2>1, <2>3, <2>4, <2>5 DEF Unqueued
  <2>7. \A k \in Jobs : k # j => (Unqueued(k)' <=> Unqueued(k))
    BY <1>0, <2>1, <2>3, <2>4 DEF Unqueued
  <2>8. RequestsAccounted'
    BY <1>0, <1>1, <2>3, <2>4 DEF RequestsAccounted
  <2> QED
    BY <2>3, <2>5, <2>6, <2>7, <2>8, AddBulkAccounted
<1>8. CASE RetryEnqueueFails(r)
  BY <1>8 DEF RetryEnqueueFails, Calm
<1> QED
  BY <1>2, <1>4, <1>5, <1>6, <1>7, <1>8 DEF RetryStep

\* Before the first request there is nothing to account for.
LEMMA InitAccounted == Init => Accounted
<1> SUFFICES ASSUME Init PROVE Accounted
  OBVIOUS
<1>1. issued = 0 /\ 1..issued = {} /\ submitting = {}
  BY DEF Init
<1>2. \A j : Owed(j) = {} /\ ~Finalising(j)
  BY <1>1 DEF Owed, ChunksOf, Finalising
<1>3. \A r \in Retriers : retry[r].pc = "idle"
  BY DEF Init, NoRequest
<1>4. \A j : ~Unqueued(j)
  BY <1>1, <1>3 DEF Unqueued
<1>5. \A j \in Jobs : /\ job[j].status = "NONE" /\ job[j].completedChunks = 0
                      /\ job[j].totalChunks = 0
  BY DEF Init, NoRow
<1>6. ASSUME NEW j \in Jobs PROVE RowAccounted(j)
  <2>1. "NONE" \notin IN_FLIGHT \union Terminal
    BY DEF IN_FLIGHT, Terminal, RETRYABLE_STATUSES
  <2>2. Cardinality(Owed(j)) = 0
    BY <1>2, FS_EmptySet
  <2> QED
    BY <1>2, <1>4, <1>5, <2>1, <2>2 DEF RowAccounted
<1>7. RequestsAccounted
  BY <1>1, <1>3 DEF RequestsAccounted
<1>8. ~draining
  BY Zenon DEF Init
<1> QED
  BY <1>1, <1>6, <1>7, <1>8 DEF Accounted

\* A step that leaves the rows, the queue and the requests alone keeps the
\* books.
LEMMA BystanderAccounted ==
    ASSUME Accounted,
           UNCHANGED <<job, issued, queue, work, tallies, draining, submitting,
                       retry>>
    PROVE  Accounted'
<1>1. \A k : ChunksOf(k)' = ChunksOf(k) /\ Owed(k)' = Owed(k)
  BY DEF ChunksOf, Owed
<1>2. \A k : (Finalising(k)' <=> Finalising(k)) /\ (Unqueued(k)' <=> Unqueued(k))
  BY <1>1 DEF Finalising, Unqueued
<1>3. \A k \in Jobs : RowAccounted(k)'
  BY <1>1, <1>2, RowFrame DEF Accounted
<1>4. \A d \in 1..issued : ChunkAccounted(d)'
  BY ChunkFrame DEF Accounted
<1>5. \A d \in 1..issued : FinaliserAccounted(d)'
  BY <1>1 DEF Accounted, FinaliserAccounted, JobOf, FinalStatus
<1>6. RequestsAccounted'
  BY DEF Accounted, RequestsAccounted
<1>7. issued' = issued
  OBVIOUS
<1>8. ~draining'
  BY Zenon DEF Accounted
<1> QED
  BY <1>3, <1>4, <1>5, <1>6, <1>7, <1>8 DEF Accounted

\* Every step keeps the books.
LEMMA NextAccounted ==
    ASSUME Calm, TypeOK, Accounted, [Next]_vars
    PROVE  Accounted'
<1>1. ASSUME NEW c \in 1..issued, ChunkStep(c) PROVE Accounted'
  <2>1. CASE recordChunkResult(c)
    BY <2>1, RecordAccounted
  <2>2. CASE finalizeJob(c)
    BY <2>2, FinaliseAccounted
  <2>3. CASE RowFails(c) \/ BookkeepingFails(c)
    BY <2>3 DEF RowFails, BookkeepingFails, Calm
  <2>4. CASE StalledCheck(c)
    <3>1. queue[c].state = "stalled"
      BY <2>4 DEF StalledCheck
    <3>2. ChunkAccounted(c)
      BY DEF Accounted
    <3> QED
      BY <3>1, <3>2 DEF ChunkAccounted
  <2> QED
    BY <1>1, <2>1, <2>2, <2>3, <2>4, UnrecordedStepAccounted DEF ChunkStep
<1>2. CASE ApiStep
  <2>1. ASSUME NEW j \in Jobs, EnqueueJobFails(j) PROVE FALSE
    BY <2>1 DEF EnqueueJobFails, Calm
  <2> QED
    BY <1>2, <2>1, EnqueueAccounted, RetryAccounted DEF ApiStep
<1>3. CASE Exit
  <2>1. draining
    BY <1>3, Zenon DEF Exit
  <2>2. ~draining
    BY Zenon DEF Accounted
  <2> QED
    BY <2>1, <2>2, Zenon
<1>4. ASSUME NEW j \in Jobs, CreateJob(j) \/ \E r \in Retriers : RetryCheck(r, j)
      PROVE  Accounted'
  BY <1>4, CreateAccounted, RetryAccounted
<1>5. ASSUME NEW t \in Txns, Rescore(t) \/ softDeleteTransaction(t) PROVE Accounted'
  <2>1. UNCHANGED <<job, issued, queue, work, tallies, draining, submitting, retry>>
    BY <1>5 DEF Rescore, softDeleteTransaction, worker, requests
  <2> QED
    BY <2>1, BystanderAccounted
<1>6. CASE WorkerDies \/ Stop
  BY <1>6 DEF WorkerDies, Stop, Calm
<1>7. CASE UNCHANGED vars
  BY <1>7, BystanderAccounted DEF vars
<1> QED
  BY <1>1, <1>2, <1>3, <1>4, <1>5, <1>6, <1>7 DEF Next, WorkerStep, Outside

\* While nothing but the scorer fails and retries do not overlap, the queue,
\* the rows and the requests agree on what is still to be recorded.
THEOREM BooksBalance == ASSUME Calm PROVE Spec => []Accounted
<1>1. Init => Accounted
  BY InitAccounted
<1>2. TypeOK /\ Accounted /\ [Next]_vars => Accounted'
  BY NextAccounted
<1>3. Spec => []TypeOK
  BY TypeCorrect
<1> QED
  BY <1>1, <1>2, <1>3, PTL DEF Spec

\* What the books say of a job in flight and of a finished one.
LEMMA BooksMeanProgress ==
    ASSUME TypeOK, Accounted
    PROVE  NoStuckJob /\ FinalAfterLastChunk /\ StatusMatchesCounters
<1>1. ASSUME NEW j \in Jobs, job[j].status \in IN_FLIGHT
      PROVE  \/ Unqueued(j) \/ Finalising(j)
             \/ \E c \in Owed(j) : CanStillRecord(c)
  <2>1. SUFFICES ASSUME ~Unqueued(j), ~Finalising(j)
                 PROVE  \E c \in Owed(j) : CanStillRecord(c)
    OBVIOUS
  <2>2. RowAccounted(j)
    BY DEF Accounted
  <2>3. PICK c \in Owed(j) : TRUE
    BY <1>1, <2>1, <2>2 DEF RowAccounted
  <2>4. c \in 1..issued /\ tallies[c] = 0
    BY DEF Owed, ChunksOf
  <2>5. ChunkAccounted(c)
    BY <2>4 DEF Accounted
  <2>6. CanStillRecord(c)
    BY <2>4, <2>5 DEF ChunkAccounted, CanStillRecord, WorkPc
  <2> QED
    BY <2>6
<1>2. ASSUME NEW j \in Jobs, job[j].status \in Terminal
      PROVE  Owed(j) = {} /\ ~Unqueued(j) /\ job[j].status = FinalStatus(job[j])
  <2>1. RowAccounted(j) /\ job[j].status \notin IN_FLIGHT
    BY <1>2 DEF Accounted, Terminal, RETRYABLE_STATUSES, IN_FLIGHT
  <2>2. job[j].status # "QUEUED"
    BY <2>1 DEF IN_FLIGHT
  <2> QED
    BY <1>2, <2>1, <2>2 DEF RowAccounted
<1>3. NoStuckJob
  BY <1>1 DEF NoStuckJob
<1> QED
  BY <1>2, <1>3 DEF FinalAfterLastChunk, StatusMatchesCounters

\* No run counts more chunks than it has.
LEMMA BooksMeanOnce ==
    ASSUME TypeOK, Accounted
    PROVE  ChunksCountedOnce
<1> SUFFICES ASSUME NEW j \in Jobs
             PROVE  job[j].completedChunks <= job[j].totalChunks
  BY DEF ChunksCountedOnce
<1>1. RowAccounted(j)
  BY DEF Accounted
<1>2. job[j].completedChunks \in Nat /\ job[j].totalChunks \in Nat
  BY DEF TypeOK, JobRow
<1>3. CASE Unqueued(j)
  BY <1>1, <1>2, <1>3 DEF RowAccounted
<1>4. CASE ~Unqueued(j)
  BY <1>1, <1>2, <1>4, OwedIsFinite DEF RowAccounted
<1> QED
  BY <1>3, <1>4

\* A job in flight always has something left that moves it on.
THEOREM NoJobGetsStuck == ASSUME Calm PROVE Spec => []NoStuckJob
<1>1. TypeOK /\ Accounted => NoStuckJob
  BY BooksMeanProgress
<1> QED
  BY <1>1, BooksBalance, TypeCorrect, PTL

\* A job is final only after the last chunk of its last run.
THEOREM FinalMeansAllRecorded == ASSUME Calm PROVE Spec => []FinalAfterLastChunk
<1>1. TypeOK /\ Accounted => FinalAfterLastChunk
  BY BooksMeanProgress
<1> QED
  BY <1>1, BooksBalance, TypeCorrect, PTL

\* A final status agrees with the final counters, whoever decided it when.
THEOREM VerdictIsCurrent == ASSUME Calm PROVE Spec => []StatusMatchesCounters
<1>1. TypeOK /\ Accounted => StatusMatchesCounters
  BY BooksMeanProgress
<1> QED
  BY <1>1, BooksBalance, TypeCorrect, PTL

\* No chunk is counted twice within a run.
THEOREM CountedOnce == ASSUME Calm PROVE Spec => []ChunksCountedOnce
<1>1. TypeOK /\ Accounted => ChunksCountedOnce
  BY BooksMeanOnce
<1> QED
  BY <1>1, BooksBalance, TypeCorrect, PTL

-----------------------------------------------------------------------------
(* Sets of transactions, and lists of them.                                *)

LEMMA TxnSets ==
    ASSUME NEW T \in SUBSET Txns, NEW S \in SUBSET T
    PROVE  /\ IsFiniteSet(S) /\ Cardinality(S) \in Nat
           /\ IsFiniteSet(T) /\ Cardinality(T) \in Nat
           /\ Cardinality(S) <= Cardinality(T)
           /\ Cardinality(S) = Cardinality(T) => S = T
<1>1. IsFiniteSet(T)
    BY ConstantsAssumption, FS_Subset
<1>. QED BY <1>1, FS_Subset, FS_CardinalityType

LEMMA TxnUnion ==
    ASSUME NEW S \in SUBSET Txns, NEW T \in SUBSET Txns
    PROVE  /\ Cardinality(S \union T) <= Cardinality(S) + Cardinality(T)
           /\ S \intersect T = {} =>
                 Cardinality(S \union T) = Cardinality(S) + Cardinality(T)
<1>1. IsFiniteSet(S) /\ IsFiniteSet(T) /\ IsFiniteSet(S \intersect T)
    BY TxnSets
<1>2. /\ Cardinality(S) \in Nat /\ Cardinality(T) \in Nat /\ Cardinality(S \intersect T) \in Nat
      /\ S \intersect T = {} => Cardinality(S \intersect T) = 0
    BY <1>1, FS_CardinalityType, FS_EmptySet
<1>3. Cardinality(S \union T) = Cardinality(S) + Cardinality(T) - Cardinality(S \intersect T)
    BY <1>1, FS_Union
<1>. QED BY <1>2, <1>3

\* A list without repetitions is as long as its set is large.
LEMMA ListIsSet ==
    ASSUME NEW ids \in Seq(Txns)
    PROVE  /\ ToSet(ids) \in SUBSET Txns
           /\ \A t : t \in ToSet(ids) <=> \E i \in 1..Len(ids) : t = ids[i]
           /\ IsInjective(ids) => Cardinality(ToSet(ids)) = Len(ids)
<1>. DEFINE D == 1..Len(ids)
<1>1. /\ Len(ids) \in Nat /\ DOMAIN ids = D /\ ids \in [D -> Txns]
      /\ ToSet(ids) = {ids[i] : i \in D}
    BY DEF ToSet
<1>2. IsFiniteSet(D) /\ Cardinality(D) = Len(ids)
    BY <1>1, CardinalityUpTo
<1>. HIDE DEF D
<1>3. ids \in [D -> ToSet(ids)] /\ \A y \in ToSet(ids) : \E x \in D : ids[x] = y
    BY <1>1
<1>4. ids \in Surjection(D, ToSet(ids))
    BY <1>3 DEF Surjection
<1>5. IsInjective(ids) => ids \in Injection(D, ToSet(ids))
    BY <1>3 DEF Injection
<1>6. IsInjective(ids) => Cardinality(ToSet(ids)) = Len(ids)
    BY <1>2, <1>4, <1>5, FS_Surjection
<1>. QED BY <1>1, <1>6 DEF D

\* What SQL returns for a set lists its elements, each once.
LEMMA SqlIds ==
    ASSUME NEW S \in SUBSET Txns, NEW ids \in SetToSeqs(S)
    PROVE  ids \in Seq(Txns) /\ IsInjective(ids) /\ ToSet(ids) = S
<1>0. /\ IsFiniteSet(S) /\ Cardinality(S) \in Nat
      /\ ids \in [1..Cardinality(S) -> S]
      /\ \A i, j \in 1..Cardinality(S) : i # j => ids[i] # ids[j]
    BY TxnSets DEF SetToSeqs
<1>1. /\ IsFiniteSet(S) /\ Cardinality(S) \in Nat
      /\ ids \in [1..Cardinality(S) -> S] /\ IsInjective(ids)
    BY <1>0 DEF IsInjective
<1>2. ids \in Injection(1..Cardinality(S), S)
    BY <1>1 DEF Injection
<1>3. Cardinality(1..Cardinality(S)) = Cardinality(S)
    BY <1>1, CardinalityUpTo
<1>4. ids \in Surjection(1..Cardinality(S), S)
    BY <1>1, <1>2, <1>3, FS_Injection
<1>5. \A t \in S : \E i \in 1..Cardinality(S) : ids[i] = t
    BY <1>4 DEF Surjection
<1>6. ids \in Seq(Txns) /\ DOMAIN ids = 1..Cardinality(S)
    BY <1>1, IdsOfASet
<1>. QED BY <1>1, <1>5, <1>6 DEF ToSet

-----------------------------------------------------------------------------
(* The chunks of a list share it out.                                      *)

\* The i-th row of the k-th chunk is where it should be.
LEMMA ChunkAt ==
    ASSUME NEW ids \in Seq(Txns), NEW k \in 1..ChunkCount(Len(ids))
    PROVE  /\ chunk(ids, k) \in Seq(Txns)
           /\ \A i \in 1..Len(chunk(ids, k)) :
                 /\ i <= ChunkSize /\ (k - 1) * ChunkSize + i \in 1..Len(ids)
                 /\ chunk(ids, k)[i] = ids[(k - 1) * ChunkSize + i]
           /\ \A i \in 1..ChunkSize : (k - 1) * ChunkSize + i <= Len(ids)
                 => i \in 1..Len(chunk(ids, k))
<1>. DEFINE base == (k - 1) * ChunkSize
            end  == base + ChunkSize
            last == IF end < Len(ids) THEN end ELSE Len(ids)
<1>1. ChunkSize \in Nat \ {0} /\ Len(ids) \in Nat /\ k \in Nat \ {0}
    BY ConstantsAssumption, ChunkCountCovers
<1>2. base \in Nat /\ base + 1 <= Len(ids)
    BY <1>1, ChunkCountCovers
<1>. HIDE DEF base
<1>3. /\ last \in Nat /\ base + 1 <= last /\ last <= Len(ids) /\ last <= end
      /\ \A i \in 1..ChunkSize : base + i <= Len(ids) => base + i <= last
    BY <1>1, <1>2
<1>4. chunk(ids, k) = SubSeq(ids, base + 1, last)
  <2>1. base + 1 + ChunkSize - 1 = end
      BY <1>1, <1>2
  <2>. QED BY <2>1 DEF chunk, base
<1>. HIDE DEF last
<1>5. \A i \in (base + 1)..last : ids[i] \in Txns
    BY <1>2, <1>3
<1>6. /\ SubSeq(ids, base + 1, last) \in Seq(Txns)
      /\ Len(SubSeq(ids, base + 1, last)) = last - base
      /\ \A i \in 1..(last - base) : SubSeq(ids, base + 1, last)[i] = ids[base + i]
  <2>. DEFINE m == base + 1
  <2>1. m \in Int /\ last \in Int /\ m <= last /\ last - m + 1 = last - base
      BY <1>2, <1>3
  <2>2. \A i \in Int : m + i - 1 = base + i
      BY <1>2
  <2>3. \A i \in m..last : ids[i] \in Txns
      BY <1>5
  <2>. HIDE DEF m
  <2>4. /\ SubSeq(ids, m, last) \in Seq(Txns)
        /\ Len(SubSeq(ids, m, last)) = last - m + 1
        /\ \A i \in 1..(last - m + 1) : SubSeq(ids, m, last)[i] = ids[m + i - 1]
      BY <2>1, <2>3, SubSeqProperties
  <2>5. ASSUME NEW i \in 1..(last - base) PROVE SubSeq(ids, m, last)[i] = ids[base + i]
    <3>1. i \in 1..(last - m + 1) /\ i \in Int
        BY <2>1
    <3>2. m + i - 1 = base + i
        BY <2>2, <3>1
    <3>. QED BY <2>4, <3>1, <3>2
  <2>. QED BY <2>1, <2>4, <2>5 DEF m
<1>7. \A i \in 1..(last - base) : i <= ChunkSize /\ base + i \in 1..Len(ids)
    BY <1>1, <1>2, <1>3
<1>8. \A i \in 1..ChunkSize : base + i <= Len(ids) => i \in 1..(last - base)
    BY <1>1, <1>2, <1>3
<1>. QED BY <1>4, <1>6, <1>7, <1>8 DEF base

LEMMA ChunksShareOut ==
    ASSUME NEW ids \in Seq(Txns)
    PROVE  LET n == ChunkCount(Len(ids))
           IN  /\ \A k \in 1..n : ToSet(chunk(ids, k)) \subseteq ToSet(ids)
               /\ \A t \in ToSet(ids) : \E k \in 1..n : t \in ToSet(chunk(ids, k))
               /\ IsInjective(ids) =>
                     /\ \A k \in 1..n : IsInjective(chunk(ids, k))
                     /\ \A k, l \in 1..n : k # l =>
                           ToSet(chunk(ids, k)) \intersect ToSet(chunk(ids, l)) = {}
<1>. DEFINE n == ChunkCount(Len(ids))
            At(k, i) == (k - 1) * ChunkSize + i
<1>1. /\ ChunkSize \in Nat \ {0} /\ Len(ids) \in Nat /\ n \in Nat
      /\ Len(ids) <= n * ChunkSize
  <2>1. ChunkSize \in Nat \ {0} /\ Len(ids) \in Nat /\ n \in Nat
      BY ConstantsAssumption, ChunkCountCovers
  <2>2. Len(ids) + ChunkSize - 1 \in Nat /\ n = (Len(ids) + ChunkSize - 1) \div ChunkSize
      BY <2>1 DEF ChunkCount
  <2>. HIDE DEF n
  <2>3. Len(ids) + ChunkSize - 1 < n * ChunkSize + ChunkSize
      BY <2>1, <2>2, Division
  <2>4. n * ChunkSize \in Nat
      BY <2>1
  <2>. QED BY <2>1, <2>3, <2>4
<1>2. ASSUME NEW k \in 1..n, NEW l \in 1..n, k < l,
             NEW i \in 1..ChunkSize, NEW m \in 1..ChunkSize
      PROVE  At(k, i) < At(l, m)
  <2>1. k \in Nat /\ l - 1 \in Nat /\ k <= l - 1
      BY <1>1, <1>2
  <2>2. k * ChunkSize <= (l - 1) * ChunkSize
      BY <1>1, <2>1, TimesIsMonotone
  <2>3. (k - 1) * ChunkSize = k * ChunkSize - ChunkSize
      BY <1>1, <2>1
  <2>4. k * ChunkSize \in Nat /\ (l - 1) * ChunkSize \in Nat
      BY <1>1, <2>1
  <2>. QED BY <1>1, <2>2, <2>3, <2>4
<1>3. ASSUME NEW k \in 1..n PROVE ToSet(chunk(ids, k)) \subseteq ToSet(ids)
  <2>1. chunk(ids, k) \in Seq(Txns)
      BY ChunkAt
  <2>2. SUFFICES ASSUME NEW t \in ToSet(chunk(ids, k)) PROVE t \in ToSet(ids)
      OBVIOUS
  <2>3. PICK i \in 1..Len(chunk(ids, k)) : t = chunk(ids, k)[i]
      BY <2>1, ListIsSet
  <2>4. At(k, i) \in 1..Len(ids) /\ t = ids[At(k, i)]
      BY <2>3, ChunkAt
  <2>. HIDE DEF At
  <2>. QED BY <2>4, ListIsSet
<1>4. ASSUME NEW t \in ToSet(ids) PROVE \E k \in 1..n : t \in ToSet(chunk(ids, k))
  <2>1. PICK p \in 1..Len(ids) : t = ids[p]
      BY ListIsSet
  <2>. DEFINE q == (p - 1) \div ChunkSize
  <2>0. p - 1 \in Nat
      BY <1>1
  <2>2. q \in Nat /\ q * ChunkSize <= p - 1 /\ p - 1 < q * ChunkSize + ChunkSize
      BY <1>1, <2>0, Division
  <2>. HIDE DEF q, n
  <2>3. q < n
    <3>1. SUFFICES ASSUME n <= q PROVE FALSE
        BY <1>1, <2>2
    <3>2. n * ChunkSize <= q * ChunkSize
        BY <1>1, <2>2, <3>1, TimesIsMonotone
    <3>3. n * ChunkSize \in Nat /\ q * ChunkSize \in Nat
        BY <1>1, <2>2
    <3>. QED BY <1>1, <2>2, <3>2, <3>3
  <2>4. q * ChunkSize \in Nat
      BY <1>1, <2>2
  <2>. DEFINE i == p - q * ChunkSize
  <2>5. i \in 1..ChunkSize /\ q * ChunkSize + i = p
      BY <1>1, <2>2, <2>4
  <2>6. q + 1 \in 1..n /\ q + 1 - 1 = q
      BY <1>1, <2>2, <2>3
  <2>. HIDE DEF i
  <2>. DEFINE k == q + 1
  <2>7. k \in 1..ChunkCount(Len(ids)) /\ (k - 1) * ChunkSize + i = p /\ p <= Len(ids)
    <3>1. k \in 1..ChunkCount(Len(ids)) /\ k - 1 = q
        BY <1>1, <2>2, <2>6 DEF n
    <3>2. p <= Len(ids)
        BY <1>1, <2>1
    <3>. HIDE DEF k
    <3>. QED BY <2>5, <3>1, <3>2
  <2>. HIDE DEF k
  <2>8. chunk(ids, k) \in Seq(Txns) /\ i \in 1..Len(chunk(ids, k))
      BY <2>5, <2>7, ChunkAt
  <2>9. chunk(ids, k)[i] = ids[p]
      BY <2>7, <2>8, ChunkAt
  <2>. QED BY <2>1, <2>7, <2>8, <2>9, ListIsSet DEF n
<1>5. ASSUME IsInjective(ids), NEW k \in 1..n PROVE IsInjective(chunk(ids, k))
  <2>1. chunk(ids, k) \in Seq(Txns) /\ DOMAIN chunk(ids, k) = 1..Len(chunk(ids, k))
      BY ChunkAt
  <2>2. SUFFICES ASSUME NEW a \in 1..Len(chunk(ids, k)), NEW b \in 1..Len(chunk(ids, k)),
                        chunk(ids, k)[a] = chunk(ids, k)[b]
                 PROVE  a = b
      BY <2>1 DEF IsInjective
  <2>3. ids[At(k, a)] = ids[At(k, b)] /\ At(k, a) \in 1..Len(ids) /\ At(k, b) \in 1..Len(ids)
      BY <2>2, ChunkAt
  <2>4. At(k, a) = At(k, b)
    <3>. HIDE DEF At
    <3>. QED BY <1>5, <2>3 DEF IsInjective
  <2>5. a \in Nat /\ b \in Nat /\ (k - 1) * ChunkSize \in Nat
      BY <1>1, <2>1
  <2>. QED BY <2>4, <2>5
<1>6. ASSUME IsInjective(ids), NEW k \in 1..n, NEW l \in 1..n, k < l
      PROVE  ToSet(chunk(ids, k)) \intersect ToSet(chunk(ids, l)) = {}
  <2>1. SUFFICES ASSUME NEW t \in ToSet(chunk(ids, k)), t \in ToSet(chunk(ids, l)) PROVE FALSE
      OBVIOUS
  <2>2. chunk(ids, k) \in Seq(Txns) /\ chunk(ids, l) \in Seq(Txns)
      BY ChunkAt
  <2>3. PICK a \in 1..Len(chunk(ids, k)), b \in 1..Len(chunk(ids, l)) :
           t = chunk(ids, k)[a] /\ t = chunk(ids, l)[b]
      BY <2>1, <2>2, ListIsSet
  <2>4. /\ a \in 1..ChunkSize /\ b \in 1..ChunkSize /\ ids[At(k, a)] = ids[At(l, b)]
        /\ At(k, a) \in 1..Len(ids) /\ At(l, b) \in 1..Len(ids)
    <3>1. /\ a <= ChunkSize /\ At(k, a) \in 1..Len(ids) /\ t = ids[At(k, a)]
          /\ b <= ChunkSize /\ At(l, b) \in 1..Len(ids) /\ t = ids[At(l, b)]
        BY <2>3, ChunkAt
    <3>. HIDE DEF At
    <3>. QED BY <1>1, <2>2, <2>3, <3>1
  <2>5. At(k, a) < At(l, b)
      BY <1>2, <1>6, <2>4
  <2>6. At(k, a) = At(l, b)
    <3>. HIDE DEF At
    <3>. QED BY <1>6, <2>4 DEF IsInjective
  <2>. QED BY <2>4, <2>5, <2>6
<1>7. ASSUME IsInjective(ids), NEW k \in 1..n, NEW l \in 1..n, k # l
      PROVE  ToSet(chunk(ids, k)) \intersect ToSet(chunk(ids, l)) = {}
  <2>1. k \in Nat /\ l \in Nat
      BY <1>1
  <2>. QED BY <1>6, <1>7, <2>1
<1>. HIDE DEF n
<1>. QED BY <1>3, <1>4, <1>5, <1>7 DEF n

-----------------------------------------------------------------------------
(* The inductive reason for RowTellsTheTruth and RetryLeavesScoredAlone.   *)

\* No other writer takes a prediction away from the job that scored it: no
\* synchronous score, and no second job over the same transactions.
Undisturbed == "rescore" \notin Events /\ \A j, k \in Jobs : j = k

Roster(j) == ToSet(job[j].transactionIds)
Rows(c)   == ToSet(RowsOf(c))

\* The lists are sets, and the chunks still owed share no transaction.
RosterIsSet(j) == /\ IsInjective(job[j].transactionIds)
                  /\ job[j].status = "NONE" => job[j] = NoRow

ChunkIsSet(c) == IsInjective(RowsOf(c)) /\ Rows(c) \subseteq Roster(JobOf(c))

OwedApart(c, d) ==
    c # d /\ JobOf(c) = JobOf(d) /\ tallies[c] = 0 /\ tallies[d] = 0
       => Rows(c) \intersect Rows(d) = {}

RetryIsSet(r) ==
    retry[r].pc = "enqueue" => /\ IsInjective(retry[r].ids)
                               /\ ToSet(retry[r].ids) \subseteq Roster(retry[r].job)

\* What j's counters say of the transactions that are recorded: the first run's
\* books balance, no failure means none was lost, what is stored was counted,
\* and what was counted is still stored unless somebody else wrote over it.
Ledger(j) ==
    runs[j] = 0 =>
        job[j].processedCount + job[j].failedCount + Cardinality(Unrecorded(j))
        = Len(job[j].transactionIds)

NoneLost(j) ==
    job[j].failedCount = 0 =>
        \A t \in Roster(j) \ Unrecorded(j) : prediction[t] # Absent \/ t \in deleted

StoredIsCounted(j) ==
    Cardinality(ScoredBy(j, Txns \ (deleted \union Unrecorded(j)))) <= job[j].processedCount

CountedIsStored(j) ==
    Undisturbed => job[j].processedCount <= Cardinality(ScoredBy(j, Roster(j) \ Unrecorded(j)))

RowTrue(j) ==
    /\ ScoredBy(j, Txns) \subseteq Roster(j)
    /\ Ledger(j) /\ NoneLost(j) /\ StoredIsCounted(j) /\ CountedIsStored(j)

\* A retry's scan is still what the table holds.
ScanTrue(r) ==
    retry[r].pc = "reset" =>
       /\ \A t \in retry[r].done : prediction[t] # Absent
       /\ Undisturbed => retry[r].done = ScoredBy(retry[r].job, Roster(retry[r].job))

\* The same of the rows an attempt has been through, in the worker's memory.
InLoop == {"mark", "fetch", "lookup", "insert", "update"}

Seen(c) == IF work[c].pc = "tally" THEN Rows(c)
           ELSE {RowsOf(c)[i] : i \in 1..(work[c].next - 1)}

Progress(c) ==
    /\ work[c].pc \in InLoop => /\ work[c].next <= Len(RowsOf(c))
                                /\ work[c].processed + work[c].failed = work[c].next - 1
    /\ work[c].pc = "tally" => work[c].processed + work[c].failed = Len(RowsOf(c))

Tally(c) ==
    work[c].pc \in InLoop \union {"tally"} =>
        /\ work[c].failed = 0 => \A t \in Seen(c) : prediction[t] # Absent
        /\ Cardinality(ScoredBy(JobOf(c), Seen(c) \ deleted)) <= work[c].processed
        /\ Undisturbed => work[c].processed <= Cardinality(ScoredBy(JobOf(c), Seen(c)))

AtRow(c) ==
    /\ work[c].pc \in {"lookup", "insert", "update"} => TxnAt(c) \notin Unscorable
    /\ work[c].pc = "insert" => prediction[TxnAt(c)] # JobOf(c)

ChunkTrue(c) == Progress(c) /\ Tally(c) /\ AtRow(c)

Lists == /\ \A j \in Jobs : RosterIsSet(j)
         /\ \A c \in 1..issued : ChunkIsSet(c)
         /\ \A c, d \in 1..issued : OwedApart(c, d)
         /\ \A r \in Retriers : RetryIsSet(r)

Truthful ==
    /\ Lists
    /\ \A t \in Unscorable : prediction[t] = Absent
    /\ \A j \in Jobs : RowTrue(j)
    /\ \A r \in Retriers : ScanTrue(r)
    /\ \A c \in 1..issued : ChunkTrue(c)

\* What the lists range over.
LEMMA ListTypes ==
    ASSUME TypeOK
    PROVE  /\ \A j \in Jobs : /\ job[j] \in JobRow /\ job[j].transactionIds \in Seq(Txns)
                              /\ Roster(j) \in SUBSET Txns
           /\ \A c \in 1..issued : /\ queue[c] \in Chunk /\ work[c] \in Work
                                   /\ RowsOf(c) \in Seq(Txns) /\ RowsOf(c) # <<>>
                                   /\ Rows(c) \in SUBSET Txns /\ JobOf(c) \in Jobs
           /\ \A j : Unrecorded(j) \in SUBSET Txns
           /\ \A r \in Retriers : /\ retry[r].ids \in Seq(Txns)
                                  /\ retry[r].pc # "idle" => retry[r].job \in Jobs
<1>1. ASSUME NEW j \in Jobs
      PROVE  job[j] \in JobRow /\ job[j].transactionIds \in Seq(Txns)
    BY DEF TypeOK, JobRow
<1>2. ASSUME NEW c \in 1..issued
      PROVE  /\ queue[c] \in Chunk /\ work[c] \in Work
             /\ RowsOf(c) \in Seq(Txns) /\ RowsOf(c) # <<>> /\ JobOf(c) \in Jobs
    BY DEF TypeOK, Chunk, RowsOf, JobOf
<1>3. ASSUME NEW r \in Retriers
      PROVE  retry[r].ids \in Seq(Txns) /\ (retry[r].pc # "idle" => retry[r].job \in Jobs)
    BY DEF TypeOK, RetryRequest
<1>4. \A j : Unrecorded(j) \in SUBSET Txns
    BY DEF Unrecorded
<1>. QED BY <1>1, <1>2, <1>3, <1>4, ListIsSet DEF Roster, Rows

-----------------------------------------------------------------------------
(* Frames.                                                                 *)

\* What a step may do to the predictions, as far as job j's row is concerned.
FairToRow(j) ==
    /\ \A t \in Txns : prediction[t] # Absent => prediction'[t] # Absent
    /\ \A t \in Txns : prediction'[t] = j /\ prediction[t] # j
                          => t \in Unrecorded(j) /\ t \in Roster(j)
    /\ Undisturbed => \A t \in Txns : prediction[t] = j => prediction'[t] = j

\* The same, as far as an attempt at chunk c is concerned.
FairToChunk(c) ==
    /\ \A t \in Txns : prediction[t] # Absent => prediction'[t] # Absent
    /\ \A t \in Rows(c) : prediction'[t] = JobOf(c) => prediction[t] = JobOf(c)
    /\ Undisturbed => \A t \in Txns : prediction[t] = JobOf(c) => prediction'[t] = JobOf(c)

\* j's row is left alone, and so is what it does not count yet.
RowLeftAlone(j) ==
    /\ job'[j].transactionIds = job[j].transactionIds
    /\ job'[j].processedCount = job[j].processedCount
    /\ job'[j].failedCount = job[j].failedCount
    /\ runs'[j] = runs[j]
    /\ Unrecorded(j)' = Unrecorded(j)

LEMMA RowKeeps ==
    ASSUME TypeOK, NEW j \in Jobs, RowTrue(j), RowLeftAlone(j), FairToRow(j),
           deleted \subseteq deleted'
    PROVE  RowTrue(j)'
<1>1. /\ Unrecorded(j) \in SUBSET Txns /\ Roster(j) \in SUBSET Txns
      /\ job[j].processedCount \in Nat
    BY ListTypes DEF JobRow
<1>2. Roster(j)' = Roster(j) /\ Unrecorded(j)' = Unrecorded(j)
    BY DEF RowLeftAlone, Roster
<1>3. \A S : ScoredBy(j, S)' = {t \in S' : prediction'[t] = j}
    BY DEF ScoredBy
<1>. DEFINE U == Unrecorded(j)
            A == ScoredBy(j, Txns \ (deleted \union U))
            B == {t \in Txns \ (deleted' \union U) : prediction'[t] = j}
            C == ScoredBy(j, Roster(j) \ U)
            D == {t \in Roster(j) \ U : prediction'[t] = j}
<1>4. /\ B \subseteq A /\ A \in SUBSET Txns
      /\ Undisturbed => C \subseteq D
      /\ D \in SUBSET Txns
    BY <1>1 DEF FairToRow, ScoredBy
<1>5. /\ Cardinality(B) <= Cardinality(A) /\ Cardinality(A) \in Nat /\ Cardinality(B) \in Nat
      /\ Cardinality(D) \in Nat
      /\ Undisturbed => Cardinality(C) <= Cardinality(D) /\ Cardinality(C) \in Nat
    BY <1>4, TxnSets
<1>6. /\ A = ScoredBy(j, Txns \ (deleted \union Unrecorded(j)))
      /\ B = ScoredBy(j, Txns \ (deleted \union Unrecorded(j)))'
      /\ C = ScoredBy(j, Roster(j) \ Unrecorded(j))
      /\ D = ScoredBy(j, Roster(j) \ Unrecorded(j))'
    BY <1>2 DEF ScoredBy
<1>. HIDE DEF A, B, C, D, U
<1>7. (ScoredBy(j, Txns) \subseteq Roster(j))'
    BY <1>2 DEF RowTrue, FairToRow, ScoredBy
<1>8. Ledger(j)'
    BY DEF RowTrue, Ledger, RowLeftAlone
<1>9. NoneLost(j)'
    BY <1>1, <1>2 DEF RowTrue, NoneLost, RowLeftAlone, FairToRow
<1>10. StoredIsCounted(j)'
    BY <1>1, <1>5, <1>6 DEF RowTrue, StoredIsCounted, RowLeftAlone
<1>11. CountedIsStored(j)'
    BY <1>1, <1>5, <1>6 DEF RowTrue, CountedIsStored, RowLeftAlone
<1>. QED BY <1>7, <1>8, <1>9, <1>10, <1>11 DEF RowTrue

\* While an attempt is under way, the rows it has been through are rows of its
\* chunk.
LEMMA SeenIsSome ==
    ASSUME TypeOK, NEW c \in 1..issued, Progress(c), work[c].pc \in InLoop \union {"tally"}
    PROVE  Seen(c) \subseteq Rows(c) /\ Seen(c) \in SUBSET Txns
<1>1. /\ RowsOf(c) \in Seq(Txns) /\ Len(RowsOf(c)) \in Nat /\ Rows(c) \in SUBSET Txns
      /\ work[c].next \in Nat
      /\ work[c].pc # "tally" => work[c].next <= Len(RowsOf(c))
    BY ListTypes DEF Progress, Work
<1>2. \A i \in 1..Len(RowsOf(c)) : RowsOf(c)[i] \in Rows(c)
    BY <1>1, ListIsSet DEF Rows
<1>. QED BY <1>1, <1>2 DEF Seen

LEMMA ChunkKeeps ==
    ASSUME TypeOK, NEW c \in 1..issued, ChunkTrue(c), FairToChunk(c),
           work'[c] = work[c], RowsOf(c)' = RowsOf(c), JobOf(c)' = JobOf(c),
           deleted \subseteq deleted'
    PROVE  ChunkTrue(c)'
<1>1. Rows(c)' = Rows(c) /\ Seen(c)' = Seen(c) /\ TxnAt(c)' = TxnAt(c)
    BY DEF Rows, Seen, TxnAt
<1>2. Progress(c)'
    BY DEF ChunkTrue, Progress
<1>3. Tally(c)'
  <2>1. SUFFICES ASSUME work[c].pc \in InLoop \union {"tally"} PROVE Tally(c)'
      BY DEF Tally
  <2>2. Seen(c) \subseteq Rows(c) /\ Seen(c) \in SUBSET Txns
      BY <2>1, SeenIsSome DEF ChunkTrue
  <2>. DEFINE A == ScoredBy(JobOf(c), Seen(c) \ deleted)
              B == {t \in Seen(c) \ deleted' : prediction'[t] = JobOf(c)}
              C == ScoredBy(JobOf(c), Seen(c))
              D == {t \in Seen(c) : prediction'[t] = JobOf(c)}
  <2>3. /\ A \in SUBSET Txns /\ B \subseteq A /\ D \in SUBSET Txns
        /\ Undisturbed => C \subseteq D
      BY <2>2 DEF FairToChunk, ScoredBy
  <2>4. /\ Cardinality(A) \in Nat /\ Cardinality(B) \in Nat /\ Cardinality(B) <= Cardinality(A)
        /\ Cardinality(D) \in Nat
        /\ Undisturbed => Cardinality(C) <= Cardinality(D) /\ Cardinality(C) \in Nat
      BY <2>3, TxnSets
  <2>5. /\ A = ScoredBy(JobOf(c), Seen(c) \ deleted)
        /\ B = ScoredBy(JobOf(c), Seen(c) \ deleted)'
        /\ C = ScoredBy(JobOf(c), Seen(c))
        /\ D = ScoredBy(JobOf(c), Seen(c))'
      BY <1>1 DEF ScoredBy
  <2>. HIDE DEF A, B, C, D
  <2>6. work[c].processed \in Nat
      BY ListTypes DEF Work
  <2>7. work[c].failed = 0 => \A t \in Seen(c) : prediction'[t] # Absent
      BY <2>1, <2>2 DEF ChunkTrue, Tally, FairToChunk
  <2>8. Cardinality(B) <= work[c].processed
      BY <2>1, <2>4, <2>5, <2>6 DEF ChunkTrue, Tally
  <2>9. Undisturbed => work[c].processed <= Cardinality(D)
      BY <2>1, <2>4, <2>5, <2>6 DEF ChunkTrue, Tally
  <2>. QED BY <1>1, <2>5, <2>7, <2>8, <2>9 DEF Tally
<1>4. AtRow(c)'
  <2>1. SUFFICES ASSUME work[c].pc = "insert" PROVE prediction'[TxnAt(c)] # JobOf(c)
      BY <1>1 DEF ChunkTrue, AtRow
  <2>2. /\ RowsOf(c) \in Seq(Txns) /\ Len(RowsOf(c)) \in Nat
        /\ work[c].next \in 1..Len(RowsOf(c))
      BY <2>1, ListTypes DEF ChunkTrue, Progress, InLoop, Work
  <2>3. TxnAt(c) \in Rows(c)
      BY <2>2, ListIsSet DEF TxnAt, Rows
  <2>. QED BY <2>1, <2>3 DEF ChunkTrue, AtRow, FairToChunk
<1>. QED BY <1>2, <1>3, <1>4 DEF ChunkTrue

\* An attempt that is under way has not been recorded.
LEMMA UnderWayIsOwed ==
    ASSUME TypeOK, Accounted, NEW c \in 1..issued, work[c].pc \in InLoop \union {"tally"}
    PROVE  tallies[c] = 0 /\ c \in Owed(JobOf(c))
<1>1. ChunkAccounted(c)
    BY DEF Accounted
<1>2. tallies[c] = 0
    BY <1>1 DEF ChunkAccounted, InLoop
<1>. QED BY <1>2 DEF Owed, ChunksOf, JobOf

\* A finished job owes nothing and has nothing left to enqueue.
LEMMA FinalOwesNothing ==
    ASSUME TypeOK, Accounted, NEW j \in Jobs, job[j].status \in Terminal \union {"NONE"}
    PROVE  Owed(j) = {} /\ ~Unqueued(j) /\ ~Finalising(j) /\ Unrecorded(j) = {}
<1>1. RowAccounted(j) /\ job[j].status \notin IN_FLIGHT
    BY DEF Accounted, Terminal, RETRYABLE_STATUSES, IN_FLIGHT
<1>2. job[j].status # "QUEUED"
    BY <1>1 DEF IN_FLIGHT
<1>3. Owed(j) = {} /\ ~Unqueued(j) /\ ~Finalising(j)
    BY <1>1, <1>2 DEF RowAccounted
<1>. QED BY <1>3 DEF Unrecorded, Unqueued

\* The predictions a step may write: a synchronous score, or a row of the one
\* chunk the step belongs to.
Writes(c) ==
    \A t \in Txns : prediction'[t] # prediction[t] =>
        /\ t \notin Unscorable
        /\ \/ prediction'[t] = NoJob /\ ~Undisturbed
           \/ /\ c \in 1..issued /\ tallies[c] = 0 /\ t \in Rows(c)
              /\ prediction'[t] = JobOf(c)

\* The step changes at most the status of j's row.
StatusOnly(j) ==
    /\ job'[j].transactionIds = job[j].transactionIds
    /\ job'[j].processedCount = job[j].processedCount
    /\ job'[j].failedCount = job[j].failedCount
    /\ job'[j] = job[j] \/ job'[j].status # "NONE"

SameChunk(d) == RowsOf(d)' = RowsOf(d) /\ JobOf(d)' = JobOf(d)

\* A step of chunk c's attempt, or of nobody's, that records nothing and keeps
\* the books of its own chunk keeps them all.
LEMMA LoopKeeps ==
    ASSUME TypeOK, Accounted, Truthful, NEW c,
           UNCHANGED <<issued, tallies, submitting, retry, runs>>,
           \A d \in 1..issued : SameChunk(d),
           \A d \in 1..issued : d # c => work'[d] = work[d],
           \A j \in Jobs : StatusOnly(j),
           deleted \subseteq deleted',
           Writes(c),
           c \in 1..issued => ChunkTrue(c)'
    PROVE  Truthful'
<1>1. /\ \A d \in 1..issued : Rows(d)' = Rows(d) /\ JobOf(d)' = JobOf(d)
      /\ \A j \in Jobs : Roster(j)' = Roster(j)
    BY DEF SameChunk, StatusOnly, Rows, Roster
<1>2. \A d \in 1..issued : queue'[d].batchJobId = queue[d].batchJobId
    BY DEF SameChunk, JobOf
<1>3. \A j : Owed(j)' = Owed(j)
    BY <1>2, OwedFrame
<1>4. \A j \in Jobs : Unrecorded(j)' = Unrecorded(j)
  <2>1. SUFFICES ASSUME NEW j \in Jobs PROVE Unrecorded(j)' = Unrecorded(j)
      OBVIOUS
  <2>2. \A d \in Owed(j) : d \in 1..issued
      BY DEF Owed, ChunksOf
  <2>3. ToSet(job'[j].transactionIds) = ToSet(job[j].transactionIds)
      BY DEF StatusOnly
  <2>4. \A d \in Owed(j) : ToSet(RowsOf(d)') = ToSet(RowsOf(d))
      BY <2>2 DEF SameChunk
  <2>. QED BY <1>3, <2>3, <2>4 DEF Unrecorded
<1>5. /\ \A t \in Txns : prediction[t] # Absent => prediction'[t] # Absent
      /\ \A t \in Unscorable : prediction'[t] = Absent
    BY ListTypes, ConstantsAssumption DEF Writes, Truthful
<1>6. ASSUME NEW t \in Txns, NEW j \in Jobs, prediction'[t] = j, prediction[t] # j
      PROVE  c \in 1..issued /\ t \in Rows(c) /\ JobOf(c) = j /\ c \in Owed(j)
  <2>1. j # NoJob
      BY ConstantsAssumption
  <2>2. c \in 1..issued /\ t \in Rows(c) /\ JobOf(c) = j /\ tallies[c] = 0
      BY <1>6, <2>1 DEF Writes
  <2>. QED BY <2>2 DEF Owed, ChunksOf, JobOf
<1>7. ASSUME Undisturbed, NEW t \in Txns, NEW j \in Jobs, prediction[t] = j
      PROVE  prediction'[t] = j
    BY <1>7, ListTypes DEF Writes, Undisturbed
<1>8. Lists'
  <2>1. ASSUME NEW j \in Jobs PROVE RosterIsSet(j)'
    <3>1. RosterIsSet(j)
        BY DEF Truthful, Lists
    <3>. QED BY <3>1 DEF RosterIsSet, StatusOnly
  <2>2. ASSUME NEW d \in 1..issued PROVE ChunkIsSet(d)'
    <3>1. ChunkIsSet(d)
        BY DEF Truthful, Lists
    <3>2. JobOf(d) \in Jobs
        BY ListTypes
    <3>. QED BY <1>1, <3>1, <3>2 DEF ChunkIsSet, SameChunk
  <2>3. ASSUME NEW d \in 1..issued, NEW e \in 1..issued PROVE OwedApart(d, e)'
      BY <1>1 DEF OwedApart, Truthful, Lists
  <2>4. ASSUME NEW r \in Retriers PROVE RetryIsSet(r)'
    <3>1. RetryIsSet(r) /\ (retry[r].pc # "idle" => retry[r].job \in Jobs)
        BY ListTypes DEF Truthful, Lists
    <3>. QED BY <1>1, <3>1 DEF RetryIsSet
  <2>. QED BY <2>1, <2>2, <2>3, <2>4 DEF Lists
<1>9. ASSUME NEW j \in Jobs PROVE RowTrue(j)'
  <2>1. RowTrue(j) /\ RowLeftAlone(j)
      BY <1>4 DEF Truthful, RowLeftAlone, StatusOnly
  <2>2. ASSUME NEW t \in Txns, prediction'[t] = j, prediction[t] # j
        PROVE  t \in Unrecorded(j) /\ t \in Roster(j)
    <3>1. c \in 1..issued /\ t \in Rows(c) /\ JobOf(c) = j /\ c \in Owed(j)
        BY <1>6, <2>2
    <3>2. Rows(c) \subseteq Roster(j)
        BY <3>1 DEF Truthful, Lists, ChunkIsSet
    <3>. QED BY <3>1, <3>2 DEF Unrecorded, Rows
  <2>3. FairToRow(j)
      BY <1>5, <1>7, <2>2 DEF FairToRow
  <2>. QED BY <2>1, <2>3, RowKeeps
<1>10. ASSUME NEW r \in Retriers PROVE ScanTrue(r)'
  <2>1. SUFFICES ASSUME retry[r].pc = "reset" PROVE ScanTrue(r)'
      BY DEF ScanTrue
  <2>2. retry[r].job \in Jobs /\ retry[r].done \in SUBSET Txns /\ ScanTrue(r)
      BY <2>1, ListTypes DEF TypeOK, RetryRequest, Truthful
  <2>3. PICK j \in Jobs : j = retry[r].job
      BY <2>2
  <2>4. job[j].status \in RETRYABLE_STATUSES
      BY <2>1, <2>3 DEF Accounted, RequestsAccounted
  <2>5. Owed(j) = {}
      BY <2>4, FinalOwesNothing DEF Terminal
  <2>6. ASSUME Undisturbed PROVE ScoredBy(j, Roster(j))' = ScoredBy(j, Roster(j))
    <3>1. Roster(j)' = Roster(j) /\ Roster(j) \in SUBSET Txns
        BY <1>1, ListTypes
    <3>2. \A t \in Txns : prediction'[t] = j <=> prediction[t] = j
        BY <1>6, <1>7, <2>5, <2>6
    <3>. QED BY <3>1, <3>2 DEF ScoredBy
  <2>7. /\ \A t \in retry'[r].done : prediction'[t] # Absent
        /\ retry'[r].job = j /\ retry[r].job = j
      BY <1>5, <2>1, <2>2, <2>3 DEF ScanTrue
  <2>8. Undisturbed => retry'[r].done = ScoredBy(j, Roster(j))'
      BY <2>1, <2>2, <2>6, <2>7 DEF ScanTrue
  <2>9. ScoredBy(retry[r].job, Roster(retry[r].job))' = ScoredBy(j, Roster(j))'
      BY <2>7 DEF ScoredBy, Roster
  <2>. QED BY <2>7, <2>8, <2>9 DEF ScanTrue, Undisturbed
<1>11. ASSUME NEW d \in 1..issued PROVE ChunkTrue(d)'
  <2>1. CASE d = c
      BY <2>1
  <2>2. CASE d # c /\ work[d].pc \notin InLoop \union {"tally"}
      BY <2>2 DEF ChunkTrue, Progress, Tally, AtRow, InLoop
  <2>3. CASE d # c /\ work[d].pc \in InLoop \union {"tally"}
    <3>1. tallies[d] = 0
        BY <2>3, UnderWayIsOwed
    <3>2. ASSUME NEW t \in Rows(d), prediction'[t] = JobOf(d), prediction[t] # JobOf(d)
          PROVE  FALSE
      <4>1. t \in Txns /\ JobOf(d) \in Jobs
          BY ListTypes
      <4>2. c \in 1..issued /\ t \in Rows(c) /\ JobOf(c) = JobOf(d) /\ c \in Owed(JobOf(d))
          BY <1>6, <3>2, <4>1
      <4>3. tallies[c] = 0 /\ OwedApart(c, d)
          BY <4>2 DEF Owed, Truthful, Lists
      <4>. QED BY <2>3, <3>1, <4>2, <4>3 DEF OwedApart
    <3>3. FairToChunk(d)
        BY <1>5, <1>7, <3>2, ListTypes DEF FairToChunk
    <3>4. ChunkTrue(d) /\ SameChunk(d) /\ work'[d] = work[d]
        BY <2>3 DEF Truthful
    <3>. QED BY <3>3, <3>4, ChunkKeeps DEF SameChunk
  <2>. QED BY <2>1, <2>2, <2>3
<1>12. issued' = issued
    OBVIOUS
<1>. QED BY <1>5, <1>8, <1>9, <1>10, <1>11, <1>12 DEF Truthful

-----------------------------------------------------------------------------
(* The loop over a chunk's rows.                                           *)

\* The row the loop is at is one of the chunk's, and not yet seen.
LEMMA RowIsNew ==
    ASSUME TypeOK, Truthful, NEW c \in 1..issued, work[c].pc \in InLoop
    PROVE  /\ work[c].next \in 1..Len(RowsOf(c)) /\ Len(RowsOf(c)) \in Nat
           /\ TxnAt(c) \in Rows(c) /\ TxnAt(c) \in Txns /\ TxnAt(c) \notin Seen(c)
           /\ Seen(c) = {RowsOf(c)[i] : i \in 1..(work[c].next - 1)}
<1>1. /\ RowsOf(c) \in Seq(Txns) /\ Len(RowsOf(c)) \in Nat /\ Rows(c) \in SUBSET Txns
      /\ work[c].next \in Nat \ {0}
    BY ListTypes DEF Work
<1>2. work[c].next <= Len(RowsOf(c)) /\ IsInjective(RowsOf(c))
    BY DEF Truthful, Lists, ChunkIsSet, ChunkTrue, Progress
<1>3. TxnAt(c) \in Rows(c)
    BY <1>1, <1>2, ListIsSet DEF TxnAt, Rows
<1>4. Seen(c) = {RowsOf(c)[i] : i \in 1..(work[c].next - 1)}
    BY DEF Seen, InLoop
<1>5. TxnAt(c) \notin Seen(c)
    BY <1>1, <1>2, <1>4 DEF TxnAt, IsInjective
<1>. QED BY <1>1, <1>2, <1>3, <1>4, <1>5

\* What counting a row does to the worker's memory.
LEMMA CountRowEffect ==
    ASSUME TypeOK, Truthful, NEW c \in 1..issued, work[c].pc \in InLoop,
           NEW ok \in BOOLEAN, CountRow(c, ok), SameChunk(c)
    PROVE  /\ work'[c].pc \in {"fetch", "tally"}
           /\ \A d \in 1..issued : d # c => work'[d] = work[d]
           /\ work'[c].processed = IF ok THEN work[c].processed + 1 ELSE work[c].processed
           /\ work'[c].failed = IF ok THEN work[c].failed ELSE work[c].failed + 1
           /\ Seen(c)' = Seen(c) \union {TxnAt(c)}
           /\ Progress(c)'
<1>1. /\ work[c] \in Work /\ work \in [1..issued -> Work]
      /\ work[c].next \in Nat /\ work[c].processed \in Nat /\ work[c].failed \in Nat
    BY ListTypes DEF TypeOK, Work
<1>2. /\ work'[c].pc = NextRow(c) /\ work'[c].next = work[c].next + 1
      /\ \A d \in 1..issued : d # c => work'[d] = work[d]
      /\ work'[c].processed = IF ok THEN work[c].processed + 1 ELSE work[c].processed
      /\ work'[c].failed = IF ok THEN work[c].failed ELSE work[c].failed + 1
    BY <1>1 DEF CountRow, Work
<1>3. /\ work[c].next \in 1..Len(RowsOf(c)) /\ Len(RowsOf(c)) \in Nat
      /\ Seen(c) = {RowsOf(c)[i] : i \in 1..(work[c].next - 1)}
    BY RowIsNew
<1>4. work[c].processed + work[c].failed = work[c].next - 1
    BY DEF Truthful, ChunkTrue, Progress
<1>5. {RowsOf(c)[i] : i \in 1..work[c].next} = Seen(c) \union {TxnAt(c)}
  <2>1. 1..work[c].next = (1..(work[c].next - 1)) \union {work[c].next}
      BY <1>3
  <2>. QED BY <1>3, <2>1 DEF TxnAt
<1>6. work'[c].processed + work'[c].failed = work[c].next
    BY <1>1, <1>2, <1>4
<1>7. CASE work[c].next < Len(RowsOf(c))
  <2>1. work'[c].pc = "fetch" /\ RowsOf(c)' = RowsOf(c)
      BY <1>2, <1>7 DEF NextRow, SameChunk
  <2>2. Seen(c)' = {RowsOf(c)[i] : i \in 1..work[c].next}
    <3>1. work'[c].next - 1 = work[c].next
        BY <1>1, <1>2
    <3>. QED BY <2>1, <3>1 DEF Seen
  <2>3. Progress(c)'
      BY <1>1, <1>2, <1>3, <1>6, <1>7, <2>1 DEF Progress
  <2>. QED BY <1>2, <1>5, <2>1, <2>2, <2>3
<1>8. CASE ~(work[c].next < Len(RowsOf(c)))
  <2>1. work'[c].pc = "tally" /\ RowsOf(c)' = RowsOf(c) /\ work[c].next = Len(RowsOf(c))
      BY <1>2, <1>3, <1>8 DEF NextRow, SameChunk
  <2>2. Seen(c)' = {RowsOf(c)[i] : i \in 1..work[c].next}
    <3>1. Seen(c)' = ToSet(RowsOf(c)) /\ DOMAIN RowsOf(c) = 1..Len(RowsOf(c))
        BY <2>1, ListTypes DEF Seen, Rows
    <3>. QED BY <2>1, <3>1 DEF ToSet
  <2>3. Progress(c)'
      BY <1>6, <2>1 DEF Progress, InLoop
  <2>. QED BY <1>2, <1>5, <2>1, <2>2, <2>3
<1>. QED BY <1>7, <1>8

\* A row counted failed has no prediction of the job, or is deleted.
LEMMA CountFailedKeeps ==
    ASSUME TypeOK, Truthful, NEW c \in 1..issued, work[c].pc \in InLoop,
           CountRow(c, FALSE), SameChunk(c), UNCHANGED <<prediction, deleted>>,
           TxnAt(c) \in deleted \/ prediction[TxnAt(c)] # JobOf(c)
    PROVE  ChunkTrue(c)'
<1>1. /\ work'[c].pc \in {"fetch", "tally"}
      /\ work'[c].processed = work[c].processed /\ work'[c].failed = work[c].failed + 1
      /\ Seen(c)' = Seen(c) \union {TxnAt(c)} /\ Progress(c)'
    BY CountRowEffect, FALSE \in BOOLEAN, Zenon
<1>2. /\ Tally(c) /\ Seen(c) \in SUBSET Txns /\ TxnAt(c) \in Txns
      /\ work[c].failed \in Nat /\ work[c].processed \in Nat
    BY RowIsNew, SeenIsSome, ListTypes DEF Truthful, ChunkTrue, Work
<1>3. work'[c].failed # 0
    BY <1>1, <1>2
<1>4. ScoredBy(JobOf(c), Seen(c) \ deleted)' = ScoredBy(JobOf(c), Seen(c) \ deleted)
    BY <1>1 DEF ScoredBy, SameChunk
<1>5. Undisturbed => work[c].processed <= Cardinality(ScoredBy(JobOf(c), Seen(c)))'
  <2>. DEFINE C == ScoredBy(JobOf(c), Seen(c))
              D == {t \in Seen(c) \union {TxnAt(c)} : prediction[t] = JobOf(c)}
  <2>1. C \subseteq D /\ D \in SUBSET Txns
      BY <1>2 DEF ScoredBy
  <2>2. Cardinality(C) \in Nat /\ Cardinality(D) \in Nat /\ Cardinality(C) <= Cardinality(D)
      BY <2>1, TxnSets
  <2>3. D = ScoredBy(JobOf(c), Seen(c))'
      BY <1>1 DEF ScoredBy, SameChunk
  <2>4. C = ScoredBy(JobOf(c), Seen(c))
      OBVIOUS
  <2>. HIDE DEF C, D
  <2>. QED BY <1>2, <2>2, <2>3, <2>4 DEF Tally
<1>6. Tally(c)'
    BY <1>1, <1>2, <1>3, <1>4, <1>5 DEF Tally, Undisturbed
<1>7. AtRow(c)'
    BY <1>1 DEF AtRow
<1>. QED BY <1>1, <1>6, <1>7 DEF ChunkTrue

\* A row counted processed has its prediction.
LEMMA CountScoredKeeps ==
    ASSUME TypeOK, Truthful, NEW c \in 1..issued, work[c].pc \in InLoop,
           CountRow(c, TRUE), SameChunk(c), deleted' = deleted,
           prediction' = [prediction EXCEPT ![TxnAt(c)] = JobOf(c)]
    PROVE  ChunkTrue(c)'
<1>1. /\ work'[c].pc \in {"fetch", "tally"}
      /\ work'[c].processed = work[c].processed + 1 /\ work'[c].failed = work[c].failed
      /\ Seen(c)' = Seen(c) \union {TxnAt(c)} /\ Progress(c)'
    BY CountRowEffect, TRUE \in BOOLEAN, Zenon
<1>2. /\ Tally(c) /\ Seen(c) \in SUBSET Txns /\ TxnAt(c) \in Txns /\ TxnAt(c) \notin Seen(c)
      /\ work[c].failed \in Nat /\ work[c].processed \in Nat /\ JobOf(c) \in Jobs
    BY RowIsNew, SeenIsSome, ListTypes DEF Truthful, ChunkTrue, Work
<1>3. /\ prediction'[TxnAt(c)] = JobOf(c)
      /\ \A t \in Txns : t # TxnAt(c) => prediction'[t] = prediction[t]
      /\ JobOf(c) # Absent
    BY <1>2, ConstantsAssumption DEF TypeOK
<1>. DEFINE one == {TxnAt(c)}
            A == ScoredBy(JobOf(c), Seen(c) \ deleted)
            B == {t \in (Seen(c) \union one) \ deleted : prediction'[t] = JobOf(c)}
            C == ScoredBy(JobOf(c), Seen(c))
            D == {t \in Seen(c) \union one : prediction'[t] = JobOf(c)}
<1>4. /\ A \in SUBSET Txns /\ one \in SUBSET Txns /\ C \in SUBSET Txns
      /\ B \subseteq A \union one /\ D = C \union one /\ C \intersect one = {}
    BY <1>2, <1>3 DEF ScoredBy
<1>5. /\ B = ScoredBy(JobOf(c), Seen(c) \ deleted)'
      /\ D = ScoredBy(JobOf(c), Seen(c))'
      /\ A = ScoredBy(JobOf(c), Seen(c) \ deleted)
      /\ C = ScoredBy(JobOf(c), Seen(c))
    BY <1>1 DEF ScoredBy, SameChunk
<1>6. Cardinality(one) = 1
    BY FS_Singleton
<1>. HIDE DEF one, A, B, C, D
<1>7. /\ Cardinality(A \union one) <= Cardinality(A) + 1
      /\ Cardinality(C \union one) = Cardinality(C) + 1
    BY <1>4, <1>6, TxnUnion
<1>8. /\ Cardinality(A) \in Nat /\ Cardinality(B) \in Nat /\ Cardinality(C) \in Nat
      /\ Cardinality(A \union one) \in Nat /\ Cardinality(B) <= Cardinality(A \union one)
  <2>1. A \union one \in SUBSET Txns
      BY <1>4
  <2>. QED BY <1>4, <2>1, TxnSets
<1>9. work[c].failed = 0 => \A t \in Seen(c) \union {TxnAt(c)} : prediction'[t] # Absent
    BY <1>2, <1>3 DEF Tally
<1>10. Cardinality(B) <= work[c].processed + 1
    BY <1>2, <1>5, <1>7, <1>8 DEF Tally
<1>11. Undisturbed => work[c].processed + 1 <= Cardinality(D)
    BY <1>2, <1>4, <1>5, <1>7, <1>8 DEF Tally
<1>12. Tally(c)'
    BY <1>1, <1>5, <1>9, <1>10, <1>11 DEF Tally, Undisturbed
<1>13. AtRow(c)'
    BY <1>1 DEF AtRow
<1>. QED BY <1>1, <1>12, <1>13 DEF ChunkTrue

\* The loop moves on within a row.
LEMMA SameRowKeeps ==
    ASSUME TypeOK, Truthful, NEW c \in 1..issued,
           work[c].pc \in InLoop, work'[c].pc \in InLoop,
           work'[c].next = work[c].next, work'[c].processed = work[c].processed,
           work'[c].failed = work[c].failed, SameChunk(c),
           UNCHANGED <<prediction, deleted>>, AtRow(c)'
    PROVE  ChunkTrue(c)'
<1>1. /\ work[c].pc # "tally" /\ work'[c].pc # "tally"
      /\ Progress(c) /\ Tally(c)
    BY DEF InLoop, Truthful, ChunkTrue
<1>2. Seen(c)' = Seen(c)
    BY <1>1 DEF Seen, SameChunk
<1>3. Progress(c)'
    BY <1>1 DEF Progress, SameChunk
<1>4. /\ ScoredBy(JobOf(c), Seen(c) \ deleted)' = ScoredBy(JobOf(c), Seen(c) \ deleted)
      /\ ScoredBy(JobOf(c), Seen(c))' = ScoredBy(JobOf(c), Seen(c))
    BY <1>2 DEF ScoredBy, SameChunk
<1>5. Tally(c)'
    BY <1>1, <1>2, <1>4 DEF Tally, Undisturbed
<1>. QED BY <1>3, <1>5 DEF ChunkTrue

\* An attempt starts with nothing seen.
LEMMA FreshAttemptIsTrue ==
    ASSUME TypeOK, NEW c \in 1..issued, SameChunk(c),
           work'[c] = [Idle EXCEPT !.pc = "mark"]
    PROVE  ChunkTrue(c)'
<1>1. work'[c].pc = "mark" /\ work'[c].next = 1 /\ work'[c].processed = 0 /\ work'[c].failed = 0
    BY DEF Idle
<1>2. Len(RowsOf(c)') \in Nat \ {0}
    BY ListTypes DEF SameChunk
<1>3. Seen(c)' = {}
  <2>1. 1..(work'[c].next - 1) = {}
      BY <1>1
  <2>. QED BY <1>1, <2>1 DEF Seen
<1>4. ScoredBy(JobOf(c), Seen(c) \ deleted)' = {} /\ ScoredBy(JobOf(c), Seen(c))' = {}
    BY <1>3 DEF ScoredBy
<1>5. Progress(c)'
    BY <1>1, <1>2 DEF Progress
<1>6. Tally(c)'
    BY <1>1, <1>3, <1>4, FS_EmptySet DEF Tally
<1>7. AtRow(c)'
    BY <1>1 DEF AtRow
<1>. QED BY <1>5, <1>6, <1>7 DEF ChunkTrue

\* What the 'failed' listener counts is what landed.
LEMMA SalvageIsTrue ==
    ASSUME TypeOK, Truthful, NEW c \in 1..issued, countScored(c)
    PROVE  ChunkTrue(c)'
<1>. DEFINE scored == Salvaged(c)
<1>1. /\ UNCHANGED <<queue, prediction, deleted>>
      /\ work' = [work EXCEPT ![c] = [Idle EXCEPT !.pc = "tally", !.processed = scored,
                                                  !.failed = Len(RowsOf(c)) - scored]]
    BY DEF countScored, database
<1>. HIDE DEF scored
<1>2. /\ work'[c].pc = "tally" /\ work'[c].processed = scored
      /\ work'[c].failed = Len(RowsOf(c)) - scored
    BY <1>1 DEF TypeOK, Idle
<1>3. /\ SameChunk(c) /\ RowsOf(c)' = RowsOf(c) /\ JobOf(c)' = JobOf(c) /\ Seen(c)' = Rows(c)
    BY <1>1, <1>2 DEF SameChunk, RowsOf, JobOf, Seen, Rows
<1>4. /\ RowsOf(c) \in Seq(Txns) /\ Rows(c) \in SUBSET Txns /\ JobOf(c) \in Jobs
      /\ Cardinality(Rows(c)) = Len(RowsOf(c)) /\ Len(RowsOf(c)) \in Nat
    BY ListTypes, ListIsSet DEF Truthful, Lists, ChunkIsSet, Rows
<1>. DEFINE C == ScoredBy(JobOf(c), Rows(c))
            A == ScoredBy(JobOf(c), Rows(c) \ deleted)
<1>5. /\ C \in SUBSET Rows(c) /\ A \in SUBSET C /\ C \in SUBSET Txns
      /\ \A t \in C : prediction[t] = JobOf(c)
    BY <1>4 DEF ScoredBy
<1>6. /\ scored = Cardinality(C)
      /\ C = ScoredBy(JobOf(c), Seen(c))' /\ A = ScoredBy(JobOf(c), Seen(c) \ deleted)'
    BY <1>1, <1>3 DEF scored, Salvaged, ScoredBy, Rows
<1>. HIDE DEF A, C
<1>7. /\ scored \in Nat /\ Cardinality(A) \in Nat /\ Cardinality(A) <= scored
      /\ scored = Len(RowsOf(c)) => C = Rows(c)
    BY <1>4, <1>5, <1>6, TxnSets
<1>8. Progress(c)'
    BY <1>2, <1>3, <1>4, <1>7 DEF Progress, InLoop
<1>9. work'[c].failed = 0 => \A t \in Seen(c)' : prediction'[t] # Absent
  <2>1. SUFFICES ASSUME work'[c].failed = 0 PROVE \A t \in Rows(c) : prediction[t] # Absent
      BY <1>1, <1>3
  <2>2. C = Rows(c)
      BY <1>2, <1>4, <1>7, <2>1
  <2>. QED BY <1>4, <1>5, <2>2, ConstantsAssumption
<1>10. Tally(c)'
    BY <1>2, <1>6, <1>7, <1>9 DEF Tally
<1>11. AtRow(c)'
    BY <1>2 DEF AtRow
<1>. QED BY <1>8, <1>10, <1>11 DEF ChunkTrue

\* Outside an attempt there is nothing to be true of a chunk.
LEMMA RestIsTrue ==
    ASSUME NEW c, work'[c].pc \notin InLoop \union {"tally"}
    PROVE  ChunkTrue(c)'
BY DEF ChunkTrue, Progress, Tally, AtRow, InLoop

\* A step of chunk c that touches no row counter, no list, no prediction.
LEMMA QuietKeeps ==
    ASSUME TypeOK, Accounted, Truthful, NEW c \in 1..issued,
           UNCHANGED <<issued, tallies, submitting, retry, runs, prediction, deleted>>,
           \A d \in 1..issued : SameChunk(d),
           \A d \in 1..issued : d # c => work'[d] = work[d],
           \A j \in Jobs : StatusOnly(j),
           ChunkTrue(c)'
    PROVE  Truthful'
<1>1. Writes(c)
    BY DEF Writes
<1>. QED BY <1>1, LoopKeeps

\* A row whose status alone moves.
LEMMA StatusMoves ==
    ASSUME TypeOK, NEW k \in Jobs, NEW st \in IN_FLIGHT \union Terminal,
           job' = [job EXCEPT ![k].status = st]
    PROVE  \A j \in Jobs : StatusOnly(j)
<1>1. SUFFICES ASSUME NEW j \in Jobs PROVE StatusOnly(j)
    OBVIOUS
<1>2. job[k] \in JobRow /\ job \in [Jobs -> JobRow]
    BY DEF TypeOK
<1>3. /\ j # k => job'[j] = job[j]
      /\ job'[k].status = st /\ job'[k].transactionIds = job[k].transactionIds
      /\ job'[k].processedCount = job[k].processedCount
      /\ job'[k].failedCount = job[k].failedCount
    BY <1>2 DEF JobRow
<1>4. st # "NONE"
    BY DEF IN_FLIGHT, Terminal, RETRYABLE_STATUSES
<1>. QED BY <1>3, <1>4 DEF StatusOnly

LEMMA ChunkMoves ==
    ASSUME TypeOK, NEW c \in 1..issued,
           \/ queue' = queue
           \/ \E s \in ChunkState : queue' = [queue EXCEPT ![c].state = s]
           \/ AttemptFails(c)
    PROVE  \A d \in 1..issued : SameChunk(d)
<1>1. queue[c] \in Chunk /\ queue \in [1..issued -> Chunk]
    BY DEF TypeOK
<1>2. ASSUME NEW q, q.transactionIds = queue[c].transactionIds,
             q.batchJobId = queue[c].batchJobId, queue' = [queue EXCEPT ![c] = q]
      PROVE  \A d \in 1..issued : SameChunk(d)
  <2>1. \A d \in 1..issued : queue'[d] = IF d = c THEN q ELSE queue[d]
      BY <1>1, <1>2
  <2>. QED BY <1>2, <2>1 DEF SameChunk, RowsOf, JobOf
<1>3. CASE queue' = queue
    BY <1>3 DEF SameChunk, RowsOf, JobOf
<1>4. CASE \E s \in ChunkState : queue' = [queue EXCEPT ![c].state = s]
  <2>1. PICK s \in ChunkState : queue' = [queue EXCEPT ![c].state = s]
      BY <1>4
  <2>. DEFINE q == [queue[c] EXCEPT !.state = s]
  <2>2. queue' = [queue EXCEPT ![c] = q]
      BY <2>1
  <2>3. q.transactionIds = queue[c].transactionIds /\ q.batchJobId = queue[c].batchJobId
      BY <1>1 DEF Chunk
  <2>. HIDE DEF q
  <2>. QED BY <1>2, <2>2, <2>3
<1>5. CASE AttemptFails(c)
  <2>. DEFINE made == queue[c].attemptsMade + 1
              q == [queue[c] EXCEPT !.attemptsMade = made,
                       !.state = IF made >= MaxAttempts THEN "failed" ELSE "wait"]
  <2>1. queue' = [queue EXCEPT ![c] = q]
      BY <1>5 DEF AttemptFails
  <2>2. q.transactionIds = queue[c].transactionIds /\ q.batchJobId = queue[c].batchJobId
      BY <1>1 DEF Chunk
  <2>. HIDE DEF q
  <2>. QED BY <1>2, <2>1, <2>2
<1>. QED BY <1>3, <1>4, <1>5

\* The steps of a chunk's attempt, and of its listener, that record nothing.
LEMMA LoopStepKeeps ==
    ASSUME TypeOK, Accounted, Truthful, NEW c \in 1..issued,
           \/ Take(c) \/ markJobProcessing(c)
           \/ FetchRow(c) \/ ScorerFails(c) \/ LookupRow(c) \/ WriteRow(c)
           \/ finalizeJob(c) \/ Acknowledge(c) \/ countScored(c)
    PROVE  Truthful'
<1>1. /\ queue[c] \in Chunk /\ work[c] \in Work /\ JobOf(c) \in Jobs
      /\ queue \in [1..issued -> Chunk] /\ work \in [1..issued -> Work]
      /\ ChunkTrue(c)
    BY ListTypes DEF TypeOK, Truthful
<1>2. job' = job => \A j \in Jobs : StatusOnly(j)
    BY DEF StatusOnly
<1>3. {"active", "completed"} \subseteq ChunkState
    BY DEF ChunkState
<1>4. CASE Take(c)
  <2>1. /\ UNCHANGED <<job, issued, tallies, submitting, retry, runs, prediction, deleted>>
        /\ queue' = [queue EXCEPT ![c].state = "active"]
        /\ work' = [work EXCEPT ![c] = [Idle EXCEPT !.pc = "mark"]]
      BY <1>4 DEF Take, database, requests
  <2>2. \A d \in 1..issued : SameChunk(d)
      BY <1>3, <2>1, ChunkMoves
  <2>3. /\ work'[c] = [Idle EXCEPT !.pc = "mark"]
        /\ \A d \in 1..issued : d # c => work'[d] = work[d]
      BY <1>1, <2>1
  <2>4. ChunkTrue(c)'
      BY <2>2, <2>3, FreshAttemptIsTrue
  <2>. QED BY <1>2, <2>1, <2>2, <2>3, <2>4, QuietKeeps
<1>5. CASE markJobProcessing(c)
  <2>1. /\ UNCHANGED <<queue, issued, tallies, submitting, retry, runs, prediction, deleted>>
        /\ work' = [work EXCEPT ![c].pc = "fetch"]
        /\ work[c].pc = "mark"
        /\ job' = job \/ job' = [job EXCEPT ![JobOf(c)].status = "PROCESSING"]
      BY <1>5 DEF markJobProcessing, requests
  <2>2. \A d \in 1..issued : SameChunk(d)
      BY <2>1, ChunkMoves
  <2>3. /\ work'[c].pc = "fetch" /\ work'[c].next = work[c].next
        /\ work'[c].processed = work[c].processed /\ work'[c].failed = work[c].failed
        /\ \A d \in 1..issued : d # c => work'[d] = work[d]
      BY <1>1, <2>1 DEF Work
  <2>4. ChunkTrue(c)'
    <3>1. AtRow(c)' /\ work[c].pc \in InLoop /\ work'[c].pc \in InLoop
        BY <2>1, <2>3 DEF AtRow, InLoop
    <3>. QED BY <2>1, <2>2, <2>3, <3>1, SameRowKeeps
  <2>5. \A j \in Jobs : StatusOnly(j)
    <3>1. "PROCESSING" \in IN_FLIGHT
        BY DEF IN_FLIGHT
    <3>. QED BY <1>1, <1>2, <2>1, <3>1, StatusMoves
  <2>. QED BY <2>1, <2>2, <2>3, <2>4, <2>5, QuietKeeps
<1>6. CASE FetchRow(c)
  <2>1. /\ UNCHANGED <<job, queue, issued, tallies, submitting, retry, runs, prediction, deleted>>
        /\ work[c].pc = "fetch" /\ work[c].pc \in InLoop
      BY <1>6 DEF FetchRow, database, requests, InLoop
  <2>2. \A d \in 1..issued : SameChunk(d)
      BY <2>1, ChunkMoves
  <2>3. CASE TxnAt(c) \in deleted \union Unscorable /\ CountRow(c, FALSE)
    <3>1. TxnAt(c) \in deleted \/ prediction[TxnAt(c)] # JobOf(c)
        BY <1>1, <2>3, ConstantsAssumption DEF Truthful
    <3>2. ChunkTrue(c)'
        BY <2>1, <2>2, <2>3, <3>1, CountFailedKeeps
    <3>3. \A d \in 1..issued : d # c => work'[d] = work[d]
        BY <1>1, <2>3 DEF CountRow
    <3>. QED BY <1>2, <2>1, <2>2, <3>2, <3>3, QuietKeeps
  <2>4. CASE /\ TxnAt(c) \notin deleted \union Unscorable \union Refused
             /\ work' = [work EXCEPT ![c].pc = "lookup"]
    <3>1. /\ work'[c].pc = "lookup" /\ work'[c].next = work[c].next
          /\ work'[c].processed = work[c].processed /\ work'[c].failed = work[c].failed
          /\ \A d \in 1..issued : d # c => work'[d] = work[d]
        BY <1>1, <2>4 DEF Work
    <3>2. TxnAt(c)' = TxnAt(c)
        BY <2>2, <3>1 DEF TxnAt, SameChunk
    <3>3. AtRow(c)' /\ work'[c].pc \in InLoop
        BY <2>4, <3>1, <3>2 DEF AtRow, InLoop
    <3>4. ChunkTrue(c)'
        BY <2>1, <2>2, <3>1, <3>3, SameRowKeeps
    <3>. QED BY <1>2, <2>1, <2>2, <3>1, <3>4, QuietKeeps
  <2>. QED BY <1>6, <2>3, <2>4 DEF FetchRow
<1>7. CASE ScorerFails(c)
  <2>1. /\ UNCHANGED <<job, issued, tallies, submitting, retry, runs, prediction, deleted>>
        /\ AttemptFails(c)
      BY <1>7 DEF ScorerFails, database, requests
  <2>2. \A d \in 1..issued : SameChunk(d)
      BY <2>1, ChunkMoves
  <2>3. /\ work'[c].pc \in {"idle", "salvage"}
        /\ \A d \in 1..issued : d # c => work'[d] = work[d]
      BY <1>1, <2>1 DEF AttemptFails, Idle
  <2>4. ChunkTrue(c)'
      BY <2>3, RestIsTrue DEF InLoop
  <2>. QED BY <1>2, <2>1, <2>2, <2>3, <2>4, QuietKeeps
<1>8. CASE LookupRow(c)
  <2>1. /\ UNCHANGED <<job, queue, issued, tallies, submitting, retry, runs, prediction, deleted>>
        /\ work[c].pc = "lookup" /\ work[c].pc \in InLoop
      BY <1>8 DEF LookupRow, database, requests, InLoop
  <2>2. \A d \in 1..issued : SameChunk(d)
      BY <2>1, ChunkMoves
  <2>3. /\ work'[c].pc = IF prediction[TxnAt(c)] = Absent THEN "insert" ELSE "update"
        /\ work'[c].next = work[c].next
        /\ work'[c].processed = work[c].processed /\ work'[c].failed = work[c].failed
        /\ \A d \in 1..issued : d # c => work'[d] = work[d]
      BY <1>1, <1>8 DEF LookupRow, Work
  <2>4. TxnAt(c)' = TxnAt(c) /\ JobOf(c)' = JobOf(c)
      BY <2>2, <2>3 DEF TxnAt, SameChunk
  <2>5. AtRow(c)' /\ work'[c].pc \in InLoop
    <3>1. TxnAt(c) \notin Unscorable
        BY <1>1, <2>1 DEF ChunkTrue, AtRow
    <3>2. work'[c].pc = "insert" => prediction[TxnAt(c)] # JobOf(c)
        BY <1>1, <2>3, ConstantsAssumption
    <3>. QED BY <2>1, <2>3, <2>4, <3>1, <3>2 DEF AtRow, InLoop
  <2>6. ChunkTrue(c)'
      BY <2>1, <2>2, <2>3, <2>5, SameRowKeeps
  <2>. QED BY <1>2, <2>1, <2>2, <2>3, <2>6, QuietKeeps
<1>9. CASE WriteRow(c)
  <2>. DEFINE clash == work[c].pc = "insert" /\ prediction[TxnAt(c)] # Absent
  <2>1. /\ UNCHANGED <<job, queue, issued, tallies, submitting, retry, runs, deleted>>
        /\ work[c].pc \in {"insert", "update"} /\ work[c].pc \in InLoop
      BY <1>9 DEF WriteRow, requests, InLoop
  <2>2. \A d \in 1..issued : SameChunk(d)
      BY <2>1, ChunkMoves
  <2>3. \A ok \in BOOLEAN : CountRow(c, ok) => \A d \in 1..issued : d # c => work'[d] = work[d]
      BY <1>1 DEF CountRow
  <2>4. CASE clash
    <3>1. prediction' = prediction /\ CountRow(c, FALSE)
        BY <1>9, <2>4 DEF WriteRow
    <3>2. prediction[TxnAt(c)] # JobOf(c)
        BY <1>1, <2>4 DEF ChunkTrue, AtRow
    <3>3. ChunkTrue(c)'
        BY <2>1, <2>2, <3>1, <3>2, CountFailedKeeps
    <3>. QED BY <1>2, <2>1, <2>2, <2>3, <3>1, <3>3, QuietKeeps
  <2>5. CASE ~clash
    <3>1. prediction' = [prediction EXCEPT ![TxnAt(c)] = JobOf(c)] /\ CountRow(c, TRUE)
        BY <1>9, <2>5 DEF WriteRow
    <3>2. ChunkTrue(c)'
        BY <2>1, <2>2, <3>1, CountScoredKeeps
    <3>3. TxnAt(c) \in Rows(c) /\ TxnAt(c) \notin Unscorable /\ tallies[c] = 0
        BY <1>1, <2>1, RowIsNew, UnderWayIsOwed DEF ChunkTrue, AtRow
    <3>4. \A t \in Txns : prediction'[t] # prediction[t] =>
              t = TxnAt(c) /\ prediction'[t] = JobOf(c)
        BY <3>1 DEF TypeOK
    <3>5. Writes(c)
        BY <3>3, <3>4 DEF Writes
    <3>. QED BY <1>2, <2>1, <2>2, <2>3, <3>1, <3>2, <3>5, LoopKeeps
  <2>. QED BY <2>4, <2>5
<1>10. CASE finalizeJob(c)
  <2>1. /\ UNCHANGED <<queue, issued, tallies, submitting, retry, runs, prediction, deleted>>
        /\ work' = [work EXCEPT ![c] = Recorded(c)]
        /\ job' = job \/ job' = [job EXCEPT ![JobOf(c)].status = work[c].verdict]
      BY <1>10 DEF finalizeJob, requests
  <2>2. \A d \in 1..issued : SameChunk(d)
      BY <2>1, ChunkMoves
  <2>3. /\ work'[c].pc \in {"idle", "ack"}
        /\ \A d \in 1..issued : d # c => work'[d] = work[d]
      BY <1>1, <2>1 DEF Recorded, Idle
  <2>4. ChunkTrue(c)'
      BY <2>3, RestIsTrue DEF InLoop
  <2>5. \A j \in Jobs : StatusOnly(j)
    <3>1. work[c].verdict \in Terminal
        BY <1>1 DEF Work
    <3>. QED BY <1>1, <1>2, <2>1, <3>1, StatusMoves
  <2>. QED BY <2>1, <2>2, <2>3, <2>4, <2>5, QuietKeeps
<1>11. CASE Acknowledge(c)
  <2>1. /\ UNCHANGED <<job, issued, tallies, submitting, retry, runs, prediction, deleted>>
        /\ queue' = [queue EXCEPT ![c].state = "completed"]
        /\ work' = [work EXCEPT ![c] = Idle]
      BY <1>11 DEF Acknowledge, database, requests
  <2>2. \A d \in 1..issued : SameChunk(d)
      BY <1>3, <2>1, ChunkMoves
  <2>3. /\ work'[c].pc = "idle"
        /\ \A d \in 1..issued : d # c => work'[d] = work[d]
      BY <1>1, <2>1 DEF Idle
  <2>4. ChunkTrue(c)'
      BY <2>3, RestIsTrue DEF InLoop
  <2>. QED BY <1>2, <2>1, <2>2, <2>3, <2>4, QuietKeeps
<1>12. CASE countScored(c)
  <2>1. UNCHANGED <<job, queue, issued, tallies, submitting, retry, runs, prediction, deleted>>
      BY <1>12 DEF countScored, database, requests
  <2>2. \A d \in 1..issued : SameChunk(d)
      BY <2>1, ChunkMoves
  <2>3. \A d \in 1..issued : d # c => work'[d] = work[d]
      BY <1>1, <1>12 DEF countScored
  <2>4. ChunkTrue(c)'
      BY <1>12, SalvageIsTrue
  <2>. QED BY <1>2, <2>1, <2>2, <2>3, <2>4, QuietKeeps
<1>. QED BY <1>4, <1>5, <1>6, <1>7, <1>8, <1>9, <1>10, <1>11, <1>12

\* Whoever scores a transaction synchronously, or deletes one, and whoever does
\* nothing, leaves the rows true.
LEMMA BystanderKeeps ==
    ASSUME TypeOK, Accounted, Truthful,
           UNCHANGED <<job, issued, queue, work, tallies, submitting, retry, runs>>,
           deleted \subseteq deleted',
           \/ prediction' = prediction
           \/ \E t \in Txns : Rescore(t)
    PROVE  Truthful'
<1>1. /\ \A d \in 1..issued : SameChunk(d) /\ work'[d] = work[d]
      /\ \A j \in Jobs : StatusOnly(j)
    BY DEF SameChunk, RowsOf, JobOf, StatusOnly
<1>2. 0 \notin 1..issued
    OBVIOUS
<1>3. Writes(0)
  <2>1. CASE prediction' = prediction
      BY <2>1 DEF Writes
  <2>2. ASSUME NEW t \in Txns, Rescore(t) PROVE Writes(0)
    <3>1. /\ "rescore" \in Events /\ t \notin Unscorable
          /\ \A u \in Txns : prediction'[u] # prediction[u] => u = t /\ prediction'[u] = NoJob
        BY <2>2 DEF Rescore, TypeOK
    <3>. QED BY <3>1 DEF Writes, Undisturbed
  <2>. QED BY <2>1, <2>2
<1>. QED BY <1>1, <1>2, <1>3, LoopKeeps

-----------------------------------------------------------------------------
(* Recording a chunk moves its rows from what is not counted to what is.   *)

LEMMA RecordKeeps ==
    ASSUME TypeOK, Accounted, Truthful, NEW c \in 1..issued, recordChunkResult(c)
    PROVE  Truthful'
<1>0. PICK j \in Jobs : j = JobOf(c)
    BY ListTypes
<1>. DEFINE updated == [job[j] EXCEPT !.processedCount = @ + work[c].processed,
                                !.failedCount = @ + work[c].failed,
                                !.completedChunks = @ + 1]
<1>1. /\ UNCHANGED <<prediction, deleted, queue, issued, submitting, retry, runs>>
      /\ work[c].pc = "tally"
      /\ job' = [job EXCEPT ![j] = updated]
      /\ tallies' = [tallies EXCEPT ![c] = @ + 1]
      /\ work' = [work EXCEPT ![c] = IF IsLast(updated) THEN Finaliser(c, updated)
                                     ELSE Recorded(c)]
    BY <1>0 DEF recordChunkResult, requests
<1>2. /\ work[c] \in Work /\ job[j] \in JobRow /\ work \in [1..issued -> Work]
      /\ tallies \in [1..issued -> Nat] /\ job \in [Jobs -> JobRow]
      /\ RowsOf(c) \in Seq(Txns) /\ Len(RowsOf(c)) \in Nat /\ Rows(c) \in SUBSET Txns
      /\ Unrecorded(j) \in SUBSET Txns /\ Roster(j) \in SUBSET Txns
    BY ListTypes DEF TypeOK
<1>3. /\ updated.transactionIds = job[j].transactionIds
      /\ updated.status = job[j].status
      /\ updated.processedCount = job[j].processedCount + work[c].processed
      /\ updated.failedCount = job[j].failedCount + work[c].failed
    BY <1>2 DEF JobRow
<1>. HIDE DEF updated
<1>4. /\ job'[j] = updated /\ \A k \in Jobs : k # j => job'[k] = job[k]
      /\ \A d \in 1..issued : d # c => work'[d] = work[d] /\ tallies'[d] = tallies[d]
      /\ tallies'[c] # 0
      /\ work'[c].pc \in {"finalize", "idle", "ack"}
  <2>1. Finaliser(c, updated).pc = "finalize" /\ Recorded(c).pc \in {"ack", "idle"}
      BY DEF Finaliser, Recorded, Idle
  <2>2. tallies[c] + 1 # 0
      BY <1>2
  <2>. QED BY <1>1, <1>2, <2>1, <2>2
<1>5. tallies[c] = 0 /\ c \in Owed(j)
    BY <1>0, <1>1, UnderWayIsOwed
<1>6. \A d \in 1..issued : SameChunk(d) /\ Rows(d)' = Rows(d)
    BY <1>1 DEF SameChunk, RowsOf, JobOf, Rows
<1>7. \A k : ChunksOf(k)' = ChunksOf(k)
    BY <1>1 DEF ChunksOf
<1>8. Owed(j)' = Owed(j) \ {c}
    BY <1>4, <1>7 DEF Owed, ChunksOf
<1>9. \A k \in Jobs : k # j => Owed(k)' = Owed(k)
    BY <1>0, <1>4, <1>7 DEF Owed, ChunksOf, JobOf
<1>10. \A k \in Jobs : Roster(k)' = Roster(k)
    BY <1>3, <1>4 DEF Roster
<1>11. ~Unqueued(j)
    BY <1>5 DEF Accounted, RowAccounted
<1>12. Unrecorded(j) = {t \in Txns : \E d \in Owed(j) : t \in Rows(d)}
    BY <1>11 DEF Unrecorded, Unqueued, Rows
<1>13. Unrecorded(j)' = {t \in Txns : \E d \in Owed(j) \ {c} : t \in Rows(d)}
  <2>1. ~Unqueued(j)'
      BY <1>1, <1>11 DEF Unqueued
  <2>2. Unrecorded(j)' = {t \in Txns : \E d \in Owed(j)' : t \in Rows(d)'}
      BY <2>1 DEF Unrecorded, Unqueued, Rows
  <2>3. \A d \in Owed(j) : Rows(d)' = Rows(d)
      BY <1>6 DEF Owed, ChunksOf
  <2>. QED BY <1>8, <2>2, <2>3
<1>14. \A d \in Owed(j) \ {c} : Rows(d) \intersect Rows(c) = {}
  <2>1. SUFFICES ASSUME NEW d \in Owed(j), d # c PROVE Rows(d) \intersect Rows(c) = {}
      OBVIOUS
  <2>2. d \in 1..issued /\ JobOf(d) = j /\ tallies[d] = 0
      BY DEF Owed, ChunksOf, JobOf
  <2>. QED BY <1>0, <1>5, <2>1, <2>2 DEF Truthful, Lists, OwedApart
<1>. DEFINE U == Unrecorded(j)
            V == Unrecorded(j)'
            R == Rows(c)
<1>15. /\ R \subseteq U /\ V = U \ R /\ U = V \union R /\ V \intersect R = {}
       /\ V \in SUBSET Txns /\ U \in SUBSET Txns /\ R \in SUBSET Txns
    BY <1>2, <1>5, <1>12, <1>13, <1>14
<1>16. /\ Cardinality(R) = Len(RowsOf(c))
       /\ work[c].processed + work[c].failed = Len(RowsOf(c))
       /\ work[c].processed \in Nat /\ work[c].failed \in Nat
       /\ RowTrue(j) /\ ScoredBy(j, R \ deleted) \in SUBSET Txns
       /\ work[c].failed = 0 => \A t \in R : prediction[t] # Absent
       /\ Cardinality(ScoredBy(j, R \ deleted)) <= work[c].processed
       /\ Undisturbed => work[c].processed <= Cardinality(ScoredBy(j, R))
  <2>1. Seen(c) = Rows(c)
      BY <1>1 DEF Seen
  <2>2. ChunkTrue(c) /\ ChunkIsSet(c) /\ RowTrue(j)
      BY DEF Truthful, Lists
  <2>3. Cardinality(R) = Len(RowsOf(c))
      BY <1>2, <2>2, ListIsSet DEF ChunkIsSet, Rows
  <2>4. ScoredBy(j, R \ deleted) \in SUBSET Txns
      BY <1>15 DEF ScoredBy
  <2>. QED BY <1>0, <1>1, <1>2, <2>1, <2>2, <2>3, <2>4 DEF ChunkTrue, Progress, Tally, Work
<1>17. R \in SUBSET Roster(j)
    BY <1>0 DEF Truthful, Lists, ChunkIsSet
<1>18. /\ Roster(j)' = Roster(j) /\ prediction' = prediction /\ deleted' = deleted
       /\ runs' = runs
    BY <1>1, <1>10
<1>19. /\ job[j].processedCount \in Nat /\ job[j].failedCount \in Nat
       /\ Len(job[j].transactionIds) \in Nat
    BY <1>2 DEF JobRow
<1>20. RowTrue(j)'
  <2>. HIDE DEF U, V, R
  <2>1. /\ Cardinality(U) = Cardinality(V) + Cardinality(R)
        /\ Cardinality(U) \in Nat /\ Cardinality(V) \in Nat /\ Cardinality(R) \in Nat
      BY <1>15, TxnUnion, TxnSets
  <2>7. /\ work[c].processed \in Nat /\ work[c].failed \in Nat
        /\ Cardinality(R) = work[c].processed + work[c].failed
      BY <1>16
  <2>2. (ScoredBy(j, Txns) \subseteq Roster(j))'
      BY <1>16, <1>18 DEF RowTrue, ScoredBy
  <2>3. Ledger(j)'
    <3>1. runs[j] = 0 => job[j].processedCount + job[j].failedCount + Cardinality(U)
                            = Len(job[j].transactionIds)
        BY <1>16 DEF RowTrue, Ledger, U
    <3>2. runs[j] = 0 => updated.processedCount + updated.failedCount + Cardinality(V)
                            = Len(updated.transactionIds)
      <4>1. ASSUME runs[j] = 0
            PROVE  (job[j].processedCount + work[c].processed)
                     + (job[j].failedCount + work[c].failed) + Cardinality(V)
                   = Len(job[j].transactionIds)
        <5>1. job[j].processedCount + job[j].failedCount + Cardinality(U)
                 = Len(job[j].transactionIds)
            BY <3>1, <4>1
        <5>2. Cardinality(U) = Cardinality(V) + (work[c].processed + work[c].failed)
            BY <2>1, <2>7
        <5>3. /\ job[j].processedCount \in Nat /\ job[j].failedCount \in Nat
              /\ work[c].processed \in Nat /\ work[c].failed \in Nat
              /\ Cardinality(U) \in Nat /\ Cardinality(V) \in Nat
            BY <1>19, <2>1, <2>7
        <5>. DEFINE a == job[j].processedCount
                    b == job[j].failedCount
                    p == work[c].processed
                    q == work[c].failed
                    u == Cardinality(U)
                    v == Cardinality(V)
                    n == Len(job[j].transactionIds)
        <5>4. /\ a \in Nat /\ b \in Nat /\ p \in Nat /\ q \in Nat /\ u \in Nat /\ v \in Nat
              /\ a + b + u = n /\ u = v + (p + q)
            BY <5>1, <5>2, <5>3
        <5>. HIDE DEF a, b, p, q, u, v, n
        <5>5. (a + p) + (b + q) + v = n
            BY <5>4
        <5>. QED BY <5>5 DEF a, b, p, q, v, n
      <4>. QED BY <1>3, <4>1
    <3>. QED BY <1>4, <1>18, <3>2 DEF Ledger, V
  <2>4. NoneLost(j)'
    <3>1. SUFFICES ASSUME updated.failedCount = 0,
                          NEW t \in Roster(j) \ V
                   PROVE  prediction[t] # Absent \/ t \in deleted
        BY <1>4, <1>18 DEF NoneLost, V
    <3>2. job[j].failedCount = 0 /\ work[c].failed = 0
        BY <1>3, <1>19, <2>7, <3>1
    <3>3. CASE t \in R
        BY <1>16, <3>2, <3>3
    <3>4. CASE t \notin R
      <4>1. t \in Roster(j) \ U
          BY <1>15, <3>1, <3>4
      <4>. QED BY <1>16, <3>2, <4>1 DEF RowTrue, NoneLost, U
    <3>. QED BY <3>3, <3>4
  <2>5. StoredIsCounted(j)'
    <3>. DEFINE A == ScoredBy(j, Txns \ (deleted \union U))
                B == ScoredBy(j, R \ deleted)
                C == ScoredBy(j, Txns \ (deleted \union V))
    <3>1. A \in SUBSET Txns /\ B \in SUBSET Txns /\ C \subseteq A \union B
        BY <1>15 DEF ScoredBy
    <3>2. Cardinality(A) <= job[j].processedCount /\ Cardinality(B) <= work[c].processed
        BY <1>16 DEF RowTrue, StoredIsCounted, U
    <3>3. C = ScoredBy(j, Txns \ (deleted \union Unrecorded(j)))'
        BY <1>18 DEF ScoredBy, V
    <3>. HIDE DEF A, B, C
    <3>4. /\ Cardinality(A) \in Nat /\ Cardinality(B) \in Nat /\ Cardinality(C) \in Nat
          /\ Cardinality(A \union B) \in Nat
          /\ Cardinality(A \union B) <= Cardinality(A) + Cardinality(B)
          /\ Cardinality(C) <= Cardinality(A \union B)
      <4>1. A \union B \in SUBSET Txns
          BY <3>1
      <4>. QED BY <3>1, <4>1, TxnSets, TxnUnion
    <3>5. Cardinality(C) <= updated.processedCount
        BY <1>3, <1>16, <1>19, <3>2, <3>4
    <3>. QED BY <1>4, <3>3, <3>5 DEF StoredIsCounted
  <2>6. CountedIsStored(j)'
    <3>1. SUFFICES ASSUME Undisturbed
                   PROVE  updated.processedCount
                             <= Cardinality(ScoredBy(j, Roster(j) \ Unrecorded(j))')
        BY <1>4 DEF CountedIsStored, Undisturbed
    <3>. DEFINE A == ScoredBy(j, Roster(j) \ U)
                B == ScoredBy(j, R)
                C == ScoredBy(j, Roster(j) \ V)
    <3>2. /\ A \in SUBSET Txns /\ B \in SUBSET Txns /\ C \in SUBSET Txns
          /\ C = A \union B /\ A \intersect B = {}
        BY <1>2, <1>15, <1>17 DEF ScoredBy
    <3>3. job[j].processedCount <= Cardinality(A) /\ work[c].processed <= Cardinality(B)
        BY <1>16, <3>1 DEF RowTrue, CountedIsStored, U
    <3>4. C = ScoredBy(j, Roster(j) \ Unrecorded(j))'
        BY <1>18 DEF ScoredBy, V
    <3>. HIDE DEF A, B, C
    <3>5. /\ Cardinality(A) \in Nat /\ Cardinality(B) \in Nat
          /\ Cardinality(C) = Cardinality(A) + Cardinality(B)
        BY <3>2, TxnSets, TxnUnion
    <3>. QED BY <1>3, <1>16, <1>19, <3>3, <3>4, <3>5
  <2>. QED BY <2>2, <2>3, <2>4, <2>5, <2>6 DEF RowTrue
<1>21. ASSUME NEW k \in Jobs, k # j PROVE RowTrue(k)'
  <2>1. Unrecorded(k)' = Unrecorded(k)
    <3>1. \A d \in Owed(k) : ToSet(RowsOf(d)') = ToSet(RowsOf(d))
        BY <1>6 DEF Owed, ChunksOf, SameChunk
    <3>. QED BY <1>1, <1>4, <1>9, <1>21, <3>1 DEF Unrecorded
  <2>2. RowLeftAlone(k)
      BY <1>4, <1>18, <1>21, <2>1 DEF RowLeftAlone
  <2>3. FairToRow(k)
      BY <1>18 DEF FairToRow
  <2>. QED BY <1>18, <2>2, <2>3, RowKeeps DEF Truthful
<1>22. Lists'
  <2>1. ASSUME NEW k \in Jobs PROVE RosterIsSet(k)'
    <3>1. RosterIsSet(k)
        BY DEF Truthful, Lists
    <3>2. job[j].status # "NONE"
        BY <1>5, <1>11 DEF Accounted, RowAccounted, IN_FLIGHT
    <3>. QED BY <1>3, <1>4, <3>1, <3>2 DEF RosterIsSet
  <2>2. ASSUME NEW d \in 1..issued PROVE ChunkIsSet(d)'
    <3>1. ChunkIsSet(d) /\ JobOf(d) \in Jobs
        BY ListTypes DEF Truthful, Lists
    <3>. QED BY <1>6, <1>10, <3>1 DEF ChunkIsSet, SameChunk
  <2>3. ASSUME NEW d \in 1..issued, NEW e \in 1..issued PROVE OwedApart(d, e)'
    <3>1. OwedApart(d, e) /\ SameChunk(d) /\ SameChunk(e)
        BY <1>6 DEF Truthful, Lists
    <3>. QED BY <1>4, <1>6, <3>1 DEF OwedApart, SameChunk
  <2>4. ASSUME NEW r \in Retriers PROVE RetryIsSet(r)'
    <3>1. RetryIsSet(r) /\ (retry[r].pc # "idle" => retry[r].job \in Jobs)
        BY ListTypes DEF Truthful, Lists
    <3>. QED BY <1>1, <1>10, <3>1 DEF RetryIsSet
  <2>5. issued' = issued
      BY <1>1
  <2>. QED BY <2>1, <2>2, <2>3, <2>4, <2>5 DEF Lists
<1>23. ASSUME NEW r \in Retriers PROVE ScanTrue(r)'
  <2>1. SUFFICES ASSUME retry[r].pc = "reset" PROVE ScanTrue(r)'
      BY <1>1 DEF ScanTrue
  <2>2. retry[r].job \in Jobs /\ ScanTrue(r) /\ retry' = retry
      BY <1>1, <2>1, ListTypes DEF Truthful
  <2>3. ScoredBy(retry[r].job, Roster(retry[r].job))'
           = ScoredBy(retry[r].job, Roster(retry[r].job))
      BY <1>10, <1>18, <2>2 DEF ScoredBy
  <2>. QED BY <1>18, <2>1, <2>2, <2>3 DEF ScanTrue, Undisturbed
<1>24. ASSUME NEW d \in 1..issued PROVE ChunkTrue(d)'
  <2>1. CASE d = c
      BY <1>4, <2>1, RestIsTrue DEF InLoop
  <2>2. CASE d # c
    <3>1. FairToChunk(d)
        BY <1>18 DEF FairToChunk
    <3>. QED BY <1>4, <1>6, <1>18, <2>2, <3>1, ChunkKeeps DEF SameChunk, Truthful
  <2>. QED BY <2>1, <2>2
<1>25. \A t \in Unscorable : prediction'[t] = Absent
    BY <1>18 DEF Truthful
<1>26. issued' = issued
    BY <1>1
<1>. QED BY <1>20, <1>21, <1>22, <1>23, <1>24, <1>25, <1>26 DEF Truthful

-----------------------------------------------------------------------------
(* Putting chunks on the queue moves nothing: what a request was about to  *)
(* enqueue is what the chunks hold.                                        *)

LEMMA AddBulkKeeps ==
    ASSUME TypeOK, Accounted, Truthful, NEW j \in Jobs, NEW ids \in Seq(Txns),
           IsInjective(ids), ToSet(ids) \subseteq Roster(j),
           Unrecorded(j) = ToSet(ids), Owed(j) = {},
           AddBulk(j, ids), UNCHANGED <<job, prediction, deleted, runs>>,
           ~Unqueued(j)',
           \A k \in Jobs : k # j => (k \in submitting' <=> k \in submitting),
           \A r \in Retriers : \/ retry'[r] = retry[r]
                               \/ /\ retry[r].pc = "enqueue" /\ retry[r].job = j
                                  /\ retry'[r].pc = "idle"
    PROVE  Truthful'
<1>. DEFINE n == ChunkCount(Len(ids))
            New == (issued + 1)..(issued + n)
<1>1. n \in Nat /\ issued \in Nat /\ issued' = issued + n
    BY ChunkCountCovers DEF TypeOK, AddBulk
<1>2. \A c \in New : c - issued \in 1..n
    BY <1>1
<1>3. 1..issued' = (1..issued) \union New /\ \A c \in New : c \notin 1..issued
    BY <1>1
<1>4. /\ \A c \in 1..issued : /\ queue'[c] = queue[c] /\ work'[c] = work[c]
                              /\ tallies'[c] = tallies[c]
      /\ \A c \in New : /\ queue'[c].batchJobId = j
                        /\ queue'[c].transactionIds = chunk(ids, c - issued)
                        /\ work'[c].pc = "idle" /\ tallies'[c] = 0
    BY <1>1 DEF AddBulk, Idle
<1>5. /\ \A k \in 1..n : /\ ToSet(chunk(ids, k)) \subseteq ToSet(ids)
                         /\ IsInjective(chunk(ids, k))
      /\ \A t \in ToSet(ids) : \E k \in 1..n : t \in ToSet(chunk(ids, k))
      /\ \A k, l \in 1..n : k # l =>
            ToSet(chunk(ids, k)) \intersect ToSet(chunk(ids, l)) = {}
    BY ChunksShareOut
<1>6. \A k \in 1..n : issued + k \in New /\ (issued + k) - issued = k
    BY <1>1
<1>. HIDE DEF New, n
<1>7. /\ \A c \in 1..issued : SameChunk(c) /\ Rows(c)' = Rows(c)
      /\ \A c \in New : /\ RowsOf(c)' = chunk(ids, c - issued)
                        /\ Rows(c)' = ToSet(chunk(ids, c - issued))
                        /\ JobOf(c)' = j
    BY <1>4 DEF SameChunk, RowsOf, JobOf, Rows
<1>8. Owed(j)' = New
  <2>1. \A c \in 1..issued : JobOf(c) = j => tallies[c] # 0
      BY DEF Owed, ChunksOf, JobOf
  <2>. QED BY <1>3, <1>4, <2>1 DEF Owed, ChunksOf, JobOf
<1>9. ASSUME NEW k \in Jobs, k # j PROVE Owed(k)' = Owed(k)
    BY <1>3, <1>4, <1>9 DEF Owed, ChunksOf
<1>10. Unrecorded(j)' = Unrecorded(j)
  <2>1. Unrecorded(j)' = {t \in Txns : \E c \in New : t \in Rows(c)'}
      BY <1>8 DEF Unrecorded, Unqueued, Rows
  <2>2. ASSUME NEW t \in ToSet(ids) PROVE \E c \in New : t \in Rows(c)'
    <3>1. PICK k \in 1..n : t \in ToSet(chunk(ids, k))
        BY <1>5
    <3>. QED BY <1>6, <1>7, <3>1
  <2>3. \A c \in New : Rows(c)' \subseteq ToSet(ids)
    <3>1. SUFFICES ASSUME NEW c \in New PROVE ToSet(chunk(ids, c - issued)) \subseteq ToSet(ids)
        BY <1>7
    <3>2. c - issued \in 1..n
        BY <1>2 DEF New
    <3>. QED BY <1>5, <3>2
  <2>4. ToSet(ids) \in SUBSET Txns
      BY ListIsSet
  <2>. QED BY <2>1, <2>2, <2>3, <2>4
<1>11. ASSUME NEW k \in Jobs, k # j PROVE Unrecorded(k)' = Unrecorded(k)
  <2>1. \A c \in Owed(k) : ToSet(RowsOf(c)') = ToSet(RowsOf(c))
      BY <1>7 DEF SameChunk, Owed, ChunksOf
  <2>2. \A r \in Retriers : \A t :
           (retry'[r].pc = "enqueue" /\ retry'[r].job = k /\ t \in ToSet(retry'[r].ids))
           <=> (retry[r].pc = "enqueue" /\ retry[r].job = k /\ t \in ToSet(retry[r].ids))
      BY <1>11
  <2>. QED BY <1>9, <1>11, <2>1, <2>2 DEF Unrecorded
<1>12. ASSUME NEW k \in Jobs PROVE RowTrue(k)'
  <2>1. Unrecorded(k)' = Unrecorded(k)
      BY <1>10, <1>11
  <2>2. RowLeftAlone(k) /\ FairToRow(k)
      BY <2>1 DEF RowLeftAlone, FairToRow
  <2>. QED BY <2>2, RowKeeps DEF Truthful
<1>13. Lists'
  <2>1. ASSUME NEW k \in Jobs PROVE RosterIsSet(k)'
    <3>1. RosterIsSet(k)
        BY DEF Truthful, Lists
    <3>. QED BY <3>1 DEF RosterIsSet
  <2>2. \A k : Roster(k)' = Roster(k)
      BY DEF Roster
  <2>3. ASSUME NEW c \in 1..issued' PROVE ChunkIsSet(c)'
    <3>1. CASE c \in 1..issued
      <4>1. ChunkIsSet(c)
          BY <3>1 DEF Truthful, Lists
      <4>. QED BY <1>7, <2>2, <3>1, <4>1 DEF ChunkIsSet, SameChunk
    <3>2. CASE c \in New
      <4>1. c - issued \in 1..n
          BY <1>2, <3>2 DEF New
      <4>2. /\ IsInjective(chunk(ids, c - issued))
            /\ ToSet(chunk(ids, c - issued)) \subseteq Roster(j)
          BY <1>5, <4>1
      <4>. QED BY <1>7, <2>2, <3>2, <4>2 DEF ChunkIsSet
    <3>. QED BY <1>3, <3>1, <3>2
  <2>4. ASSUME NEW c \in 1..issued', NEW d \in 1..issued' PROVE OwedApart(c, d)'
    <3>1. ASSUME NEW e \in 1..issued, JobOf(e)' = j PROVE tallies'[e] # 0
      <4>1. JobOf(e) = j
          BY <1>7, <3>1 DEF SameChunk
      <4>2. tallies[e] # 0
          BY <4>1 DEF Owed, ChunksOf, JobOf
      <4>. QED BY <1>4, <4>2
    <3>2. CASE c \in 1..issued /\ d \in 1..issued
      <4>1. OwedApart(c, d)
          BY <3>2 DEF Truthful, Lists
      <4>. QED BY <1>4, <1>7, <3>2, <4>1 DEF OwedApart, SameChunk
    <3>3. CASE c \in New /\ d \in New
      <4>1. /\ c - issued \in 1..n /\ d - issued \in 1..n
            /\ c # d => c - issued # d - issued
          BY <1>1, <1>2, <3>3 DEF New
      <4>2. c # d => ToSet(chunk(ids, c - issued)) \intersect ToSet(chunk(ids, d - issued)) = {}
          BY <1>5, <4>1
      <4>. QED BY <1>7, <3>3, <4>2 DEF OwedApart
    <3>4. CASE c \in 1..issued /\ d \in New
        BY <1>7, <3>1, <3>4 DEF OwedApart
    <3>5. CASE c \in New /\ d \in 1..issued
        BY <1>7, <3>1, <3>5 DEF OwedApart
    <3>. QED BY <1>3, <3>2, <3>3, <3>4, <3>5
  <2>5. ASSUME NEW r \in Retriers PROVE RetryIsSet(r)'
    <3>1. RetryIsSet(r)
        BY DEF Truthful, Lists
    <3>. QED BY <2>2, <3>1 DEF RetryIsSet
  <2>. QED BY <2>1, <2>3, <2>4, <2>5 DEF Lists
<1>14. ASSUME NEW r \in Retriers PROVE ScanTrue(r)'
  <2>1. SUFFICES ASSUME retry'[r].pc = "reset" PROVE ScanTrue(r)'
      BY DEF ScanTrue
  <2>2. retry'[r] = retry[r] /\ ScanTrue(r)
      BY <2>1 DEF Truthful
  <2>. QED BY <2>2 DEF ScanTrue, ScoredBy, Roster, Undisturbed
<1>15. ASSUME NEW c \in 1..issued' PROVE ChunkTrue(c)'
  <2>1. CASE c \in 1..issued
    <3>1. FairToChunk(c) /\ ChunkTrue(c)
        BY <2>1 DEF FairToChunk, Truthful
    <3>. QED BY <1>4, <1>7, <2>1, <3>1, ChunkKeeps DEF SameChunk
  <2>2. CASE c \in New
      BY <1>4, <2>2, RestIsTrue DEF InLoop
  <2>. QED BY <1>3, <2>1, <2>2
<1>16. \A t \in Unscorable : prediction'[t] = Absent
    BY DEF Truthful
<1>. QED BY <1>12, <1>13, <1>14, <1>15, <1>16 DEF Truthful

-----------------------------------------------------------------------------
(* The requests.                                                           *)

\* createJob's addBulk.
LEMMA EnqueueKeeps ==
    ASSUME TypeOK, Accounted, Truthful, NEW j \in Jobs, EnqueueJob(j)
    PROVE  Truthful'
<1>. DEFINE roster == job[j].transactionIds
<1>1. /\ UNCHANGED <<job, prediction, deleted, retry, runs>> /\ j \in submitting
      /\ submitting' = submitting \ {j} /\ AddBulk(j, roster)
    BY DEF EnqueueJob, database
<1>2. roster \in Seq(Txns) /\ IsInjective(roster) /\ ToSet(roster) = Roster(j)
    BY ListTypes DEF Truthful, Lists, RosterIsSet, Roster
<1>3. Unqueued(j)
    BY <1>1 DEF Unqueued
<1>4. Owed(j) = {}
    BY <1>3 DEF Accounted, RowAccounted
<1>5. \A r \in Retriers : ~(retry[r].pc = "enqueue" /\ retry[r].job = j)
    BY <1>1 DEF Accounted, RequestsAccounted
<1>6. ~Unqueued(j)'
    BY <1>1, <1>5 DEF Unqueued
<1>7. Unrecorded(j) = ToSet(roster)
  <2>1. ToSet(roster) \in SUBSET Txns
      BY <1>2, ListIsSet
  <2>. QED BY <1>1, <1>4, <1>5, <2>1 DEF Unrecorded
<1>. HIDE DEF roster
<1>. QED BY <1>1, <1>2, <1>4, <1>6, <1>7, AddBulkKeeps

\* createJob: a new row counts nothing, and has everything before it.
LEMMA CreateKeeps ==
    ASSUME TypeOK, Accounted, Truthful, NEW j \in Jobs, CreateJob(j)
    PROVE  Truthful'
<1>1. PICK filter \in {"ids", "unscored"} : \E ids \in resolveTransactionIds(filter) :
         /\ ids # <<>>
         /\ job' = [job EXCEPT ![j] = [NoRow EXCEPT !.status = "QUEUED",
                      !.transactionIds = ids, !.totalChunks = ChunkCount(Len(ids))]]
    BY DEF CreateJob
<1>2. PICK ids \in resolveTransactionIds(filter) :
         /\ ids # <<>>
         /\ job' = [job EXCEPT ![j] = [NoRow EXCEPT !.status = "QUEUED",
                      !.transactionIds = ids, !.totalChunks = ChunkCount(Len(ids))]]
    BY <1>1
<1>3. /\ UNCHANGED <<prediction, deleted, issued, queue, work, tallies, retry, runs>>
      /\ job[j].status = "NONE" /\ submitting' = submitting \union {j}
    BY DEF CreateJob
<1>4. /\ job'[j] = [NoRow EXCEPT !.status = "QUEUED", !.transactionIds = ids,
                                 !.totalChunks = ChunkCount(Len(ids))]
      /\ \A k \in Jobs : k # j => job'[k] = job[k]
    BY <1>2 DEF TypeOK
<1>5. /\ job'[j].status = "QUEUED" /\ job'[j].transactionIds = ids
      /\ job'[j].processedCount = 0 /\ job'[j].failedCount = 0
    BY <1>4 DEF NoRow
<1>6. ids \in Seq(Txns) /\ IsInjective(ids) /\ ToSet(ids) \in SUBSET Txns
  <2>1. PICK S \in SUBSET Txns : ids \in SetToSeqs(S)
      BY <1>2 DEF resolveTransactionIds
  <2>. QED BY <2>1, SqlIds
<1>7. Cardinality(ToSet(ids)) = Len(ids) /\ Len(ids) \in Nat
    BY <1>6, ListIsSet
<1>8. Owed(j) = {} /\ ~Unqueued(j) /\ Unrecorded(j) = {}
    BY <1>3, FinalOwesNothing
<1>9. job[j] = NoRow /\ Roster(j) = {}
  <2>1. job[j] = NoRow
      BY <1>3 DEF Truthful, Lists, RosterIsSet
  <2>2. ToSet(<<>>) = {}
      BY DEF ToSet
  <2>. QED BY <2>1, <2>2 DEF NoRow, Roster
<1>10. \A c \in 1..issued : JobOf(c) # j
  <2>1. SUFFICES ASSUME NEW c \in 1..issued, JobOf(c) = j PROVE FALSE
      OBVIOUS
  <2>2. Rows(c) = {} /\ RowsOf(c) \in Seq(Txns) /\ RowsOf(c) # <<>>
      BY <1>9, <2>1, ListTypes DEF Truthful, Lists, ChunkIsSet
  <2>3. 1 \in 1..Len(RowsOf(c))
      BY <2>2
  <2>4. RowsOf(c)[1] \in Rows(c)
      BY <2>2, <2>3, ListIsSet DEF Rows
  <2>. QED BY <2>2, <2>4
<1>11. \A t \in Txns : prediction[t] # j
    BY <1>9 DEF Truthful, RowTrue, ScoredBy
<1>12. \A k : Owed(k)' = Owed(k)
    BY <1>3 DEF Owed, ChunksOf
<1>13. Roster(j)' = ToSet(ids) /\ \A k \in Jobs : k # j => Roster(k)' = Roster(k)
    BY <1>4, <1>5 DEF Roster
<1>14. \A d \in 1..issued : SameChunk(d) /\ Rows(d)' = Rows(d) /\ JobOf(d)' = JobOf(d)
    BY <1>3 DEF SameChunk, RowsOf, JobOf, Rows
<1>15. Unrecorded(j)' = ToSet(ids)
  <2>1. \A r \in Retriers : ~(retry'[r].pc = "enqueue" /\ retry'[r].job = j)
      BY <1>3, <1>8 DEF Unqueued
  <2>. QED BY <1>3, <1>5, <1>6, <1>8, <1>12, <2>1 DEF Unrecorded
<1>16. ASSUME NEW k \in Jobs, k # j PROVE Unrecorded(k)' = Unrecorded(k)
  <2>1. \A c \in Owed(k) : ToSet(RowsOf(c)') = ToSet(RowsOf(c))
      BY <1>14 DEF SameChunk, Owed, ChunksOf
  <2>. QED BY <1>3, <1>4, <1>12, <1>16, <2>1 DEF Unrecorded
<1>17. RowTrue(j)'
  <2>1. (ScoredBy(j, Txns) \subseteq Roster(j))'
      BY <1>3, <1>11 DEF ScoredBy
  <2>2. Ledger(j)'
      BY <1>5, <1>7, <1>15 DEF Ledger
  <2>3. NoneLost(j)'
      BY <1>13, <1>15 DEF NoneLost
  <2>4. StoredIsCounted(j)'
    <3>1. ScoredBy(j, Txns \ (deleted \union Unrecorded(j)))' = {}
        BY <1>3, <1>11 DEF ScoredBy
    <3>. QED BY <1>5, <3>1, FS_EmptySet DEF StoredIsCounted
  <2>5. CountedIsStored(j)'
    <3>1. ScoredBy(j, Roster(j) \ Unrecorded(j))' = {}
        BY <1>13, <1>15 DEF ScoredBy
    <3>. QED BY <1>5, <3>1, FS_EmptySet DEF CountedIsStored
  <2>. QED BY <2>1, <2>2, <2>3, <2>4, <2>5 DEF RowTrue
<1>18. ASSUME NEW k \in Jobs, k # j PROVE RowTrue(k)'
  <2>1. RowLeftAlone(k) /\ FairToRow(k)
      BY <1>3, <1>4, <1>16, <1>18 DEF RowLeftAlone, FairToRow
  <2>. QED BY <1>3, <2>1, RowKeeps DEF Truthful
<1>19. ASSUME NEW r \in Retriers, retry[r].pc \in {"scan", "reset", "enqueue"}
       PROVE  retry[r].job \in Jobs /\ retry[r].job # j
  <2>1. retry[r].job \in Jobs
      BY <1>19, ListTypes
  <2>2. retry[r].pc = "enqueue" => retry[r].job # j
      BY <1>8 DEF Unqueued
  <2>3. retry[r].pc \in {"scan", "reset"} => retry[r].job # j
      BY <1>3 DEF Accounted, RequestsAccounted, RETRYABLE_STATUSES
  <2>. QED BY <1>19, <2>1, <2>2, <2>3
<1>20. Lists'
  <2>1. ASSUME NEW k \in Jobs PROVE RosterIsSet(k)'
    <3>1. RosterIsSet(k)
        BY DEF Truthful, Lists
    <3>. QED BY <1>4, <1>5, <1>6, <3>1 DEF RosterIsSet
  <2>2. ASSUME NEW d \in 1..issued PROVE ChunkIsSet(d)'
    <3>1. ChunkIsSet(d) /\ JobOf(d) \in Jobs /\ JobOf(d) # j
        BY <1>10, ListTypes DEF Truthful, Lists
    <3>. QED BY <1>13, <1>14, <3>1 DEF ChunkIsSet, SameChunk
  <2>3. ASSUME NEW d \in 1..issued, NEW e \in 1..issued PROVE OwedApart(d, e)'
    <3>1. OwedApart(d, e)
        BY DEF Truthful, Lists
    <3>. QED BY <1>3, <1>14, <3>1 DEF OwedApart
  <2>4. ASSUME NEW r \in Retriers PROVE RetryIsSet(r)'
    <3>1. RetryIsSet(r)
        BY DEF Truthful, Lists
    <3>2. retry[r].pc = "enqueue" => Roster(retry[r].job)' = Roster(retry[r].job)
        BY <1>3, <1>13, <1>19
    <3>3. retry' = retry
        BY <1>3
    <3>. QED BY <3>1, <3>2, <3>3 DEF RetryIsSet
  <2>5. issued' = issued
      BY <1>3
  <2>. QED BY <2>1, <2>2, <2>3, <2>4, <2>5 DEF Lists
<1>21. ASSUME NEW r \in Retriers PROVE ScanTrue(r)'
  <2>1. SUFFICES ASSUME retry[r].pc = "reset" PROVE ScanTrue(r)'
      BY <1>3 DEF ScanTrue
  <2>2. PICK k \in Jobs : k = retry[r].job /\ k # j
      BY <1>19, <2>1
  <2>3. ScoredBy(k, Roster(k))' = ScoredBy(k, Roster(k))
      BY <1>3, <1>13, <2>2 DEF ScoredBy
  <2>4. ScanTrue(r)
      BY DEF Truthful
  <2>5. /\ retry' = retry /\ prediction' = prediction
        /\ ScoredBy(retry[r].job, Roster(retry[r].job))' = ScoredBy(k, Roster(k))'
      BY <1>3, <2>2 DEF ScoredBy, Roster
  <2>. QED BY <2>1, <2>2, <2>3, <2>4, <2>5 DEF ScanTrue, Undisturbed
<1>22. ASSUME NEW d \in 1..issued PROVE ChunkTrue(d)'
  <2>1. FairToChunk(d) /\ ChunkTrue(d)
      BY <1>3 DEF FairToChunk, Truthful
  <2>. QED BY <1>3, <1>14, <2>1, ChunkKeeps DEF SameChunk
<1>23. (\A t \in Unscorable : prediction'[t] = Absent) /\ issued' = issued
    BY <1>3 DEF Truthful
<1>. QED BY <1>17, <1>18, <1>20, <1>21, <1>22, <1>23 DEF Truthful

\* A retry that reads, or gives up.
LEMMA RequestMoves ==
    ASSUME TypeOK, Accounted, Truthful,
           UNCHANGED <<job, prediction, deleted, issued, queue, work, tallies, submitting, runs>>,
           \A r \in Retriers : \/ retry'[r] = retry[r]
                               \/ /\ retry[r].pc # "enqueue" /\ retry'[r].pc # "enqueue"
                                  /\ ScanTrue(r)'
    PROVE  Truthful'
<1>1. /\ \A k : Owed(k)' = Owed(k) /\ Roster(k)' = Roster(k)
      /\ \A d \in 1..issued : SameChunk(d) /\ Rows(d)' = Rows(d) /\ JobOf(d)' = JobOf(d)
    BY DEF Owed, ChunksOf, Roster, SameChunk, RowsOf, JobOf, Rows
<1>2. ASSUME NEW k \in Jobs PROVE Unrecorded(k)' = Unrecorded(k)
  <2>1. \A c \in Owed(k) : ToSet(RowsOf(c)') = ToSet(RowsOf(c))
      BY <1>1 DEF SameChunk, Owed, ChunksOf
  <2>2. \A r \in Retriers : \A t :
           (retry'[r].pc = "enqueue" /\ retry'[r].job = k /\ t \in ToSet(retry'[r].ids))
           <=> (retry[r].pc = "enqueue" /\ retry[r].job = k /\ t \in ToSet(retry[r].ids))
      OBVIOUS
  <2>. QED BY <1>1, <2>1, <2>2 DEF Unrecorded
<1>3. ASSUME NEW k \in Jobs PROVE RowTrue(k)'
  <2>1. RowLeftAlone(k) /\ FairToRow(k)
      BY <1>2 DEF RowLeftAlone, FairToRow
  <2>. QED BY <2>1, RowKeeps DEF Truthful
<1>4. Lists'
  <2>1. ASSUME NEW k \in Jobs PROVE RosterIsSet(k)'
      BY DEF Truthful, Lists, RosterIsSet
  <2>2. ASSUME NEW d \in 1..issued PROVE ChunkIsSet(d)'
      BY <1>1 DEF Truthful, Lists, ChunkIsSet, SameChunk
  <2>3. ASSUME NEW d \in 1..issued, NEW e \in 1..issued PROVE OwedApart(d, e)'
    <3>1. OwedApart(d, e)
        BY DEF Truthful, Lists
    <3>. QED BY <1>1, <3>1 DEF OwedApart
  <2>4. ASSUME NEW r \in Retriers PROVE RetryIsSet(r)'
    <3>1. RetryIsSet(r)
        BY DEF Truthful, Lists
    <3>. QED BY <1>1, <3>1 DEF RetryIsSet
  <2>. QED BY <2>1, <2>2, <2>3, <2>4 DEF Lists
<1>5. ASSUME NEW r \in Retriers PROVE ScanTrue(r)'
  <2>1. CASE retry'[r] = retry[r]
      BY <2>1 DEF Truthful, ScanTrue, ScoredBy, Roster, Undisturbed
  <2>. QED BY <2>1
<1>6. ASSUME NEW d \in 1..issued PROVE ChunkTrue(d)'
  <2>1. FairToChunk(d) /\ ChunkTrue(d)
      BY DEF FairToChunk, Truthful
  <2>. QED BY <1>1, <2>1, ChunkKeeps DEF SameChunk
<1>7. \A t \in Unscorable : prediction'[t] = Absent
    BY DEF Truthful
<1>. QED BY <1>3, <1>4, <1>5, <1>6, <1>7 DEF Truthful

\* The reset: failures are forgotten, and exactly the rows that have no
\* prediction of the job go back to what is not counted.
LEMMA ResetKeeps ==
    ASSUME Calm, TypeOK, Accounted, Truthful, NEW r \in Retriers, RetryReset(r)
    PROVE  Truthful'
<1>1. PICK j \in Jobs : j = retry[r].job
    BY ListTypes DEF RetryReset
<1>2. PICK ids \in SetToSeqs(Outstanding(r)) :
         /\ job' = [job EXCEPT ![j] = ResetRow(@, ChunkCount(Len(ids)))]
         /\ retry' = [retry EXCEPT ![r] = [@ EXCEPT !.pc = "enqueue", !.ids = ids,
                                                    !.done = {}]]
    BY <1>1 DEF RetryReset
<1>3. /\ UNCHANGED <<prediction, deleted, issued, queue, work, tallies, submitting>>
      /\ retry[r].pc = "reset" /\ runs' = [runs EXCEPT ![j] = @ + 1]
    BY <1>1 DEF RetryReset, worker
<1>4. /\ job[j] \in JobRow /\ Roster(j) \in SUBSET Txns
      /\ retry \in [Retriers -> RetryRequest] /\ retry[r] \in RetryRequest
      /\ runs \in [Jobs -> Nat]
    BY ListTypes DEF TypeOK
<1>. DEFINE done == retry[r].done
            left == Roster(j) \ (done \union deleted)
<1>5. Outstanding(r) = left /\ left \in SUBSET Txns
    BY <1>1, <1>4 DEF Outstanding, Roster
<1>6. ids \in Seq(Txns) /\ IsInjective(ids) /\ ToSet(ids) = left
    BY <1>2, <1>5, SqlIds
<1>7. /\ retry'[r].pc = "enqueue" /\ retry'[r].job = j /\ retry'[r].ids = ids
      /\ \A q \in Retriers : q = r
    BY <1>1, <1>2, <1>4 DEF RetryRequest, Calm
<1>8. /\ \A k \in Jobs : k # j => job'[k] = job[k] /\ runs'[k] = runs[k]
      /\ job'[j].transactionIds = job[j].transactionIds
      /\ job'[j].processedCount = job[j].processedCount
      /\ job'[j].failedCount = 0 /\ job'[j].status = "QUEUED"
      /\ runs'[j] # 0
  <2>1. job'[j] = ResetRow(job[j], ChunkCount(Len(ids)))
      BY <1>2 DEF TypeOK
  <2>2. \A k \in Jobs : k # j => job'[k] = job[k]
      BY <1>2 DEF TypeOK
  <2>3. runs'[j] = runs[j] + 1 /\ \A k \in Jobs : k # j => runs'[k] = runs[k]
      BY <1>3, <1>4
  <2>4. runs'[j] # 0
      BY <1>4, <2>3
  <2>. QED BY <1>4, <2>1, <2>2, <2>3, <2>4 DEF ResetRow, JobRow
<1>9. job[j].status \in Terminal
    BY <1>1, <1>3 DEF Accounted, RequestsAccounted, Terminal
<1>10. Owed(j) = {} /\ ~Unqueued(j) /\ Unrecorded(j) = {}
    BY <1>9, FinalOwesNothing
<1>11. /\ \A k : Owed(k)' = Owed(k)
       /\ \A d \in 1..issued : SameChunk(d) /\ Rows(d)' = Rows(d) /\ JobOf(d)' = JobOf(d)
    BY <1>3 DEF Owed, ChunksOf, SameChunk, RowsOf, JobOf, Rows
<1>12. \A k \in Jobs : Roster(k)' = Roster(k)
    BY <1>8 DEF Roster
<1>. HIDE DEF left, done
<1>13. Unrecorded(j)' = left
  <2>1. j \notin submitting'
      BY <1>3, <1>10 DEF Unqueued
  <2>2. Owed(j)' = {}
      BY <1>10, <1>11
  <2>. QED BY <1>5, <1>6, <1>7, <2>1, <2>2 DEF Unrecorded
<1>14. ASSUME NEW k \in Jobs, k # j PROVE Unrecorded(k)' = Unrecorded(k)
  <2>1. \A c \in Owed(k) : ToSet(RowsOf(c)') = ToSet(RowsOf(c))
      BY <1>11 DEF SameChunk, Owed, ChunksOf
  <2>2. /\ \A q \in Retriers : ~(retry'[q].pc = "enqueue" /\ retry'[q].job = k)
        /\ \A q \in Retriers : ~(retry[q].pc = "enqueue" /\ retry[q].job = k)
      BY <1>3, <1>7, <1>14
  <2>. QED BY <1>3, <1>8, <1>11, <1>14, <2>1, <2>2 DEF Unrecorded
<1>15. /\ RowTrue(j) /\ ScanTrue(r) /\ RosterIsSet(j)
       /\ done \in SUBSET Txns /\ \A t \in done : prediction[t] # Absent
       /\ Undisturbed => done = ScoredBy(j, Roster(j))
  <2>1. RowTrue(j) /\ ScanTrue(r) /\ RosterIsSet(j)
      BY DEF Truthful, Lists
  <2>2. done \in SUBSET Txns
      BY <1>4 DEF RetryRequest, done
  <2>. QED BY <1>1, <1>3, <2>1, <2>2 DEF ScanTrue, done
<1>16. RowTrue(j)'
  <2>1. (ScoredBy(j, Txns) \subseteq Roster(j))'
      BY <1>3, <1>12, <1>15 DEF RowTrue, ScoredBy
  <2>2. Ledger(j)'
      BY <1>8 DEF Ledger
  <2>3. NoneLost(j)'
    <3>1. \A t \in Roster(j) \ left : prediction[t] # Absent \/ t \in deleted
        BY <1>15 DEF left
    <3>. QED BY <1>3, <1>12, <1>13, <3>1 DEF NoneLost
  <2>4. StoredIsCounted(j)'
    <3>. DEFINE A == ScoredBy(j, Txns \ (deleted \union {}))
                B == ScoredBy(j, Txns \ (deleted \union left))
    <3>1. A \in SUBSET Txns /\ B \subseteq A
        BY DEF ScoredBy
    <3>2. Cardinality(A) <= job[j].processedCount
        BY <1>10, <1>15 DEF RowTrue, StoredIsCounted
    <3>3. B = ScoredBy(j, Txns \ (deleted \union Unrecorded(j)))'
        BY <1>3, <1>13 DEF ScoredBy
    <3>. HIDE DEF A, B
    <3>4. Cardinality(A) \in Nat /\ Cardinality(B) \in Nat /\ Cardinality(B) <= Cardinality(A)
        BY <3>1, TxnSets
    <3>5. job[j].processedCount \in Nat
        BY <1>4 DEF JobRow
    <3>. QED BY <1>8, <3>2, <3>3, <3>4, <3>5 DEF StoredIsCounted
  <2>5. CountedIsStored(j)'
    <3>1. SUFFICES ASSUME Undisturbed
                   PROVE  job[j].processedCount
                             <= Cardinality(ScoredBy(j, Roster(j) \ Unrecorded(j))')
        BY <1>8 DEF CountedIsStored, Undisturbed
    <3>2. ScoredBy(j, Roster(j) \ Unrecorded(j))' = ScoredBy(j, Roster(j) \ left)
        BY <1>3, <1>12, <1>13 DEF ScoredBy
    <3>3. ScoredBy(j, Roster(j) \ left) = ScoredBy(j, Roster(j) \ {})
        BY <1>15, <3>1 DEF ScoredBy, left
    <3>4. job[j].processedCount <= Cardinality(ScoredBy(j, Roster(j) \ {}))
        BY <1>10, <1>15, <3>1 DEF RowTrue, CountedIsStored
    <3>. QED BY <3>2, <3>3, <3>4
  <2>. QED BY <2>1, <2>2, <2>3, <2>4, <2>5 DEF RowTrue
<1>17. ASSUME NEW k \in Jobs, k # j PROVE RowTrue(k)'
  <2>1. RowLeftAlone(k) /\ FairToRow(k)
      BY <1>3, <1>8, <1>14, <1>17 DEF RowLeftAlone, FairToRow
  <2>. QED BY <1>3, <2>1, RowKeeps DEF Truthful
<1>18. Lists'
  <2>1. ASSUME NEW k \in Jobs PROVE RosterIsSet(k)'
    <3>1. RosterIsSet(k)
        BY DEF Truthful, Lists
    <3>. QED BY <1>8, <3>1 DEF RosterIsSet
  <2>2. ASSUME NEW d \in 1..issued PROVE ChunkIsSet(d)'
    <3>1. ChunkIsSet(d) /\ JobOf(d) \in Jobs
        BY ListTypes DEF Truthful, Lists
    <3>. QED BY <1>11, <1>12, <3>1 DEF ChunkIsSet, SameChunk
  <2>3. ASSUME NEW d \in 1..issued, NEW e \in 1..issued PROVE OwedApart(d, e)'
    <3>1. OwedApart(d, e)
        BY DEF Truthful, Lists
    <3>. QED BY <1>3, <1>11, <3>1 DEF OwedApart
  <2>4. ASSUME NEW q \in Retriers PROVE RetryIsSet(q)'
    <3>1. q = r
        BY <1>7
    <3>2. ToSet(ids) \subseteq Roster(j)'
        BY <1>6, <1>12 DEF left
    <3>3. Roster(retry[r].job)' = Roster(j)'
        BY <1>7 DEF Roster
    <3>. QED BY <1>6, <1>7, <3>1, <3>2, <3>3 DEF RetryIsSet
  <2>5. issued' = issued
      BY <1>3
  <2>. QED BY <2>1, <2>2, <2>3, <2>4, <2>5 DEF Lists
<1>19. \A q \in Retriers : ScanTrue(q)'
    BY <1>7 DEF ScanTrue
<1>20. ASSUME NEW d \in 1..issued PROVE ChunkTrue(d)'
  <2>1. FairToChunk(d) /\ ChunkTrue(d)
      BY <1>3 DEF FairToChunk, Truthful
  <2>. QED BY <1>3, <1>11, <2>1, ChunkKeeps DEF SameChunk
<1>21. (\A t \in Unscorable : prediction'[t] = Absent) /\ issued' = issued
    BY <1>3 DEF Truthful
<1>. QED BY <1>16, <1>17, <1>18, <1>19, <1>20, <1>21 DEF Truthful

\* A retry keeps the rows true, being the only one.
LEMMA RetryKeeps ==
    ASSUME Calm, TypeOK, Accounted, Truthful, NEW r \in Retriers,
           RetryStep(r) \/ \E j \in Jobs : RetryCheck(r, j)
    PROVE  Truthful'
<1>1. /\ retry \in [Retriers -> RetryRequest] /\ retry[r] \in RetryRequest
      /\ retry[r].pc # "idle" => retry[r].job \in Jobs
      /\ \A q \in Retriers : q = r
    BY ListTypes DEF TypeOK, Calm
<1>2. ASSUME NEW j \in Jobs, RetryCheck(r, j) PROVE Truthful'
  <2>1. /\ UNCHANGED <<job, prediction, deleted, issued, queue, work, tallies, submitting, runs>>
        /\ retry[r].pc = "idle" /\ retry'[r].pc = "scan"
      BY <1>1, <1>2 DEF RetryCheck, database, worker, NoRequest
  <2>2. ScanTrue(r)'
      BY <2>1 DEF ScanTrue
  <2>. QED BY <1>1, <2>1, <2>2, RequestMoves
<1>3. CASE RetryScan(r)
  <2>1. PICK j \in Jobs : j = retry[r].job
      BY <1>1, <1>3 DEF RetryScan
  <2>2. /\ UNCHANGED <<job, prediction, deleted, issued, queue, work, tallies, submitting, runs>>
        /\ retry[r].pc = "scan" /\ retry'[r].pc = "reset" /\ retry'[r].job = j
        /\ retry'[r].done = ScoredBy(j, Roster(j))
      BY <1>1, <1>3, <2>1 DEF RetryScan, RetryRequest, database, worker, Roster
  <2>3. \A t \in ScoredBy(j, Roster(j)) : prediction[t] # Absent
      BY ConstantsAssumption DEF ScoredBy
  <2>4. ScoredBy(retry[r].job, Roster(retry[r].job))' = ScoredBy(j, Roster(j))
      BY <2>2 DEF ScoredBy, Roster
  <2>5. ScanTrue(r)'
      BY <2>2, <2>3, <2>4 DEF ScanTrue
  <2>. QED BY <1>1, <2>2, <2>5, RequestMoves
<1>4. CASE RetryNothingLeft(r)
  <2>1. /\ UNCHANGED <<job, prediction, deleted, issued, queue, work, tallies, submitting, runs>>
        /\ retry[r].pc = "reset" /\ retry'[r].pc = "idle"
      BY <1>1, <1>4 DEF RetryNothingLeft, database, worker, NoRequest
  <2>2. ScanTrue(r)'
      BY <2>1 DEF ScanTrue
  <2>. QED BY <1>1, <2>1, <2>2, RequestMoves
<1>5. CASE RetryReset(r)
    BY <1>5, ResetKeeps
<1>6. CASE RetryEnqueue(r)
  <2>1. PICK j \in Jobs : j = retry[r].job
      BY <1>1, <1>6 DEF RetryEnqueue
  <2>2. PICK ids \in Seq(Txns) : ids = retry[r].ids
      BY <1>1 DEF RetryRequest
  <2>3. /\ UNCHANGED <<job, prediction, deleted, submitting, runs>>
        /\ retry[r].pc = "enqueue" /\ AddBulk(j, ids)
      BY <1>6, <2>1, <2>2 DEF RetryEnqueue, database
  <2>4. retry'[r].pc = "idle"
      BY <1>1, <1>6 DEF RetryEnqueue, NoRequest
  <2>5. j \notin submitting /\ Unqueued(j)
      BY <2>1, <2>3 DEF Accounted, RequestsAccounted, Unqueued
  <2>6. Owed(j) = {} /\ ~Unqueued(j)'
      BY <1>1, <2>3, <2>4, <2>5 DEF Accounted, RowAccounted, Unqueued
  <2>7. IsInjective(ids) /\ ToSet(ids) \subseteq Roster(j) /\ ToSet(ids) \in SUBSET Txns
      BY <2>1, <2>2, <2>3, ListIsSet DEF Truthful, Lists, RetryIsSet
  <2>8. Unrecorded(j) = ToSet(ids)
      BY <1>1, <2>1, <2>2, <2>3, <2>5, <2>6, <2>7 DEF Unrecorded
  <2>9. \A q \in Retriers : /\ retry[q].pc = "enqueue" /\ retry[q].job = j
                            /\ retry'[q].pc = "idle"
      BY <1>1, <2>1, <2>3, <2>4
  <2>. QED BY <2>3, <2>6, <2>7, <2>8, <2>9, AddBulkKeeps
<1>7. CASE RetryEnqueueFails(r)
    BY <1>7 DEF RetryEnqueueFails, Calm
<1>. QED BY <1>2, <1>3, <1>4, <1>5, <1>6, <1>7 DEF RetryStep

-----------------------------------------------------------------------------
(* The theorems.                                                           *)

\* Before the first request there is nothing to be wrong about.
LEMMA InitTrue == Init => Truthful
<1>. SUFFICES ASSUME Init PROVE Truthful
    OBVIOUS
<1>1. /\ issued = 0 /\ 1..issued = {} /\ submitting = {}
      /\ \A t \in Txns : prediction[t] = Absent
      /\ \A j \in Jobs : job[j] = NoRow
      /\ \A r \in Retriers : retry[r].pc = "idle"
    BY DEF Init, NoRequest
<1>2. ASSUME NEW j \in Jobs
      PROVE  /\ job[j].transactionIds = <<>> /\ job[j].processedCount = 0
             /\ job[j].failedCount = 0 /\ Roster(j) = {}
             /\ Unrecorded(j) = {} /\ \A S \in SUBSET Txns : ScoredBy(j, S) = {}
  <2>1. ToSet(<<>>) = {}
      BY DEF ToSet
  <2>2. Owed(j) = {}
      BY <1>1 DEF Owed, ChunksOf
  <2>3. Unrecorded(j) = {}
      BY <1>1, <2>2 DEF Unrecorded
  <2>4. \A S \in SUBSET Txns : ScoredBy(j, S) = {}
      BY <1>1, ConstantsAssumption DEF ScoredBy
  <2>. QED BY <1>1, <2>1, <2>3, <2>4 DEF NoRow, Roster
<1>3. ASSUME NEW j \in Jobs PROVE RowTrue(j)
  <2>1. Cardinality({}) = 0
      BY FS_EmptySet
  <2>2. /\ Cardinality(Unrecorded(j)) = 0 /\ Len(job[j].transactionIds) = 0
        /\ job[j].processedCount = 0 /\ job[j].failedCount = 0
    <3>1. Cardinality(Unrecorded(j)) = 0
        BY <1>2, <2>1, Zenon
    <3>2. Len(job[j].transactionIds) = 0
      <4>1. job[j].transactionIds = <<>>
          BY <1>2, Zenon
      <4>. QED BY <4>1
    <3>. QED BY <1>2, <3>1, <3>2, Zenon
  <2>3. Ledger(j)
    <3>. DEFINE u == Cardinality(Unrecorded(j))
                n == Len(job[j].transactionIds)
                p == job[j].processedCount
                f == job[j].failedCount
    <3>1. u = 0 /\ n = 0 /\ p = 0 /\ f = 0
        BY <2>2, Zenon
    <3>. HIDE DEF u, n, p, f
    <3>2. p + f + u = n
        BY <3>1
    <3>. QED BY <3>2, Zenon DEF Ledger, u, n, p, f
  <2>4. /\ Cardinality(ScoredBy(j, Txns \ (deleted \union Unrecorded(j)))) = 0
        /\ Cardinality(ScoredBy(j, Roster(j) \ Unrecorded(j))) = 0
    <3>1. /\ Txns \ (deleted \union Unrecorded(j)) \in SUBSET Txns
          /\ Roster(j) \ Unrecorded(j) \in SUBSET Txns
        BY <1>2
    <3>2. /\ ScoredBy(j, Txns \ (deleted \union Unrecorded(j))) = {}
          /\ ScoredBy(j, Roster(j) \ Unrecorded(j)) = {}
        BY <1>2, <3>1, Zenon
    <3>. QED BY <2>1, <3>2, Zenon
  <2>5. StoredIsCounted(j) /\ CountedIsStored(j)
    <3>. DEFINE p == job[j].processedCount
                a == Cardinality(ScoredBy(j, Txns \ (deleted \union Unrecorded(j))))
                b == Cardinality(ScoredBy(j, Roster(j) \ Unrecorded(j)))
    <3>1. p = 0 /\ a = 0 /\ b = 0
        BY <2>2, <2>4, Zenon
    <3>. HIDE DEF p, a, b
    <3>2. a <= p /\ p <= b
        BY <3>1
    <3>. QED BY <3>2, Zenon DEF StoredIsCounted, CountedIsStored, p, a, b
  <2>6. NoneLost(j)
      BY <1>2 DEF NoneLost
  <2>. QED BY <1>2, <2>3, <2>5, <2>6 DEF RowTrue
<1>4. ASSUME NEW j \in Jobs PROVE RosterIsSet(j)
    BY <1>1, <1>2 DEF RosterIsSet, IsInjective
<1>5. Lists
    BY <1>1, <1>4 DEF Lists, RetryIsSet
<1>6. \A r \in Retriers : ScanTrue(r)
    BY <1>1 DEF ScanTrue
<1>7. \A t \in Unscorable : prediction[t] = Absent
    BY <1>1, ConstantsAssumption
<1>. QED BY <1>1, <1>3, <1>5, <1>6, <1>7 DEF Truthful

\* Every step keeps the rows true.
LEMMA NextTrue ==
    ASSUME Calm, TypeOK, Accounted, Truthful, [Next]_vars
    PROVE  Truthful'
<1>1. ASSUME NEW c \in 1..issued, ChunkStep(c) PROVE Truthful'
  <2>1. CASE recordChunkResult(c)
      BY <2>1, RecordKeeps
  <2>2. CASE RowFails(c) \/ BookkeepingFails(c)
      BY <2>2 DEF RowFails, BookkeepingFails, Calm
  <2>3. CASE StalledCheck(c)
    <3>1. queue[c].state = "stalled" /\ ChunkAccounted(c)
        BY <2>3 DEF StalledCheck, Accounted
    <3>. QED BY <3>1 DEF ChunkAccounted
  <2>. QED BY <1>1, <2>1, <2>2, <2>3, LoopStepKeeps DEF ChunkStep
<1>2. CASE ApiStep
  <2>1. ASSUME NEW j \in Jobs, EnqueueJobFails(j) PROVE FALSE
      BY <2>1 DEF EnqueueJobFails, Calm
  <2>. QED BY <1>2, <2>1, EnqueueKeeps, RetryKeeps DEF ApiStep
<1>3. CASE Exit
  <2>1. draining /\ ~draining
      BY <1>3, Zenon DEF Exit, Accounted
  <2>. QED BY <2>1, Zenon
<1>4. ASSUME NEW j \in Jobs, CreateJob(j) \/ \E r \in Retriers : RetryCheck(r, j)
      PROVE  Truthful'
    BY <1>4, CreateKeeps, RetryKeeps
<1>5. ASSUME NEW t \in Txns, Rescore(t) \/ softDeleteTransaction(t) PROVE Truthful'
  <2>1. /\ UNCHANGED <<job, issued, queue, work, tallies, submitting, retry, runs>>
        /\ deleted \subseteq deleted'
        /\ prediction' = prediction \/ \E u \in Txns : Rescore(u)
      BY <1>5 DEF Rescore, softDeleteTransaction, worker, requests
  <2>. QED BY <2>1, BystanderKeeps
<1>6. CASE WorkerDies \/ Stop
    BY <1>6 DEF WorkerDies, Stop, Calm
<1>7. CASE UNCHANGED vars
  <2>1. /\ UNCHANGED <<job, issued, queue, work, tallies, submitting, retry, runs>>
        /\ deleted \subseteq deleted' /\ prediction' = prediction
      BY <1>7 DEF vars
  <2>. QED BY <2>1, BystanderKeeps
<1>. QED BY <1>1, <1>2, <1>3, <1>4, <1>5, <1>6, <1>7 DEF Next, WorkerStep, Outside

\* While nothing but the scorer fails and retries do not overlap, what a row
\* counts is what the table of predictions holds, in every state of every run.
THEOREM RowsStayTrue == ASSUME Calm PROVE Spec => []Truthful
<1>1. Init => Truthful
    BY InitTrue
<1>2. TypeOK /\ Accounted /\ Truthful /\ [Next]_vars => Truthful'
    BY NextTrue
<1>3. Spec => []TypeOK
    BY TypeCorrect
<1>4. Spec => []Accounted
    BY BooksBalance
<1>. QED BY <1>1, <1>2, <1>3, <1>4, PTL DEF Spec

\* What the invariant says of a finished row, and of the first run.
LEMMA TruthOfRows ==
    ASSUME TypeOK, Accounted, Truthful
    PROVE  RowTellsTheTruth
<1>1. StatusMatchesCounters
    BY BooksMeanProgress
<1>2. ASSUME NEW j \in Jobs, job[j].status \in Terminal
      PROVE  RowTrue(j) /\ Unrecorded(j) = {}
    BY <1>2, FinalOwesNothing DEF Truthful
<1>3. CompletedMeansScored
  <2>1. SUFFICES ASSUME NEW j \in Jobs, job[j].status = "COMPLETED",
                        NEW t \in ToSet(job[j].transactionIds)
                 PROVE  prediction[t] # Absent \/ t \in deleted
      BY DEF CompletedMeansScored
  <2>2. job[j].status \in Terminal
      BY <2>1 DEF Terminal
  <2>3. FinalStatus(job[j]) = "COMPLETED"
      BY <1>1, <2>1, <2>2 DEF StatusMatchesCounters
  <2>4. job[j].failedCount = 0
      BY <2>3 DEF FinalStatus
  <2>. QED BY <1>2, <2>1, <2>2, <2>4 DEF RowTrue, NoneLost, Roster
<1>4. LedgerBalances
    BY DEF LedgerBalances, Truthful, RowTrue, Ledger
<1>5. StoredPredictionsAreCounted
  <2>1. SUFFICES ASSUME NEW j \in Jobs, job[j].status \in Terminal
                 PROVE  Cardinality(ScoredBy(j, Txns \ deleted)) <= job[j].processedCount
      BY DEF StoredPredictionsAreCounted
  <2>2. deleted \union Unrecorded(j) = deleted
      BY <1>2, <2>1
  <2>. QED BY <1>2, <2>1, <2>2 DEF RowTrue, StoredIsCounted
<1>. QED BY <1>1, <1>3, <1>4, <1>5 DEF RowTellsTheTruth

\* A finished row tells the truth: its status, its counters, the predictions it
\* claims and those that carry its id.
THEOREM RowsTellTheTruth == ASSUME Calm PROVE Spec => []RowTellsTheTruth
<1>1. TypeOK /\ Accounted /\ Truthful => RowTellsTheTruth
    BY TruthOfRows
<1>. QED BY <1>1, RowsStayTrue, BooksBalance, TypeCorrect, PTL

\* A retry's rows and those counted already are different rows of the roster.
LEMMA TruthOfRetries ==
    ASSUME Undisturbed, TypeOK, Accounted, Truthful
    PROVE  RetryLeavesScoredAlone
<1>1. SUFFICES ASSUME NEW r \in Retriers, retry[r].pc = "enqueue"
               PROVE  job[retry[r].job].processedCount + Len(retry[r].ids)
                         <= Len(job[retry[r].job].transactionIds)
    BY DEF RetryLeavesScoredAlone
<1>2. PICK j \in Jobs : j = retry[r].job
    BY <1>1, ListTypes
<1>. DEFINE T == ToSet(retry[r].ids)
            R == Roster(j)
            C == ScoredBy(j, R \ Unrecorded(j))
<1>3. /\ retry[r].ids \in Seq(Txns) /\ IsInjective(retry[r].ids) /\ T \subseteq R
      /\ job[j].transactionIds \in Seq(Txns) /\ IsInjective(job[j].transactionIds)
      /\ R \in SUBSET Txns /\ T \in SUBSET Txns
      /\ job[j].processedCount \in Nat
    BY <1>1, <1>2, ListTypes DEF Truthful, Lists, RetryIsSet, RosterIsSet, JobRow
<1>4. Cardinality(T) = Len(retry[r].ids) /\ Cardinality(R) = Len(job[j].transactionIds)
    BY <1>3, ListIsSet DEF Roster
<1>5. T \subseteq Unrecorded(j)
    BY <1>1, <1>2, <1>3 DEF Unrecorded
<1>6. /\ C \in SUBSET Txns /\ C \intersect T = {} /\ C \union T \in SUBSET R
    BY <1>3, <1>5 DEF ScoredBy
<1>7. job[j].processedCount <= Cardinality(C)
    BY DEF Truthful, RowTrue, CountedIsStored
<1>. HIDE DEF T, R, C
<1>8. /\ Cardinality(C) \in Nat /\ Cardinality(T) \in Nat /\ Cardinality(R) \in Nat
      /\ Cardinality(C \union T) = Cardinality(C) + Cardinality(T)
      /\ Cardinality(C \union T) <= Cardinality(R)
    BY <1>3, <1>6, TxnSets, TxnUnion
<1>. QED BY <1>2, <1>3, <1>4, <1>7, <1>8

\* "Rows that succeeded the first time are left alone": while nobody else
\* writes over a job's predictions, a retry never enqueues a row its job has
\* already counted processed.
THEOREM RetriesLeaveScoredAlone ==
    ASSUME Calm, Undisturbed PROVE Spec => []RetryLeavesScoredAlone
<1>1. TypeOK /\ Accounted /\ Truthful => RetryLeavesScoredAlone
    BY TruthOfRetries
<1>. QED BY <1>1, RowsStayTrue, BooksBalance, TypeCorrect, PTL

-----------------------------------------------------------------------------
(* Only an accepted retry changes a finished row.                          *)

\* A finished row changes only together with the count of its accepted retries.
Frozen == \A j \in Jobs : job[j].status \in Terminal /\ job'[j] # job[j]
                             => runs'[j] = runs[j] + 1

\* The worker writes no finished row: an attempt still under way is still owed,
\* a first listed chunk finds the row PROCESSING already, and the last one
\* looks at the status again.
LEMMA WorkerFreezes ==
    ASSUME TypeOK, Accounted, NEW c \in 1..issued, ChunkStep(c)
    PROVE  Frozen
<1>. DEFINE k == JobOf(c)
<1>1. job \in [Jobs -> JobRow] /\ k \in Jobs
    BY ListTypes DEF TypeOK, JobOf, Chunk
<1>2. SUFFICES ASSUME NEW j \in Jobs, job[j].status \in Terminal
               PROVE  job'[j] = job[j]
    BY DEF Frozen
<1>3. CASE markJobProcessing(c)
  <2>1. CASE job[k].status = "QUEUED"
    <3>1. job' = [job EXCEPT ![k] = [@ EXCEPT !.status = "PROCESSING"]] /\ j # k
        BY <1>2, <1>3, <2>1 DEF markJobProcessing, Terminal, RETRYABLE_STATUSES
    <3>. QED BY <1>1, <3>1
  <2>2. CASE job[k].status # "QUEUED"
      BY <1>3, <2>2 DEF markJobProcessing
  <2>. QED BY <2>1, <2>2
<1>4. CASE recordChunkResult(c)
  <2>1. work[c].pc = "tally" /\ \E row : job' = [job EXCEPT ![k] = row]
      BY <1>4 DEF recordChunkResult
  <2>2. c \in Owed(k)
      BY <2>1, UnderWayIsOwed
  <2>3. Owed(j) = {}
      BY <1>2, FinalOwesNothing
  <2>4. j # k
      BY <2>2, <2>3
  <2>. QED BY <1>1, <2>1, <2>4
<1>5. CASE finalizeJob(c)
  <2>1. CASE job[k].status \in IN_FLIGHT
    <3>1. job' = [job EXCEPT ![k] = [@ EXCEPT !.status = work[c].verdict]] /\ j # k
        BY <1>2, <1>5, <2>1 DEF finalizeJob, Terminal, RETRYABLE_STATUSES, IN_FLIGHT
    <3>. QED BY <1>1, <3>1
  <2>2. CASE job[k].status \notin IN_FLIGHT
      BY <1>5, <2>2 DEF finalizeJob
  <2>. QED BY <2>1, <2>2
<1>6. CASE Take(c) \/ FetchRow(c) \/ ScorerFails(c) \/ LookupRow(c) \/ WriteRow(c)
           \/ RowFails(c) \/ Acknowledge(c) \/ countScored(c) \/ BookkeepingFails(c)
           \/ StalledCheck(c)
    BY <1>6 DEF Take, FetchRow, ScorerFails, LookupRow, WriteRow, RowFails,
                Acknowledge, countScored, BookkeepingFails, StalledCheck, database
<1>. QED BY <1>3, <1>4, <1>5, <1>6 DEF ChunkStep

\* Nor does a step of a request, a user or a failure, save a retry's reset.
LEMMA OthersFreeze ==
    ASSUME TypeOK, Accounted, ApiStep \/ Outside \/ Exit \/ UNCHANGED vars
    PROVE  Frozen
<1>1. job \in [Jobs -> JobRow] /\ runs \in [Jobs -> Nat]
    BY DEF TypeOK
<1>2. ASSUME NEW k \in Jobs, CreateJob(k) PROVE Frozen
  <2>1. \E row : job' = [job EXCEPT ![k] = row]
      BY <1>2 DEF CreateJob
  <2>2. job[k].status \notin Terminal
      BY <1>2 DEF CreateJob, Terminal, RETRYABLE_STATUSES
  <2>. QED BY <1>1, <2>1, <2>2 DEF Frozen
<1>3. ASSUME NEW r \in Retriers, RetryReset(r) PROVE Frozen
  <2>. DEFINE k == retry[r].job
  <2>1. k \in Jobs
      BY <1>3 DEF RetryReset, TypeOK
  <2>2. \E row : job' = [job EXCEPT ![k] = row]
      BY <1>3 DEF RetryReset
  <2>3. runs'[k] = runs[k] + 1
      BY <1>1, <1>3, <2>1 DEF RetryReset
  <2>. QED BY <1>1, <2>1, <2>2, <2>3 DEF Frozen
<1>4. CASE job' = job
    BY <1>4 DEF Frozen
<1>5. ASSUME NEW k \in Jobs, EnqueueJob(k) \/ EnqueueJobFails(k) PROVE job' = job
    BY <1>5 DEF EnqueueJob, EnqueueJobFails, database
<1>6. ASSUME NEW r \in Retriers,
             \/ RetryScan(r) \/ RetryNothingLeft(r) \/ RetryEnqueue(r)
             \/ RetryEnqueueFails(r) \/ \E j \in Jobs : RetryCheck(r, j)
      PROVE  job' = job
    BY <1>6 DEF RetryScan, RetryNothingLeft, RetryEnqueue, RetryEnqueueFails,
                RetryCheck, database
<1>7. ASSUME NEW t \in Txns, Rescore(t) \/ softDeleteTransaction(t) PROVE job' = job
    BY <1>7 DEF Rescore, softDeleteTransaction
<1>8. CASE WorkerDies \/ Stop \/ Exit \/ UNCHANGED vars
  <2>1. job' = job
      BY <1>8 DEF WorkerDies, Stop, Exit, vars, database
  <2>. QED BY <1>4, <2>1
<1>. QED BY <1>2, <1>3, <1>4, <1>5, <1>6, <1>7, <1>8 DEF ApiStep, Outside, RetryStep

\* A finished row is frozen: its status and its counters change only when a
\* retry is accepted (jobs.service.js retryJob); no attempt of an earlier run,
\* and no late listener, still writes to it.
THEOREM FinishedRowIsFrozen == ASSUME Calm PROVE Spec => FinalRowIsFrozen
<1>1. TypeOK /\ Accounted /\ [Next]_vars
         => [\A j \in Jobs : job[j].status \in Terminal /\ job'[j] # job[j]
                                => runs'[j] = runs[j] + 1]_vars
    BY WorkerFreezes, OthersFreeze DEF Next, WorkerStep, Frozen
<1>. QED BY <1>1, TypeCorrect, BooksBalance, PTL DEF Spec, FinalRowIsFrozen

-----------------------------------------------------------------------------
(* Worker, queue and requests implement what a job promises, step by step. *)

\* The places of an attempt, or of a listener, that come after markJobProcessing.
Marked == {"fetch", "lookup", "insert", "update", "tally", "salvage", "finalize"}

\* What the promise needs beyond the books: chunks are no larger than CHUNK_SIZE,
\* and a row is PROCESSING as long as one of its chunks is past the mark.
ChunkFits(c)  == Len(RowsOf(c)) <= ChunkSize
RowIsMoved(c) == work[c].pc \in Marked => job[JobOf(c)].status = "PROCESSING"

Promised == \A c \in 1..issued : ChunkFits(c) /\ RowIsMoved(c)

\* A chunk past the mark is of a row in flight, whose chunks are all enqueued.
LEMMA MarkedIsInFlight ==
    ASSUME TypeOK, Accounted, NEW c \in 1..issued, work[c].pc \in Marked
    PROVE  /\ JobOf(c) \in Jobs /\ c \in ChunksOf(JobOf(c))
           /\ job[JobOf(c)].status \in IN_FLIGHT /\ ~Unqueued(JobOf(c))
           /\ work[c].pc # "finalize" => c \in Owed(JobOf(c))
<1>1. JobOf(c) \in Jobs /\ c \in ChunksOf(JobOf(c))
    BY ListTypes DEF ChunksOf, JobOf
<1>2. ChunkAccounted(c) /\ RowAccounted(JobOf(c))
    BY <1>1 DEF Accounted
<1>3. work[c].pc # "finalize" => c \in Owed(JobOf(c))
    BY <1>1, <1>2 DEF ChunkAccounted, Marked, Owed
<1>4. work[c].pc = "finalize" => Finalising(JobOf(c))
    BY <1>1 DEF Finalising
<1>. QED BY <1>1, <1>2, <1>3, <1>4 DEF RowAccounted

\* A step of chunk c that takes no row out of PROCESSING.
LEMMA MoveKeepsPromise ==
    ASSUME TypeOK, Promised, NEW c \in 1..issued, issued' = issued,
           \A d \in 1..issued : SameChunk(d),
           \A d \in 1..issued : d # c => work'[d].pc = work[d].pc,
           \A j \in Jobs : job[j].status = "PROCESSING" => job'[j].status = "PROCESSING",
           RowIsMoved(c)'
    PROVE  Promised'
<1>1. SUFFICES ASSUME NEW d \in 1..issued PROVE ChunkFits(d)' /\ RowIsMoved(d)'
    BY DEF Promised
<1>2. SameChunk(d) /\ ChunkFits(d) /\ RowIsMoved(d) /\ JobOf(d) \in Jobs
    BY <1>1, ListTypes DEF Promised
<1>3. ChunkFits(d)'
    BY <1>2 DEF SameChunk, ChunkFits
<1>4. d # c => RowIsMoved(d)'
    BY <1>2 DEF SameChunk, RowIsMoved
<1>. QED BY <1>3, <1>4

\* The queue's records keep their transactions whatever a chunk's step does.
LEMMA ChunkStepMoves ==
    ASSUME TypeOK, Accounted, NEW c \in 1..issued,
           \/ Take(c) \/ markJobProcessing(c) \/ FetchRow(c) \/ ScorerFails(c)
           \/ LookupRow(c) \/ WriteRow(c) \/ recordChunkResult(c) \/ finalizeJob(c)
           \/ Acknowledge(c) \/ countScored(c)
    PROVE  /\ issued' = issued /\ \A d \in 1..issued : SameChunk(d)
           /\ \A d \in 1..issued : d # c => work'[d].pc = work[d].pc
<1>1. work \in [1..issued -> Work]
    BY DEF TypeOK
<1>2. CASE Take(c) \/ Acknowledge(c)
  <2>1. /\ \E s \in ChunkState : queue' = [queue EXCEPT ![c].state = s]
        /\ issued' = issued /\ \E w : work' = [work EXCEPT ![c] = w]
      BY <1>2 DEF Take, Acknowledge, ChunkState
  <2>. QED BY <1>1, <2>1, ChunkMoves
<1>3. CASE ScorerFails(c)
  <2>1. AttemptFails(c) /\ issued' = issued
      BY <1>3 DEF ScorerFails
  <2>2. \E w : work' = [work EXCEPT ![c] = w]
      BY <2>1 DEF AttemptFails
  <2>. QED BY <1>1, <2>1, <2>2, ChunkMoves
<1>4. CASE markJobProcessing(c) \/ FetchRow(c) \/ LookupRow(c) \/ WriteRow(c)
           \/ recordChunkResult(c) \/ finalizeJob(c) \/ countScored(c)
  <2>1. queue' = queue /\ issued' = issued
      BY <1>4 DEF markJobProcessing, FetchRow, LookupRow, WriteRow, recordChunkResult,
                  finalizeJob, countScored
  <2>2. \A d \in 1..issued : SameChunk(d)
      BY <2>1, ChunkMoves
  <2>3. \A d \in 1..issued : d # c => work'[d] = work[d]
      BY <1>1, <1>4 DEF markJobProcessing, FetchRow, LookupRow, WriteRow, recordChunkResult,
                        finalizeJob, countScored, CountRow
  <2>. QED BY <2>1, <2>2, <2>3
<1>. QED BY <1>2, <1>3, <1>4

LEMMA WorkerKeepsPromise ==
    ASSUME TypeOK, Accounted, Promised, NEW c \in 1..issued,
           \/ Take(c) \/ markJobProcessing(c) \/ FetchRow(c) \/ ScorerFails(c)
           \/ LookupRow(c) \/ WriteRow(c) \/ recordChunkResult(c) \/ finalizeJob(c)
           \/ Acknowledge(c) \/ countScored(c)
    PROVE  Promised'
<1>. DEFINE k == JobOf(c)
<1>1. /\ issued' = issued /\ \A d \in 1..issued : SameChunk(d)
      /\ \A d \in 1..issued : d # c => work'[d].pc = work[d].pc
    BY ChunkStepMoves
<1>2. /\ work \in [1..issued -> Work] /\ job \in [Jobs -> JobRow]
      /\ k \in Jobs /\ JobOf(c)' = k /\ RowIsMoved(c) /\ job[k] \in JobRow
    BY <1>1, ListTypes DEF TypeOK, SameChunk, Promised
<1>3. CASE markJobProcessing(c)
  <2>1. ChunkAccounted(c) /\ work[c].pc = "mark"
      BY <1>3 DEF markJobProcessing, Accounted
  <2>2. c \in Owed(k)
      BY <2>1, UnderWayIsOwed DEF InLoop
  <2>3. job[k].status \in IN_FLIGHT
      BY <1>2, <2>2 DEF Accounted, RowAccounted, IN_FLIGHT
  <2>4. CASE job[k].status = "QUEUED"
    <3>1. job' = [job EXCEPT ![k].status = "PROCESSING"]
        BY <1>3, <2>4 DEF markJobProcessing
    <3>2. \A j \in Jobs : job'[j].status = IF j = k THEN "PROCESSING" ELSE job[j].status
        BY <1>2, <3>1 DEF JobRow
    <3>. QED BY <1>1, <1>2, <3>2, MoveKeepsPromise DEF RowIsMoved
  <2>5. CASE job[k].status # "QUEUED"
    <3>1. job' = job /\ job[k].status = "PROCESSING"
        BY <1>3, <2>3, <2>5 DEF markJobProcessing, IN_FLIGHT
    <3>. QED BY <1>1, <1>2, <3>1, MoveKeepsPromise DEF RowIsMoved
  <2>. QED BY <2>4, <2>5
<1>4. CASE recordChunkResult(c)
  <2>1. work[c].pc = "tally"
      BY <1>4 DEF recordChunkResult
  <2>2. job[k].status = "PROCESSING"
      BY <1>2, <2>1 DEF RowIsMoved, Marked
  <2>3. \A j \in Jobs : job'[j].status = job[j].status
      BY <1>2, <1>4 DEF recordChunkResult, JobRow
  <2>. QED BY <1>1, <1>2, <2>2, <2>3, MoveKeepsPromise DEF RowIsMoved
<1>5. CASE finalizeJob(c)
  <2>1. work[c].pc = "finalize" /\ work'[c].pc \in {"idle", "ack"}
      BY <1>2, <1>5 DEF finalizeJob, Recorded, Idle
  <2>2. Owed(k) = {} /\ \A d \in ChunksOf(k) : work[d].pc = "finalize" => d = c
      BY <2>1 DEF Accounted, FinaliserAccounted
  <2>3. \A j \in Jobs : j # k => job'[j] = job[j]
      BY <1>2, <1>5 DEF finalizeJob
  <2>4. ASSUME NEW d \in 1..issued PROVE ChunkFits(d)' /\ RowIsMoved(d)'
    <3>1. SameChunk(d) /\ ChunkFits(d) /\ RowIsMoved(d) /\ JobOf(d) \in Jobs
        BY <1>1, ListTypes DEF Promised
    <3>2. ChunkFits(d)'
        BY <3>1 DEF SameChunk, ChunkFits
    <3>3. d = c => RowIsMoved(d)'
        BY <2>1 DEF RowIsMoved, Marked
    <3>4. ASSUME d # c, JobOf(d) = k PROVE RowIsMoved(d)'
      <4>1. work[d].pc \notin Marked
          BY <2>2, <3>4, MarkedIsInFlight
      <4>. QED BY <1>1, <3>4, <4>1 DEF RowIsMoved
    <3>5. ASSUME d # c, JobOf(d) # k PROVE RowIsMoved(d)'
        BY <1>1, <2>3, <3>1, <3>5 DEF RowIsMoved, SameChunk
    <3>. QED BY <3>2, <3>3, <3>4, <3>5
  <2>. QED BY <1>1, <2>4 DEF Promised
<1>6. CASE Take(c) \/ Acknowledge(c)
  <2>0. \A w : w \in {[Idle EXCEPT !.pc = "mark"], Idle} => w.pc \in {"mark", "idle"}
      BY DEF Idle
  <2>1. /\ job' = job
        /\ \E w \in {[Idle EXCEPT !.pc = "mark"], Idle} : work' = [work EXCEPT ![c] = w]
      BY <1>6 DEF Take, Acknowledge, database
  <2>2. work'[c].pc \in {"mark", "idle"}
      BY <1>2, <2>0, <2>1
  <2>3. RowIsMoved(c)'
      BY <2>2 DEF RowIsMoved, Marked
  <2>. QED BY <1>1, <2>1, <2>3, MoveKeepsPromise
<1>7. CASE FetchRow(c) \/ ScorerFails(c) \/ LookupRow(c) \/ WriteRow(c) \/ countScored(c)
  <2>1. job' = job /\ work[c].pc \in Marked
      BY <1>7 DEF FetchRow, ScorerFails, LookupRow, WriteRow, countScored, database, Marked
  <2>. QED BY <1>1, <1>2, <2>1, MoveKeepsPromise DEF RowIsMoved
<1>. QED BY <1>3, <1>4, <1>5, <1>6, <1>7

\* Enqueuing: a chunk is cut to CHUNK_SIZE and starts idle.
LEMMA AddBulkKeepsPromise ==
    ASSUME TypeOK, Promised, NEW j \in Jobs, NEW ids \in Seq(Txns),
           AddBulk(j, ids), job' = job
    PROVE  Promised'
<1>. DEFINE n == ChunkCount(Len(ids))
<1>1. n \in Nat /\ issued \in Nat /\ issued' = issued + n /\ ChunkSize \in Nat
    BY ChunkCountCovers, ConstantsAssumption DEF TypeOK, AddBulk
<1>2. ASSUME NEW d \in 1..issued PROVE ChunkFits(d)' /\ RowIsMoved(d)'
  <2>1. queue'[d] = queue[d] /\ work'[d] = work[d]
      BY <1>1 DEF AddBulk
  <2>. QED BY <2>1 DEF Promised, ChunkFits, RowIsMoved, RowsOf, JobOf
<1>3. ASSUME NEW d \in 1..(issued + n), ~(d <= issued)
      PROVE  ChunkFits(d)' /\ RowIsMoved(d)'
  <2>1. RowsOf(d)' = chunk(ids, d - issued) /\ work'[d] = Idle /\ d - issued \in 1..n
      BY <1>1, <1>3 DEF AddBulk, RowsOf
  <2>2. /\ Len(chunk(ids, d - issued)) \in Nat
        /\ \A i \in 1..Len(chunk(ids, d - issued)) : i <= ChunkSize
      BY <2>1, ChunkAt
  <2>3. Len(chunk(ids, d - issued)) <= ChunkSize
      BY <1>1, <2>2
  <2>. QED BY <2>1, <2>3 DEF ChunkFits, RowIsMoved, Idle, Marked
<1>. QED BY <1>1, <1>2, <1>3 DEF Promised

\* A request writes no row that has a chunk past the mark.
LEMMA RowKeepsPromise ==
    ASSUME TypeOK, Accounted, Promised, NEW k \in Jobs,
           job[k].status \notin IN_FLIGHT,
           \A j \in Jobs : j # k => job'[j] = job[j],
           UNCHANGED <<issued, queue, work>>
    PROVE  Promised'
<1>1. SUFFICES ASSUME NEW d \in 1..issued PROVE ChunkFits(d)' /\ RowIsMoved(d)'
    BY DEF Promised
<1>2. ChunkFits(d) /\ RowIsMoved(d) /\ JobOf(d) \in Jobs /\ JobOf(d)' = JobOf(d)
    BY ListTypes DEF Promised, JobOf
<1>3. ChunkFits(d)'
    BY <1>2 DEF ChunkFits, RowsOf
<1>4. work[d].pc \in Marked => JobOf(d) # k
    BY MarkedIsInFlight
<1>. QED BY <1>2, <1>3, <1>4 DEF RowIsMoved

LEMMA NextPromised ==
    ASSUME Calm, TypeOK, Accounted, Promised, [Next]_vars
    PROVE  Promised'
<1>0. job \in [Jobs -> JobRow]
    BY DEF TypeOK
<1>1. ASSUME NEW c \in 1..issued, ChunkStep(c) PROVE Promised'
  <2>1. ~RowFails(c) /\ ~BookkeepingFails(c)
      BY DEF RowFails, BookkeepingFails, Calm
  <2>2. ~StalledCheck(c)
      BY DEF StalledCheck, Accounted, ChunkAccounted
  <2>. QED BY <1>1, <2>1, <2>2, WorkerKeepsPromise DEF ChunkStep
<1>2. CASE UNCHANGED <<job, issued, queue, work>>
    BY <1>2 DEF Promised, ChunkFits, RowIsMoved, RowsOf, JobOf
<1>3. ASSUME NEW j \in Jobs, EnqueueJob(j) \/ EnqueueJobFails(j) PROVE Promised'
  <2>1. EnqueueJob(j)
      BY <1>3 DEF EnqueueJobFails, Calm
  <2>2. AddBulk(j, job[j].transactionIds) /\ job' = job
      BY <2>1 DEF EnqueueJob, database
  <2>. QED BY <2>2, ListTypes, AddBulkKeepsPromise
<1>4. ASSUME NEW r \in Retriers, RetryStep(r) PROVE Promised'
  <2>1. CASE RetryScan(r) \/ RetryNothingLeft(r) \/ RetryEnqueueFails(r)
      BY <1>2, <2>1 DEF RetryScan, RetryNothingLeft, RetryEnqueueFails, database, worker
  <2>2. CASE RetryReset(r)
    <3>1. retry[r].job \in Jobs /\ job[retry[r].job].status \in RETRYABLE_STATUSES
        BY <2>2, ListTypes DEF RetryReset, Accounted, RequestsAccounted
    <3>2. /\ \A j \in Jobs : j # retry[r].job => job'[j] = job[j]
          /\ UNCHANGED <<issued, queue, work>>
        BY <1>0, <2>2 DEF RetryReset, worker
    <3>3. job[retry[r].job].status \notin IN_FLIGHT
        BY <3>1 DEF RETRYABLE_STATUSES, IN_FLIGHT
    <3>. QED BY <3>1, <3>2, <3>3, RowKeepsPromise
  <2>3. CASE RetryEnqueue(r)
    <3>1. /\ AddBulk(retry[r].job, retry[r].ids) /\ job' = job
          /\ retry[r].job \in Jobs /\ retry[r].ids \in Seq(Txns)
        BY <2>3, ListTypes DEF RetryEnqueue, database
    <3>. QED BY <3>1, AddBulkKeepsPromise
  <2>. QED BY <1>4, <2>1, <2>2, <2>3 DEF RetryStep
<1>5. CASE Exit
  <2>1. draining /\ ~draining
      BY <1>5, Zenon DEF Exit, Accounted
  <2>. QED BY <2>1, Zenon
<1>6. ASSUME NEW j \in Jobs, CreateJob(j) PROVE Promised'
  <2>1. /\ job[j].status \notin IN_FLIGHT /\ \A k \in Jobs : k # j => job'[k] = job[k]
        /\ UNCHANGED <<issued, queue, work>>
      BY <1>0, <1>6 DEF CreateJob, IN_FLIGHT
  <2>. QED BY <2>1, RowKeepsPromise
<1>7. ASSUME NEW j \in Jobs, NEW r \in Retriers, RetryCheck(r, j) PROVE Promised'
    BY <1>2, <1>7 DEF RetryCheck, database, worker
<1>8. ASSUME NEW t \in Txns, Rescore(t) \/ softDeleteTransaction(t) PROVE Promised'
    BY <1>2, <1>8 DEF Rescore, softDeleteTransaction, worker
<1>9. CASE WorkerDies \/ Stop
    BY <1>9 DEF WorkerDies, Stop, Calm
<1>10. CASE UNCHANGED vars
    BY <1>2, <1>10 DEF vars
<1>. QED BY <1>1, <1>3, <1>4, <1>5, <1>6, <1>7, <1>8, <1>9, <1>10
         DEF Next, ApiStep, WorkerStep, Outside

-----------------------------------------------------------------------------
\* The variables of BatchJobLifecycle, read off the rows.
Statuses  == [j \in Jobs |-> job[j].status]
Left      == [j \in Jobs |-> job[j].totalChunks - job[j].completedChunks]
Successes == [j \in Jobs |-> job[j].processedCount]
Failures  == [j \in Jobs |-> job[j].failedCount]

\* A step that writes one row moves the abstract job of that row alone.
LEMMA OneJobMoves ==
    ASSUME NEW k \in Jobs, \A j \in Jobs : j # k => job'[j] = job[j]
    PROVE  /\ Statuses' = [Statuses EXCEPT ![k] = job'[k].status]
           /\ Left' = [Left EXCEPT ![k] = job'[k].totalChunks - job'[k].completedChunks]
           /\ Successes' = [Successes EXCEPT ![k] = job'[k].processedCount]
           /\ Failures' = [Failures EXCEPT ![k] = job'[k].failedCount]
           /\ Statuses[k] = job[k].status
           /\ Left[k] = job[k].totalChunks - job[k].completedChunks
           /\ Successes[k] = job[k].processedCount
           /\ Failures[k] = job[k].failedCount
BY DEF Statuses, Left, Successes, Failures

\* What is left alone of a row is left alone of the abstract job.
LEMMA SameValues ==
    ASSUME NEW k \in Jobs
    PROVE  /\ [Statuses EXCEPT ![k] = job[k].status] = Statuses
           /\ [Left EXCEPT ![k] = job[k].totalChunks - job[k].completedChunks] = Left
           /\ [Successes EXCEPT ![k] = job[k].processedCount] = Successes
           /\ [Failures EXCEPT ![k] = job[k].failedCount] = Failures
BY DEF Statuses, Left, Successes, Failures

LEMMA AcceptStep ==
    ASSUME NEW k \in Jobs, Statuses[k] = "NONE",
           NEW n \in 1..ChunkCount(Cardinality(Txns)),
           Statuses' = [Statuses EXCEPT ![k] = "QUEUED"],
           Left' = [Left EXCEPT ![k] = n], Successes' = Successes, Failures' = Failures
    PROVE  Lifecycle!Next
<1>1. Lifecycle!Accept(k)
    BY DEF Lifecycle!Accept, Statuses, Left, Successes, Failures
<1>. QED BY <1>1 DEF Lifecycle!Next

LEMMA StartStep ==
    ASSUME NEW k \in Jobs, Statuses[k] = "QUEUED",
           Statuses' = [Statuses EXCEPT ![k] = "PROCESSING"],
           Left' = Left, Successes' = Successes, Failures' = Failures
    PROVE  Lifecycle!Next
<1>1. Lifecycle!Start(k)
    BY DEF Lifecycle!Start, Statuses, Left, Successes, Failures
<1>. QED BY <1>1 DEF Lifecycle!Next, Lifecycle!Progress

LEMMA AccountStep ==
    ASSUME NEW k \in Jobs, Statuses[k] = "PROCESSING", Left[k] > 0,
           NEW p \in 0..ChunkSize, NEW f \in 0..ChunkSize, p + f \in 1..ChunkSize,
           Statuses' = Statuses, Left' = [Left EXCEPT ![k] = Left[k] - 1],
           Successes' = [Successes EXCEPT ![k] = Successes[k] + p],
           Failures' = [Failures EXCEPT ![k] = Failures[k] + f]
    PROVE  Lifecycle!Next
<1>1. Lifecycle!Account(k)
    BY DEF Lifecycle!Account, Statuses, Left, Successes, Failures
<1>. QED BY <1>1 DEF Lifecycle!Next, Lifecycle!Progress

LEMMA FinishStep ==
    ASSUME NEW k \in Jobs, Statuses[k] = "PROCESSING", Left[k] = 0,
           Statuses' = [Statuses EXCEPT ![k] = FinalStatus(job[k])],
           Left' = Left, Successes' = Successes, Failures' = Failures
    PROVE  Lifecycle!Next
<1>1. Successes[k] = job[k].processedCount /\ Failures[k] = job[k].failedCount
    BY DEF Successes, Failures
<1>2. Lifecycle!Verdict(Successes[k], Failures[k]) = FinalStatus(job[k])
    BY <1>1 DEF Lifecycle!Verdict, FinalStatus
<1>3. Lifecycle!Finish(k)
    BY <1>2 DEF Lifecycle!Finish, Statuses, Left, Successes, Failures
<1>. QED BY <1>3 DEF Lifecycle!Next, Lifecycle!Progress

LEMMA ReopenStep ==
    ASSUME NEW k \in Jobs, Statuses[k] \in RETRYABLE_STATUSES,
           NEW n \in 1..ChunkCount(Cardinality(Txns)),
           Statuses' = [Statuses EXCEPT ![k] = "QUEUED"],
           Left' = [Left EXCEPT ![k] = n],
           Failures' = [Failures EXCEPT ![k] = 0], Successes' = Successes
    PROVE  Lifecycle!Next
<1>1. Lifecycle!Reopen(k)
    BY DEF Lifecycle!Reopen, Lifecycle!Retryable, RETRYABLE_STATUSES,
           Statuses, Left, Successes, Failures
<1>. QED BY <1>1 DEF Lifecycle!Next

LEMMA Stutter ==
    ASSUME job' = job
    PROVE  UNCHANGED Lifecycle!vars
BY DEF Lifecycle!vars

LEMMA InitLifecycle == Init => Lifecycle!Init
BY DEF Init, Lifecycle!Init, NoRow

\* A list of transactions makes at least one chunk and no more than all of
\* them would.
LEMMA ChunksOfSome ==
    ASSUME NEW S \in SUBSET Txns, NEW ids \in SetToSeqs(S), ids # <<>>
    PROVE  ChunkCount(Len(ids)) \in 1..ChunkCount(Cardinality(Txns))
<1>. DEFINE m == Len(ids)
            n == Cardinality(Txns)
<1>1. /\ m \in Nat /\ n \in Nat /\ m <= n /\ m > 0
  <2>1. ids \in Seq(Txns) /\ m = Cardinality(S)
      BY IdsOfASet
  <2>2. Cardinality(S) <= n /\ n \in Nat
      BY TxnSets
  <2>. QED BY <2>1, <2>2
<1>2. ChunkSize \in Nat \ {0}
    BY ConstantsAssumption
<1>. HIDE DEF m, n
<1>3. ChunkCount(m) \in Nat /\ ChunkCount(m) > 0 /\ ChunkCount(n) \in Nat
    BY <1>1, ChunkCountCovers
<1>4. ChunkCount(m) <= ChunkCount(n)
  <2>1. ChunkCount(m) \in 1..ChunkCount(m)
      BY <1>3
  <2>2. (ChunkCount(m) - 1) * ChunkSize + 1 <= m
      BY <1>1, <2>1, ChunkCountCovers
  <2>3. n + ChunkSize - 1 < ChunkCount(n) * ChunkSize + ChunkSize
      BY <1>1, <1>2, Division DEF ChunkCount
  <2>4. SUFFICES ASSUME ChunkCount(n) + 1 <= ChunkCount(m) PROVE FALSE
      BY <1>3
  <2>5. ChunkCount(n) * ChunkSize <= (ChunkCount(m) - 1) * ChunkSize
      BY <1>2, <1>3, <2>4, TimesIsMonotone
  <2>6. ChunkCount(n) * ChunkSize \in Nat /\ (ChunkCount(m) - 1) * ChunkSize \in Nat
      BY <1>2, <1>3
  <2>. QED BY <1>1, <1>2, <2>2, <2>3, <2>5, <2>6
<1>. QED BY <1>3, <1>4 DEF m, n

\* markJobProcessing starts the job, or leaves it alone.
LEMMA MarkStarts ==
    ASSUME TypeOK, NEW c \in 1..issued, markJobProcessing(c)
    PROVE  Lifecycle!Next \/ UNCHANGED Lifecycle!vars
<1>. DEFINE k == JobOf(c)
<1>1. job \in [Jobs -> JobRow] /\ k \in Jobs /\ job[k] \in JobRow
    BY ListTypes DEF TypeOK
<1>2. CASE job[k].status = "QUEUED"
  <2>1. job' = [job EXCEPT ![k].status = "PROCESSING"]
      BY <1>2 DEF markJobProcessing
  <2>2. /\ \A j \in Jobs : j # k => job'[j] = job[j]
        /\ job'[k].status = "PROCESSING"
        /\ job'[k].totalChunks = job[k].totalChunks
        /\ job'[k].completedChunks = job[k].completedChunks
        /\ job'[k].processedCount = job[k].processedCount
        /\ job'[k].failedCount = job[k].failedCount
      BY <1>1, <2>1 DEF JobRow
  <2>. HIDE DEF k
  <2>3. /\ Statuses' = [Statuses EXCEPT ![k] = "PROCESSING"] /\ Statuses[k] = "QUEUED"
        /\ Left' = Left /\ Successes' = Successes /\ Failures' = Failures
      BY <1>1, <1>2, <2>2, OneJobMoves, SameValues
  <2>. QED BY <1>1, <2>3, StartStep
<1>3. CASE job[k].status # "QUEUED"
    BY <1>3, Stutter DEF markJobProcessing
<1>. QED BY <1>2, <1>3

\* recordChunkResult accounts for one chunk, whole.
LEMMA RecordAccounts ==
    ASSUME TypeOK, Accounted, Truthful, Promised, NEW c \in 1..issued,
           recordChunkResult(c)
    PROVE  Lifecycle!Next
<1>. DEFINE k == JobOf(c)
            p == work[c].processed
            f == work[c].failed
<1>1. /\ job \in [Jobs -> JobRow] /\ k \in Jobs /\ job[k] \in JobRow
      /\ p \in Nat /\ f \in Nat /\ ChunkSize \in Nat
      /\ RowsOf(c) \in Seq(Txns) /\ RowsOf(c) # <<>>
    BY ListTypes, ConstantsAssumption DEF TypeOK, Work
<1>2. work[c].pc = "tally"
    BY DEF recordChunkResult
<1>3. p + f \in 1..ChunkSize /\ p \in 0..ChunkSize /\ f \in 0..ChunkSize
  <2>1. p + f = Len(RowsOf(c)) /\ Len(RowsOf(c)) <= ChunkSize
      BY <1>2 DEF Truthful, ChunkTrue, Progress, Promised, ChunkFits
  <2>2. Len(RowsOf(c)) \in Nat /\ Len(RowsOf(c)) # 0
      BY <1>1
  <2>. QED BY <1>1, <2>1, <2>2
<1>4. job[k].status = "PROCESSING" /\ c \in Owed(k) /\ ~Unqueued(k)
    BY <1>2, MarkedIsInFlight DEF Promised, RowIsMoved, Marked
<1>5. job[k].totalChunks - job[k].completedChunks > 0
  <2>1. job[k].completedChunks + Cardinality(Owed(k)) = job[k].totalChunks
      BY <1>1, <1>4 DEF Accounted, RowAccounted
  <2>2. Cardinality(Owed(k)) \in Nat /\ Cardinality(Owed(k)) # 0
      BY <1>4, OwedIsFinite, NothingOwed
  <2>. QED BY <1>1, <2>1, <2>2 DEF JobRow
<1>6. job' = [job EXCEPT ![k] = [job[k] EXCEPT !.processedCount = @ + p,
                 !.failedCount = @ + f, !.completedChunks = @ + 1]]
    BY DEF recordChunkResult
<1>. HIDE DEF k, p, f
<1>7. /\ \A j \in Jobs : j # k => job'[j] = job[j]
      /\ job'[k].status = job[k].status
      /\ job'[k].totalChunks = job[k].totalChunks
      /\ job'[k].completedChunks = job[k].completedChunks + 1
      /\ job'[k].processedCount = job[k].processedCount + p
      /\ job'[k].failedCount = job[k].failedCount + f
    BY <1>1, <1>6 DEF JobRow
<1>8. job'[k].totalChunks - job'[k].completedChunks
         = (job[k].totalChunks - job[k].completedChunks) - 1
    BY <1>1, <1>7 DEF JobRow
<1>9. /\ Statuses' = Statuses /\ Statuses[k] = "PROCESSING" /\ Left[k] > 0
      /\ Left' = [Left EXCEPT ![k] = Left[k] - 1]
      /\ Successes' = [Successes EXCEPT ![k] = Successes[k] + p]
      /\ Failures' = [Failures EXCEPT ![k] = Failures[k] + f]
    BY <1>1, <1>4, <1>5, <1>7, <1>8, OneJobMoves, SameValues
<1>. QED BY <1>1, <1>3, <1>9, AccountStep

\* finalizeJob ends the job with the verdict on its counters.
LEMMA FinaliseFinishes ==
    ASSUME TypeOK, Accounted, Promised, NEW c \in 1..issued, finalizeJob(c)
    PROVE  Lifecycle!Next
<1>. DEFINE k == JobOf(c)
<1>1. job \in [Jobs -> JobRow] /\ k \in Jobs /\ job[k] \in JobRow
    BY ListTypes DEF TypeOK
<1>2. work[c].pc = "finalize"
    BY DEF finalizeJob
<1>3. job[k].status = "PROCESSING" /\ ~Unqueued(k)
    BY <1>2, MarkedIsInFlight DEF Promised, RowIsMoved, Marked
<1>4. Owed(k) = {} /\ work[c].verdict = FinalStatus(job[k])
    BY <1>2 DEF Accounted, FinaliserAccounted
<1>5. job[k].totalChunks - job[k].completedChunks = 0
  <2>1. job[k].completedChunks + Cardinality(Owed(k)) = job[k].totalChunks
      BY <1>1, <1>3 DEF Accounted, RowAccounted
  <2>2. Cardinality(Owed(k)) = 0
      BY <1>4, NothingOwed
  <2>. QED BY <1>1, <2>1, <2>2 DEF JobRow
<1>6. job' = [job EXCEPT ![k].status = FinalStatus(job[k])]
    BY <1>3, <1>4 DEF finalizeJob, IN_FLIGHT
<1>. HIDE DEF k
<1>7. /\ \A j \in Jobs : j # k => job'[j] = job[j]
      /\ job'[k].status = FinalStatus(job[k])
      /\ job'[k].totalChunks = job[k].totalChunks
      /\ job'[k].completedChunks = job[k].completedChunks
      /\ job'[k].processedCount = job[k].processedCount
      /\ job'[k].failedCount = job[k].failedCount
    BY <1>1, <1>6 DEF JobRow
<1>8. /\ Statuses' = [Statuses EXCEPT ![k] = FinalStatus(job[k])]
      /\ Statuses[k] = "PROCESSING" /\ Left[k] = 0
      /\ Left' = Left /\ Successes' = Successes /\ Failures' = Failures
    BY <1>1, <1>3, <1>5, <1>7, OneJobMoves, SameValues
<1>. QED BY <1>1, <1>8, FinishStep

\* createJob accepts a job, and only one that did not exist.
LEMMA CreateAccepts ==
    ASSUME TypeOK, Truthful, NEW k \in Jobs, CreateJob(k)
    PROVE  Lifecycle!Next
<1>1. job \in [Jobs -> JobRow]
    BY DEF TypeOK
<1>2. job[k].status = "NONE" /\ job[k] = NoRow
    BY DEF CreateJob, Truthful, Lists, RosterIsSet
<1>0. PICK filter \in {"ids", "unscored"} : \E ids \in resolveTransactionIds(filter) :
         /\ ids # <<>>
         /\ job' = [job EXCEPT ![k] = [NoRow EXCEPT !.status = "QUEUED",
               !.transactionIds = ids, !.totalChunks = ChunkCount(Len(ids))]]
    BY DEF CreateJob
<1>3. PICK ids \in resolveTransactionIds(filter) :
         /\ ids # <<>>
         /\ job' = [job EXCEPT ![k] = [NoRow EXCEPT !.status = "QUEUED",
               !.transactionIds = ids, !.totalChunks = ChunkCount(Len(ids))]]
    BY <1>0
<1>. DEFINE n == ChunkCount(Len(ids))
<1>4. PICK S \in SUBSET Txns : ids \in SetToSeqs(S)
  <2>1. ids \in UNION {SetToSeqs(S) : S \in SUBSET
              (IF filter = "unscored" THEN {t \in Txns \ deleted : prediction[t] = Absent}
               ELSE Txns \ deleted)}
      BY DEF resolveTransactionIds
  <2>. QED BY <2>1
<1>5. n \in 1..ChunkCount(Cardinality(Txns))
    BY <1>3, <1>4, ChunksOfSome
<1>6. n \in Nat
    BY <1>4, IdsOfASet, ChunkCountCovers
<1>. HIDE DEF n
<1>7. /\ \A j \in Jobs : j # k => job'[j] = job[j]
      /\ job'[k].status = "QUEUED" /\ job'[k].totalChunks - job'[k].completedChunks = n
      /\ job'[k].processedCount = job[k].processedCount
      /\ job'[k].failedCount = job[k].failedCount
    BY <1>1, <1>2, <1>3, <1>6 DEF NoRow, n
<1>8. /\ Statuses' = [Statuses EXCEPT ![k] = "QUEUED"] /\ Statuses[k] = "NONE"
      /\ Left' = [Left EXCEPT ![k] = n]
      /\ Successes' = Successes /\ Failures' = Failures
    BY <1>2, <1>7, OneJobMoves, SameValues
<1>. QED BY <1>5, <1>8, AcceptStep

\* A retry's reset reopens the job.
LEMMA ResetReopens ==
    ASSUME TypeOK, Accounted, NEW r \in Retriers, RetryReset(r)
    PROVE  Lifecycle!Next
<1>. DEFINE k == retry[r].job
<1>1. /\ job \in [Jobs -> JobRow] /\ k \in Jobs /\ job[k] \in JobRow
      /\ job[k].status \in RETRYABLE_STATUSES
    BY ListTypes DEF RetryReset, TypeOK, Accounted, RequestsAccounted
<1>2. PICK ids \in SetToSeqs(Outstanding(r)) :
         job' = [job EXCEPT ![k] = ResetRow(job[k], ChunkCount(Len(ids)))]
    BY DEF RetryReset
<1>3. Outstanding(r) \in SUBSET Txns /\ Outstanding(r) # {}
    BY <1>1, ListTypes DEF RetryReset, Outstanding, Roster
<1>4. ids # <<>>
  <2>1. ToSet(ids) = Outstanding(r)
      BY <1>2, <1>3, SqlIds
  <2>. QED BY <1>3, <2>1 DEF ToSet
<1>. DEFINE n == ChunkCount(Len(ids))
<1>5. n \in 1..ChunkCount(Cardinality(Txns))
    BY <1>2, <1>3, <1>4, ChunksOfSome
<1>6. n \in Nat
    BY <1>2, <1>3, IdsOfASet, ChunkCountCovers
<1>. HIDE DEF n, k
<1>7. /\ \A j \in Jobs : j # k => job'[j] = job[j]
      /\ job'[k].status = "QUEUED" /\ job'[k].totalChunks - job'[k].completedChunks = n
      /\ job'[k].processedCount = job[k].processedCount /\ job'[k].failedCount = 0
    BY <1>1, <1>2, <1>6 DEF ResetRow, JobRow, n
<1>8. /\ Statuses' = [Statuses EXCEPT ![k] = "QUEUED"] /\ Statuses[k] \in RETRYABLE_STATUSES
      /\ Left' = [Left EXCEPT ![k] = n]
      /\ Successes' = Successes /\ Failures' = [Failures EXCEPT ![k] = 0]
    BY <1>1, <1>7, OneJobMoves, SameValues
<1>. QED BY <1>1, <1>5, <1>8, ReopenStep

LEMMA EveryStepIsPromised ==
    ASSUME Calm, TypeOK, Accounted, Truthful, Promised, [Next]_vars
    PROVE  Lifecycle!Next \/ UNCHANGED Lifecycle!vars
<1>1. ASSUME NEW c \in 1..issued, ChunkStep(c)
      PROVE  Lifecycle!Next \/ UNCHANGED Lifecycle!vars
  <2>1. \/ markJobProcessing(c) \/ recordChunkResult(c) \/ finalizeJob(c) \/ job' = job
      BY <1>1 DEF ChunkStep, Take, FetchRow, ScorerFails, LookupRow, WriteRow, RowFails,
                  Acknowledge, countScored, BookkeepingFails, StalledCheck, database
  <2>. QED BY <2>1, MarkStarts, RecordAccounts, FinaliseFinishes, Stutter
<1>2. ASSUME NEW j \in Jobs, EnqueueJob(j) \/ EnqueueJobFails(j) PROVE job' = job
    BY <1>2 DEF EnqueueJob, EnqueueJobFails, database
<1>3. ASSUME NEW r \in Retriers,
             \/ RetryScan(r) \/ RetryNothingLeft(r) \/ RetryEnqueue(r)
             \/ RetryEnqueueFails(r) \/ \E j \in Jobs : RetryCheck(r, j)
      PROVE  job' = job
    BY <1>3 DEF RetryScan, RetryNothingLeft, RetryEnqueue, RetryEnqueueFails,
                RetryCheck, database
<1>4. ASSUME NEW t \in Txns, Rescore(t) \/ softDeleteTransaction(t) PROVE job' = job
    BY <1>4 DEF Rescore, softDeleteTransaction
<1>5. CASE WorkerDies \/ Stop \/ Exit \/ UNCHANGED vars
  <2>1. job' = job
      BY <1>5 DEF WorkerDies, Stop, Exit, vars, database
  <2>. QED BY <2>1, Stutter
<1>. QED BY <1>1, <1>2, <1>3, <1>4, <1>5, CreateAccepts, ResetReopens, Stutter
         DEF Next, ApiStep, WorkerStep, Outside, RetryStep

\* The detailed program implements the promise made to those who watch a job:
\* while nothing but the scorer fails and retries do not overlap, every step of
\* the API, the queue and the worker accepts, starts, accounts one chunk of,
\* finishes or reopens one job, or is no step of any. (That a job accepted is
\* seen through is the fairness of ImplementsLifecycle, which a run checks.)
THEOREM StepsImplementLifecycle ==
    ASSUME Calm
    PROVE  Spec => Lifecycle!Init /\ [][Lifecycle!Next]_(Lifecycle!vars)
<1>1. Init => Promised
    BY DEF Init, Promised
<1>2. TypeOK /\ Accounted /\ Promised /\ [Next]_vars => Promised'
    BY NextPromised
<1>3. Spec => []Promised
    BY <1>1, <1>2, TypeCorrect, BooksBalance, PTL DEF Spec
<1>4. TypeOK /\ Accounted /\ Truthful /\ Promised /\ [Next]_vars
         => [Lifecycle!Next]_(Lifecycle!vars)
    BY EveryStepIsPromised
<1>. QED BY <1>3, <1>4, InitLifecycle, TypeCorrect, BooksBalance, RowsStayTrue, PTL DEF Spec

=============================================================================
