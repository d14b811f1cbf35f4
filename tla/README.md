# TransactGuard: a TLA+ verification project

TransactGuard scores financial transactions for fraud. A React client talks to an
Express API; the API stores transactions, predictions, cases and batch jobs in
PostgreSQL, keeps a token denylist, rate-limit counters and a BullMQ queue in
Redis, and calls a Python scorer over HTTP. A worker (a process of its own, or
inside the API) drains the queue. This directory models that system in TLA+,
checks the models with TLC and proves theorems about them with TLAPS.

## 1. Inventory

Paths are below `src/`; `backend/…` stands for `backend/src/…`.

| Component | State | Operations | Interacts through | Hard behaviour | Correct when |
|---|---|---|---|---|---|
| Batch jobs, `backend/modules/jobs` | `BatchJob` rows: status, roster, two row counters, two chunk counters | create, retry, mark processing, record a chunk, finalise | PostgreSQL, `addBulk` | row and queue are written separately; counters move concurrently; a retry re-reads a row it checked earlier | no job is stuck; a job is final after its last chunk; status and counters agree |
| Worker, `backend/workers` | per chunk: row index, two tallies; draining | run a chunk, give up an attempt, salvage in the 'failed' listener, stop, die | queue, jobs, predictions | abandoned attempts, stalled chunks, a stop or a crash between two awaits | each row of a chunk is accounted once |
| Chunk queue, `backend/config/queue.js` and BullMQ | entries with state, attempts, stalls | add all of a job's chunks, hand out, retry, fail, recover | Redis | redelivery | no chunk is lost or shortened |
| Predictions, `backend/modules/predictions` | one `Prediction` per transaction, tagged with a job | score and store, synchronous score | scorer, PostgreSQL | read-then-write upserts race; a row changes hands | a good row of a finished job has a score |
| Realtime progress, `backend/realtime`, `config/socket.js`, `useSocket.jsx`, `Jobs.jsx` | rooms, buffered emits, the page's list, selection and live overlay | publish, relay, subscribe, reconnect, poll, select, filter | Redis pub/sub, Socket.IO | dropped and reordered events; a selection that moves under them | a watcher sees the final status; one toast per run |
| Simulator, `backend/modules/simulator`, `LiveFeed.jsx` | one run in memory, its timer; the page's last answer | start, tick, stop, shut down; poll | predictions, feed channel, HTTP | await between check and claim; ticks that outlive a run; a page that polls only while it believes a run is active | one run at a time; counters add up; a run ends and is seen to |
| Sessions, `backend/modules/auth`, `utils/tokens.js`, `config/redis.js` | tokens, denylist with TTL | login, refresh, logout, authenticate | Redis, PostgreSQL | Redis timeouts; commands that run late; logout against refresh | a revoked token is refused for as long as it lives |
| API client, `lib/api.js`, `store/auth.js` | two tokens, shared refresh, in-flight counter, cold-start timer | request, refresh, replay once, restore, sign in and out | HTTP | concurrent 401s, failed refresh, reload | a user is not signed out without reason |
| Rate limits, `backend/middleware` | counter and TTL per key | count a request | Redis | `EXPIRE` is a second round trip; fail-open | a window ends when the client was told it would, to the half second Redis rounds |
| Users and roles | `User.role`, role inside a live token | change role, role gate | Sessions | a token outlives the role it names | a demotion reaches every request within one token's life |
| Cases, `backend/modules/cases`, `Cases.jsx`, `TransactionDrawer.jsx` | `Case` rows; the query cache of board and drawer | backfill, update, list, counts; move, drag, rescore, delete | PostgreSQL, HTTP | updates decided from an earlier read; refetches that overtake each other | `resolvedAt` matches the status; one case per transaction; the board settles on what the API says |
| Transactions and CSV import, `backend/modules/transactions`, `Upload.jsx` | `Transaction` rows, temporary files; the page's file, preview and report | import, create, list, soft-delete; pick, preview, confirm | PostgreSQL, disk, HTTP | deletion while a job runs; partial, repeated and concurrent imports; a file changed under a read | an import is idempotent; its report is of its file and adds up; no file is left unless its unlink fails |
| Analytics, `backend/modules/analytics`, `Transactions.jsx` | none of its own; filter, page and cache of the list | nine reports, the list, the radar, the CSV export | PostgreSQL | several queries without a transaction; offsets over an unstable order; a cursor on a row that may go | figures differ by what was written between their queries, and no more; a sample says it is one; an export misses nothing |
| Scorer, `ml_service` | none | features, points, level, explanation | HTTP | thresholds and rounding in several places | score, level, contributions and summary tell one story |
| Health, API shell, other pages, seeds | none of their own | reads, wiring, presentation | | | not modelled, see section 9 |

PROJECT.json lists the same components with their status, and every hazard with
the line where it bites and the properties that watch it.

## 2. Modules

Each row is a component; a module on the right of an arrow EXTENDS the one on its
left and composes it with what uses it.

| Server | With its user | TLC | Proofs |
|---|---|---|---|
| `BatchScoring` (refines `BatchJobLifecycle`) | `JobWatch`, over `BatchJobLifecycle` | `MCBatchScoring`, `MCJobWatch` | `BatchScoringProofs`, `JobWatchProofs` |
| `Simulator` | → `LiveFeed` (refines it) | `MCLiveFeed` | `LiveFeedProofs` |
| `Cases` | → `CasesBoard` (refines it) | `MCCasesBoard` | `CasesBoardProofs` |
| `Sessions` → `Accounts` | → `ApiClient` | `MCApiClient` | `ApiClientProofs` |
| `CsvImport` | → `UploadPage` | `MCUploadPage` | `UploadProofs` |
| `Analytics` | → `TransactionsPage` | `MCTransactionsPage` | `ReportProofs` |
| `FraudScore` | | `MCFraudScore` | `FraudProofs` |

Three conventions hold everywhere:

- *A step ends at an await.* A handler of the API, the worker or a page is cut
  where it awaits, and neighbouring awaits share a step only where nothing that
  can run between them tells the difference; the definition then says so.
- *Worlds.* The user-side modules take a constant `Worlds`: sets of what may happen
  besides the normal course (a lost answer, a second user, an outage). One run
  covers them all from different initial states, so that each combination that
  matters is explored in full without paying for their product. A world is fixed
  in the initial state and only enables actions.
- *History variables* (commented `history`) record what has happened for a
  property to speak of; no guard and no other variable reads them. *Bounds* are
  named `Max…` or commented `(A bound: …)`.

No module uses a RECURSIVE operator: sums use the community modules' folds.

## 3. Batch scoring

| Variable | In the code |
|---|---|
| `job` | `BatchJob` rows; `transactionIds` is the roster, `totalTxns` its length |
| `prediction` | which job a transaction's `Prediction` names: `Absent` (no row), `NoJob` (`batchJobId` null) or a job |
| `deleted` | transactions with a `deletedAt` |
| `issued`, `queue` | BullMQ's entries by id. Entries are kept after they end, as a log |
| `work` | the local variables of `processChunk` and of the 'failed' listener, with a program counter |
| `draining` | `worker.close()` has been called |
| `submitting`, `retry` | requests between two awaits |
| `crashes`, `runs` | bounds; `runs` also dates a job's current run |
| `tallies` | history: how often a chunk has been counted |

| Handler | Actions |
|---|---|
| `createJob` | `CreateJob` (resolve, insert), `EnqueueJob`, or `EnqueueJobFails` |
| `retryJob` | `RetryCheck`, `RetryScan`, `RetryNothingLeft` or `RetryReset`, `RetryEnqueue` or `RetryEnqueueFails` |
| `processChunk` | `Take`, `markJobProcessing`, for each row `FetchRow` / `ScorerFails` / `LookupRow`, `WriteRow` / `RowFails`, then `recordChunkResult`, `finalizeJob` if it was the last, `Acknowledge` |
| 'failed' listener | `countScored`, `recordChunkResult`, `finalizeJob` |
| any statement failing | `BookkeepingFails`, `RowFails` |
| `shutdown`, a crash | `Stop`, `Exit`, `WorkerDies`; BullMQ's `StalledCheck` |
| `POST /predictions`, `DELETE /transactions/:id` | `Rescore`, `softDeleteTransaction` |

Points where the code is easily misread:

- A transaction's upsert selects a nested relation, so Prisma runs a read and
  then a write. A racing insert is a unique violation, which the loop counts as a
  failed row (`WriteRow`'s `clash`).
- `ML_SERVICE_ERROR` covers every bad HTTP status, the scorer's 422 included. A
  `Refused` row therefore aborts its chunk; an `Unscorable` one (balances missing)
  is refused by `toMlRequest` and costs only itself.
- The `failed` event fires after each failed attempt, and the listener acts on the
  last. A chunk that BullMQ itself fails for stalling has used one attempt more,
  not all, so the listener usually returns early (`StalledCheck`).
- `worker.close()` waits for processors. The listener is an event handler nobody
  awaits; `process.exit` takes it along (`Exit` asks for `Active = {}` only).

*External.* BullMQ's own behaviour (entry states, attempts, stalled entries,
completion) is modelled from how the code relies on it: `StalledCheck` and
`Acknowledge` are marked external. Backoff is a delay, so interleaving covers it.
*Failures* are switched on per instance by `Events`.

**BatchJobLifecycle** is what a job promises to those who watch it. `left` is
`totalChunks - completedChunks`. `Accept` is `CreateJob`, `Start` the first
`markJobProcessing`, `Account` is `recordChunkResult`, `Finish` is `finalizeJob`
when it writes, `Reopen` is `RetryReset`; everything else stutters.
`ImplementsLifecycle` checks the refinement with the lifecycle's own fairness.

**JobWatch** puts the publisher, the relay, the socket and the jobs page on top of
the lifecycle's actions, which `BatchScoring` implements. A processor that has
recorded a chunk keeps it in `pending` until it has published it, so events of two
processors overtake each other. From publisher to browser an event takes one
ordered path and is one step, after which it waits in `inbox`; what the browser
emits waits in `outbox`, also across a drop, as Socket.IO buffers it. The page is
its list, filter, selection, overlay and the dependencies its effects last ran
with; `RunEffects` is React's commit, and `Settled` says the page has no effect
left to run. The provider's reconnections, their limit and the token that was put
in the handshake are modelled; a retry of the job and a filter that moves the
selection are separate actions.

## 4. The other components

### Simulator and LiveFeed

| Variable | In the code |
|---|---|
| `runs` | each run object; a tick keeps its run in a closure, so runs that lost the slot go on |
| `activeRun` | the module-level variable `getStatus` reports |
| `starts` | how far a `POST /simulator/start` has come |
| `up`, `stops` | the process runs; a bound |
| `overlapped` | history: two starts were past the check at once |
| `view`, `asking` | the page's last status answer, a status request under way |
| `starting`, `stopping`, `visits` | its mutations under way; a bound |

`startSimulator` is two actions, `CheckStart` and `startSimulator`: the query for
the sample is awaited between them. A tick is `tick` (the interval's synchronous
part), `ScoreSucceeds` or `ScoreFails`, and `publishFeedPrediction`, each ending in
the `finally` block (`Ends`). `finish` reports whichever run it is given, as the
code's `activeRun = run` does, so a late tick of an old run may take the
slot. `shutdownSimulator` stops the reported run only. The page asks on mount,
after its own start and stop, and by interval while its last answer was active.

### Sessions, Accounts and ApiClient

Time is in quarters of a second (`Ticks`): a token counts whole seconds (`Second`), a
Redis entry runs from the moment its command runs (`After`), and `TTL` answers to the
nearest second, up or down (`KeyTTL`), so that every rounding between them is visible.

| Variable | In the code |
|---|---|
| `tokens` | every token signed; its index is its `jti` |
| `denylist`, `queued`, `redis` | the denylist's expiries, the SETs that wait in the Redis client, whether Redis answers in time |
| `counter`, `lateHits`, `lateStamp` | the limiter's key with its expiry, its commands that wait in the client |
| `attempts` | sign-ins under way: in the limiter, reading the user, signing |
| `role`, `change` | the account's role, what `updateUserRole` is about to write |
| `access`, `refresh`, `signedIn`, `initialising` | the tab's tokens, the store |
| `calls`, `shared` | requests under way, `refreshInFlight` |
| `coldTimer`, `isCold` | the cold-start timer and flag |
| `confirmed`, `honoured`, `told`, `demotedAt`, `raced`, `outlived`, `excused`, `lost` | history |

| Handler | Actions |
|---|---|
| `authenticate` and the handler behind it | `Serve`, which judges the token (`Judge`) and answers |
| `logoutUser` | `RevokeAccess`, `RevokeRefresh`: two calls of `revokeToken` |
| `refreshAccessToken` of the API | `ServeRefresh`, `SignShared` for the tab's shared refresh; `Serve`, `SignRestored` for a restored session |
| `rateLimiter`, `loginUser` | `CountHit`, `StampHit`, `ReadUser`, `IssueTokens` |
| `updateUserRole` | `ReadTarget`, `WriteRole`; `PromoteInDatabase` is the deliberate promotion its comment names (external) |
| `request` of the tab | `Start`, `Join`, `Replay`, `Lost`, `Finish`; `ClearShared` is the timer that forgets a refresh |
| store `login`, `logout`, `restore` | `SignIn`, `SignedIn`; `Start` with "logout"; `Reload`, `Restored` |
| the environment | `Tick`, `RedisDown`, `RedisUp` (the waiting commands run), `Restart`, `CallFails`, `RefreshFails` |

Easily misread:

- A Redis command that times out is not cancelled. It waits in the client and runs
  when the connection is back, with the TTL computed when it was issued
  (`RedisUp`): the revocation then lasts longer than it must, never less.
- `isTokenRevoked` fails closed (503), the limiter fails open.
- `EXPIRE` is sent when the TTL of the same `MULTI` was negative, not when the
  counter was 1: a key left without expiry is repaired by the next request.
- A 401 that comes before the shared refresh is cleared joins it even when it is
  done (`Join` with `shared.pc = "done"`); a replay is never refreshed again.
- `requireRole` reads the token. A demotion reaches a session by its next refresh.

### Cases and CasesBoard

| Variable | In the code |
|---|---|
| `risk`, `deleted`, `cases` | predictions' levels, soft-deleted transactions, `Case` rows |
| `backfills`, `requests` | requests between their read and their write |
| `overlapped`, `unassigned` | history |
| `queries` | the page's query cache: data, fetch under way, error, the invalid mark |
| `awaited`, `dragging` | the board's mutations, the card as it was when its drag began |
| `drawer`, `action` | the open drawer, its mutation |

`backfillCases` is `findMissing` and `createMissing`; `updateCase` is `SendUpdate`,
`readExisting` and `writeUpdate`, the write deciding on the status that was read.
On the board a query is `ReadQuery` (the API's read), then `ReceiveQuery` or
`FailQuery`; a move is `MoveCard` or `handleDrop`, then `MoveAnswered` or `MoveLost`.
The drawer finds a prediction by a search with `contains`, so the answer may be
another transaction's (`Answers`). Two points of the query library are modelled
from how the pages rely on it. A fetch that is asked for again cancels the one before
it only if the query has data; a first load is joined, whatever it has read already
(`Refetched`), and a mount joins whatever is under way (`Join`). An answer clears the
invalid mark even if it was read before the invalidation (`Invalidate`). `outdated` is
history: someone has written since the data was read, or the page has and the fetch
that should have followed joined one that had been read.

### CsvImport and UploadPage

A file is a sequence of rows, a row what the mapper and the database make of it: an
id, `Bad` (rejected by the mapper), `Broken` (unreadable) or `TooBig` (refused by
the database with its batch). `requests` holds an import's local variables: its place,
its batch and its summary. `Receive` is the upload middleware, `ReadRow`, `ReadEnd`
and `flush` the import, `cleanupUpload` the controller's `finally`, whose unlink may
fail and is then logged (`kept`, history; world `disk`). A success is answered before
that `finally` (`transactions.controller.js:45-48`), an error after it (`AnswerIsOut`).
`Check` and
`Write` are the two halves of a single creation and of a deletion. `died` is history
and also bounds the crashes to one. The page is `file`, `preview`, `parseError`,
`result`, with `parsing` (reads under way) and `uploading`; `accept`, `Parsed`,
`reset`, `Confirm`, `ReceiveAnswer`, `AnswerLost`, `Leave` are its handlers.

### Analytics and TransactionsPage

A query of a report is an operator of `txns` (`getTrend`, `getGeoRisk`, `Counts`, …),
written with the joins and filters of its own SQL; an action reads it at a moment of its
own (`AskTrend`, `AskHours`, `AskCountries`, `AskDistribution`, `AskPublicStats`), and
`answers` keeps what each of them read last: its figures, which of them are of
everything there is, and how many rows had been written by then. `getSummary` is three
queries, `SelectTotals`, `SelectAnchor`, `SelectPeriods`; the network is three,
`AskNetwork`, `SelectEdges`, `CountHubs`; the radar is two, `AskRadar` and `Sample`.
Anything may be written between any two of them (`Score`, `Delete`, `Arrive`), a row at a
time. The rates and directions the summary computes from its counts are left out. A page
of the list is two queries in either order (`CountRows`, `SelectRows`) and an answer in a
cache by filter and page; rows of the same time come in any order, anew for each query.
Until the answer is there the last one stays on screen, and the pagination's buttons go
by it. The export of predictions (`AskExport`, `ReadBatch`, `FailExport`) is a query for
each batch. Prisma's cursor is modelled from how the query uses it: it includes the row
it names, and `skip: 1` passes over the first row from there (`Rest`).

### FraudScore

Amounts are in units of $50 and magnitudes in 4000ths, which makes every factor exact
on the amounts of the instance; only the final `round` is left open, a half going
either way as a float may make it. `score_transaction` is the set of verdicts. `Next`
scores again with one balance changed, so that an action property can compare two
verdicts.

## 5. Runs

A run's cfg is `<Module>_<run>.cfg`, of the `MC` module. `SYMMETRY` is used in `core`
(transactions no constant of that run tells apart) and in `upload` (the slots of
requests); neither checks liveness.
`CHECK_DEADLOCK FALSE` is set wherever the instance may stop: users may stop, and
bounds do. `explained` is checked for deadlock.

| Run | Instance | Shows |
|---|---|---|
| `BatchScoring core` | one job, three transactions in chunks of two, two at once, two attempts, outages, rescores, one retry | the invariants of the books hold together and a final row is frozen |
| `BatchScoring lifecycle` | the same with deletions, one row unscorable, one refused | rows tell the truth; the code implements `BatchJobLifecycle`, liveness included |
| `BatchScoring failures` | two transactions in chunks of one, one at a time; scorer, database, enqueue, two crashes or stops, one retry | a job that never ends shows why |
| `JobWatch watch` | four worlds: two jobs and a dropping socket; two handlers, a retry and Redis; a filter and an expiring token; two handlers and a dropping socket | the page follows the rows unless an event was lost |
| `CasesBoard board` | six worlds: overlapping moves of two cases; drags against decisions; decisions, assignments and deletion; lost answers; backfills, rescores, deletions; the drawer | three of the queue's invariants, and the page settles |
| `LiveFeed feed` | two starts (one of this page), runs of up to two transactions, a stop by others, a shutdown, a second visit | runs account, end, and are seen to end |
| `ApiClient sessions` | two calls, access tokens of one second, refresh tokens of two, nine quarters of a second, four tokens; six worlds: logout; slow calls and reload; Redis and logout; network and reload; limiter, Redis and restart; roles and reload | revocation, the session's survival, cold start, limiter, demotion |
| `UploadPage upload` | seven kinds of file, batches of two, two picks, another client, three requests at most; five worlds: crash and imports; lost answers; resets; single creations, deletions and a failing database; failing unlinks | imports are complete, leave nothing but what cannot be unlinked, and are reported as they are |
| `TransactionsPage reports` | the 3375 networks of three payments among three accounts; two tables each for the figures of seven queries, the radar, the list, and an export in batches of two; one write | figures and networks differ by the write and no more, the list covers, a sample is marked, the export is whole |
| `FraudScore explained` | five types, ten amounts, five values for each balance | the explanation fits, balances push one way |
| `BatchScoring stop_loses_outcome` | *violation*, below | |
| `JobWatch frozen_board` | *violation*, below | |

*Why the bounds are enough.* Three transactions in chunks of two give a full chunk, a
short one, and two chunks racing to be last. Two attempts (the code has three) give one
that is not the last and one that is. In `failures` chunks run one at a time because
`core` has their races; two crashes are needed for a chunk to stall beyond
`MaxStalled`. In `sessions` a refresh token outlives an access token twice, so
an access token and the one it is refreshed for can expire within its life and a replay
can be outrun; the clock runs a quarter of a second longer than that refresh token, and
a quarter is enough for `TTL` to round either way. One write at a time there
(`Start`), because a write differs from a query by the role gate alone; two attempts
from one address suffice for a limit of one. `PerColumn` 1 against two cases makes a
column too small; `BackfillLimit` 1 a backfill too. One write falls between any two
queries of a report, and a second would only be another of the same; the theorems are
for any number. Two picks of a file make the page
change it once under a read and once under an upload. In `upload` the slot of a file
that stayed on disk is not used again (`Receive`): with three, the page still imports
beside such a file and another client. The network's tables are all
there are up to naming, with levels `CLEAR`, `SUSPICIOUS`, `CRITICAL`, a payment to
oneself and accounts without a location. The ten amounts sit on, above and below each
threshold and multiple the scorer looks at.

Bounds in guards: `MaxRetries`, `MaxCrashes`, `MaxStops`, `MaxVisits`, `MaxTokens`,
`MaxNow`, `MaxReloads`, `MaxOutbox`, `MaxInbox`, `MaxPicks`, `MaxOthers`, `MaxPage`,
`MaxWrites`; and, where marked `(A bound: …)`, a limiter hit that changes nothing any
more is not sent (`SendAttempt`), a tab signs in once (`SignIn`), a reload or a
restart waits for requests its world is not about (`Reload`, `Restart`), and a cached
page is not asked for again (`Ask`).

## 6. Properties

Batch scoring: `NoStuckJob`, `FinalAfterLastChunk` and `Accounted` say that rows and
queue agree; a chunk whose last attempt nobody records, or a count one too high,
breaks them. `FinalRowIsFrozen`: a straggler that writes after the end.
`RowTellsTheTruth` joins four facts about a job and its transactions (status,
completeness, ledger, stored predictions) that only a mix of aborted attempts,
salvage, deletion and retry can break. `RetryLeavesScoredAlone`: a row scored twice.
`ImplementsLifecycle`: a chunk accounted twice or a job that does not end.
`EndsOrShowsWhy`: with everything failing, a job that hangs without a trace.

Progress: `RoomMatchesPage` (subscriptions buffered over a drop), `OneToastPerRun`
(listeners left behind), `ShownFinalWasReached` (events of another job, or of the
run before), `FrozenOnlyIfMissed` and `BarFills` (what the poll must repair).

Simulator: `RunAccounts`, `OneRunAtATime`, `FinishedStaysFinished` against late ticks
and overlapping starts; `EveryRunEnds`, `PageSeesTheEnd`.

Sessions: `RevokedIsRefused` (a denylist entry that expires before its token),
`SessionSurvives` (a user signed out by the overlap of calls, 401s, a refresh and
replays), `ColdOnlyInFlight` (a timer nobody clears), `RetryAfterIsHonest` (a window
that outlives what the client was told by more than the rounding), `DemotionTakesEffect` (a role that survives
in some token).

Cases: `ResolvedMatchesStatus`, `DecisionsAreOwned`, `OneCasePerTransaction` against
stale reads; `PageSettles` against refetches that overtake each other. Import:
`SuccessIsComplete`, `NoFileLeaks`, `ReportIsOfTheFile`. Reports:
`ReportsDriftByWrites`, `NetworkIsConsistent` and `SampleIsMarked` say how far queries
read at different moments may be apart; `PagesCover`, `EmptyMeansNoMatch`;
`ExportIsWhole` (a row twice, or missed, while others write). Scorer:
`ExplanationFitsScore`, `BalancesPushOneWay`.

Many are conditional, and the condition is the finding: `OneRunAtATime` and
`OneCasePerTransaction` hold while two starts or two backfills do not overlap,
`PagesCover` while no two rows share a time and nobody writes, `ExportIsWhole` while the
row at the cursor still matches, `ReportIsOfTheFile` while the file is not changed under
a read or an upload, `NoFileLeaks` while unlinking works, `PageSettles` while no first
load is under way when the page writes, `FrozenOnlyIfMissed` while no event is lost or
overtaken, `RetryLeavesScoredAlone` while no one else overwrites the job's predictions.
`EndsOrShowsWhy` excuses a job that never reached the queue or has a chunk on the failed
list: it catches what hangs without a trace, not those two outcomes.

### Two runs that refute a comment

- `stop_loses_outcome`: a stop drops a 'failed' listener between its count and its
  write, and the job stays PROCESSING, which the comment above that listener says it
  is there to avoid.
- `frozen_board`: the socket drops while the last event is sent; the poll brings the
  final row, and the live overlay hides it, though the poll's comment says that a
  socket drop should not freeze the board.

### Other disagreements, seen and not run

Batch scoring. `createJob` commits the row before `addBulk`; a failure in between
leaves a QUEUED row that `retryJob` refuses, although `schema.prisma:34` says no job
can be left in flight. A crash between the count and the acknowledgement counts a
chunk twice. Two retries that pass the same status check enqueue the rows twice. A
synchronous rescore clears `batchJobId`, and a retry scores and counts the row again.
A row the scorer refuses with 422 is taken for an outage and stops its chunk. A
prediction stored by an abandoned attempt whose transaction is deleted before the next
is counted failed. A retry that is lost after its reset, with a crash that makes an
old chunk count again, leaves a job PROCESSING for ever with nothing on the failed
list.

Realtime and simulator. `useSocket.jsx:53` says of an expired token that the next mount
reconnects with a new one; the provider mounts once per session. Two simulator starts both pass the
check; the loser runs without a stop. A 409 on the live feed's start does not ask for
the status.

Sessions. A 5xx on a refresh signs the user out. A refresh under way across a logout
puts the old session's token back, against "A failed logout call must still clear
local state" (`store/auth.js:40`). A restored session whose one replay outlives its
fresh token (a suspended tab, a slow network) is signed out with a good refresh token.
`Retry-After` (`rateLimit.js:39, 59`) is Redis' TTL to the nearest second, so a client
that waits exactly that long may be refused again for up to half a second.

Cases. "New flagged transactions land here as they are scored" (`Cases.jsx:263`) is
not so: a backfill opens cases. Two concurrent backfills open two cases for one
transaction. An update that names the status it reads is answered 200 and writes
nothing, though another analyst may have changed that status since. "N open"
shows all cases. The drawer's rescore and delete leave the cases' queries alone. A
rescore that ends while the drawer's prediction is loaded for the first time
(`TransactionDrawer.jsx:96-98`, `259-265`), or a move while a column or the counts are
(`Cases.jsx:161`), joins that load, and what was read before the write stays on screen.

Import and list. Line numbers in the import's errors are off after blank lines. Rows
of a soft-deleted transaction are reported as skipped. Two spellings of an amount give
two derived ids. The preview accepts a byte-order mark that the server does not. A
file changed while it is read is sent under another file's preview
(`Upload.jsx:160`). "A rejected import cannot leak a temp file"
(`transactions.controller.js:47`) is so unless the unlink fails, which `upload.js:86-91`
logs and leaves. "No transactions match these filters" is shown for the filters before,
too, while the answer for new ones is awaited (`Transactions.jsx:320`), and by the radar
when all that match are unscored (`Transactions.jsx:275-278`). Next, pressed on a placeholder, may pass the last page
(`Transactions.jsx:444`). Rows of equal sort key may be shown twice or never
(`Transactions.jsx:117`). A row's prediction is found by a search with `contains`.

Reports. An export whose row at the cursor is deleted, or rescored out of the filter,
before the next batch passes over the row after it (`predictions.service.js:267`).
The radar joins predictions and the list does not: transactions without a score are in
the list and not in the radar, though "the radar and the table always show the same
population" (`analytics.service.js:302-303`, `Transactions.jsx:60-61`). "Hubs are
accounts appearing in more than one flagged transaction" (`analytics.service.js:456`,
`Dashboard.jsx:210`), but the query counts ends (`UNION ALL`), so one flagged payment to
oneself makes a hub of degree 2; the instance has such payments. That no flagged
transaction connects two hubs (the same lines) is written into the answer
(`interHubEdges: 0`) and is true of the shipped data only. A hub beyond the limit is
shown with degree 1. The summary's three queries (`analytics.service.js:30, 47, 51`) are
read without a transaction, and what is written between makes totals and periods
disagree. `getTrend(days)` returns the oldest days, not the latest (`ORDER BY 1 ASC LIMIT`). "Total value scored" includes unscored rows. A
CRITICAL score may rest on a balance discrepancy too small to be reported.

## 7. Fairness

*BatchScoring* (`FairSpec`) is weakly fair to `ApiStep` (a request that has started
keeps running: each await settles) and to `WorkerStep` (a worker with something to do
does it; a dead worker is restarted by its supervisor, which `WorkerDies` and `Exit`
fold in). Failures are inside those two actions, so fairness never forces a success:
attempts, stalls and restarts are finite because the code bounds the first two and
`MaxCrashes` the last. Users, deletions, rescores, crashes and stops have no fairness.
Weak fairness of the whole worker is enough because each of its steps uses up
something finite: a row, an attempt, a chunk.

*JobWatch* is weakly fair to the worker (`StartJob`, `Record`, `Publish`) and to the
browser's and the server's handling of what has arrived (`HandleEmit`, `RunEffects`,
`HandleEvent`), and strongly fair to `Poll`: the interval fires for as long as the
page is open, although the bound on the outbox may disable the step now and then.
Connections need neither fail nor come back; nobody has to use the page.

*LiveFeed* is weakly fair to the ticks of a run while the process is up (the interval
fires, awaits settle) and to the page's poll and its answer.

## 8. Proofs

Every theorem holds for all values of the constants that satisfy the assumptions named
`…Assumption` in the modules; TLC evaluates those in the runs.

**BatchScoringProofs.** `TypeCorrect` is `Spec => []TypeOK`, with every failure
allowed. It needs the arithmetic of chunking (`ChunkCountCovers`, `ChunkIsNotEmpty`,
`SalvagedIsBounded`). `BooksBalance` is `Calm => (Spec => []Accounted)`, and from it
follow `NoJobGetsStuck`, `FinalMeansAllRecorded`, `VerdictIsCurrent`, `CountedOnce`.
`Calm`: no database error, no lost enqueue, no crash, no stop, at most one retry at a
time. The scorer may fail at will, rows may be deleted, rescored, refused, unscorable,
and any number of jobs and chunks run. Each clause is needed: without it section 6's
disagreements are counterexamples.

`NoStuckJob` is not inductive: that *some* owed chunk can still record says nothing
once it has recorded. `Accounted` says for every chunk that queue state, program
counter and count go together (`ChunkAccounted`); for every row that
`completedChunks` plus the number of owed chunks is `totalChunks`, and that it is in
flight exactly while it owes a chunk or has a finaliser (`RowAccounted`); that a
finaliser is alone, last, and holds the verdict of the row as it now is
(`FinaliserAccounted`); that requests announce what they will enqueue
(`RequestsAccounted`). Recording takes one element off the owed set and the row reads
as complete exactly when that set is empty (`RecordAccounted`); finalising closes the
row (`FinaliseAccounted`); enqueuing adds as many owed chunks as the row announces
(`AddBulkAccounted`); the other steps move one chunk without counting (`QuietStep`)
or touch requests only (`RequestStep`).

In the same module, what the rows say. Those books count chunks; these count
transactions. `RowsStayTrue` is `Calm => (Spec => []Truthful)`, and TLC checked
`Truthful` on small instances before it was proved. `Truthful` says at any moment what
`RowTellsTheTruth` says of a finished row, with the outcomes that the row does not
count yet (`Unrecorded`: announced by a request, or in a chunk still owed) set aside:
- a row (`RowTrue`): no prediction carries the job's id outside its list; on the first
  run, counters and unrecorded make up the total (`Ledger`); if nothing has failed, every
  recorded transaction is scored or deleted (`NoneLost`); stored predictions that are
  recorded and not deleted were counted (`StoredIsCounted`), and the other way round
  unless others overwrite them (`CountedIsStored`);
- an attempt (`ChunkTrue`): the same of the rows it has been through, in the worker's
  memory (`Progress`), and at its tally of all of them (`Tally`);
- a retry (`ScanTrue`): what it found scored is still so;
- the lists (`Lists`): each is a set and the chunks still owed are apart, so that
  recording one takes its transactions, and no others, off the unrecorded.
At its tally an attempt's counters are moved to the row (`RecordKeeps`, which adds
cardinalities of disjoint sets); a row of the loop touches one transaction
(`LoopKeeps`); a retry moves all that is outstanding to the unrecorded (`ResetKeeps`).
When a row is final nothing is unrecorded (`FinalOwesNothing`), which gives
`RowsTellTheTruth`. `RetriesLeaveScoredAlone` assumes `Undisturbed` as well: where a
transaction is scored by hand or belongs to two jobs, a later write takes the job's id
off a prediction, and the retry then does take that transaction again; the run that
checks the property excludes the same. `FinishedRowIsFrozen` uses the books only: an
attempt under way is still owed, and a finished row owes none.

Last, the promise. `StepsImplementLifecycle` is `Calm => (Spec => Lifecycle!Init /\
[][Lifecycle!Next]_(Lifecycle!vars))`, the safety half of `ImplementsLifecycle`. The
abstract job is read off the row (what is left is `totalChunks - completedChunks`), so
each kind of step has one lemma: `createJob` accepts (`CreateAccepts`),
`markJobProcessing` starts (`MarkStarts`), `recordChunkResult` accounts
(`RecordAccounts`), `finalizeJob` finishes (`FinaliseFinishes`), a retry's reset reopens
(`ResetReopens`), and whatever leaves the rows alone is no step. Books and rows are not
enough: `Account` wants a row that is PROCESSING and no more rows than a chunk may have.
Both are in `Promised`: no chunk exceeds `ChunkSize`, and a row is PROCESSING as long as
one of its chunks is past `markJobProcessing`.

**LiveFeedProofs.** Of the server, one invariant gives four theorems: each run's books are in order
and, unless two starts have overlapped, `Alone`: a running run is the reported one,
there is one start past the check, and none while a run is running. `RunsAccount` and
`FinishedForGood` need no assumption about overlap: a late tick keeps the status it
finds.

**CasesBoardProofs.** Of the queue: types, and three facts that hold however updates
interleave because `writeUpdate` sets `resolved` and status together: `ResolvedAgrees`, `DecidedIsOwned`.
`OneCaseEach` needs more: what a backfill is about to create has no case, as long as no
two run at once. Of the page: `PageIsCurrent` from `PageInv`. `PageSettles` speaks of the moment
when nothing is under way; the invariant says at any moment of each query that, unless
others wrote since it was read, or the page did and its fetch joined an older first load
(`outdated`), or the page is still to ask again (`Waiting`), the answer
on its way and the data it holds are what the API would answer (`Current`). What a fetch
that is asked for does to one query is `RefetchedQuery`. The board asks
again as long as a move is awaited, whatever fetch overtakes which. A prediction
may be marked rather than asked for, when the drawer is closed: the mark must survive
until it is mounted (`Marked`), only predictions carry one (`Marks`), none is mounted with
it (`DrawerFresh`), and a drawer that opens asks for the prediction only if it knows the
transaction (`KnownRows`, `Hands`). One lemma, `TouchKeeps`, covers the steps that ask, age,
read or fail some queries; the two that are not of that form, an answer that arrives and a
rescore whose prediction is only marked, have their own.

**Refinements.** `FeedImplementsSimulator`: every behaviour of `LiveFeed` is one of
`Simulator`'s. `BoardImplementsQueue`: every step of `CasesBoard` is a step of `Cases` or
leaves it alone. The servers' theorems therefore carry over (`FeedOneAtATime`,
`BoardKeepsQueue`). `StepsImplementLifecycle`, above, is the third.

**ApiClientProofs.** `TypeCorrect` is `Spec => []Typed`: `TypeOK`, with what a program
counter says of the other fields, and that every token in use has been signed.
- `RevokedStaysRefused` from `Covered`: the entry of a confirmed token lasts as long as
  the token, and so will the entry of each SET that waits, whenever it runs. It comes
  down to `secondsUntilExpiry` rounding towards the longer life.
- `RetryAfterIsKept` from `ToldCovers`: while someone has been told when to retry, the
  key is gone or expires by half a second after that, since a number of seconds rounded to
  the nearest is short by half of one at most.
- `ColdIsAboutACall` is inductive with the types: whoever empties the set of calls
  clears timer and flag.
- `DemotionsTakeEffect` from `Demoted`: no token of a writing role outlives the demotion
  by more than one access token's life, and no role read before it waits to be signed.
Each is proved against a relation that says what a step may do to its part of the
state (`ServerMove`, `LimiterMove`, `ColdMove`, `RoleMove`), so that the case split over
the actions is done once per part.

In the same module, `SessionsSurvive` from `Kept`: nothing is lost, and until something
excuses a loss the session is in order (`SessionOK`). The user sees a session end in
`Finish` and `Lost`, and each is guarded by what some earlier step saw, so `SessionOK`
says what those steps leave behind: restore's two requests are alone in the tab
(`Alone`); a refused restore, or a refresh that answered null, was about the tab's own
refresh token and that token has expired (`CallFair`, `SharedFair`); a refused replay of
`GET /auth/me` carries the tab's access token, which has expired (the exception the
property names). An expired token stays expired (`Fades`), and with Redis up and nothing
revoked a verdict depends on the token only (`FairVerdict`). An excuse is never taken
back, and no step that comes after one counts as a loss (`ExcusesStay`).

**JobWatchProofs.** `IInv` has a part per theorem.
- `RoomIsThePages` from `Membership`: reading the emits that wait in order, the socket
  will be in the room of a job (`Joins`) exactly if that is the job the effects ran with
  and the socket has not dropped since. It needs `Listening`, which ties listeners to
  those effects; `RoomMatchesPage` itself says nothing while emits wait.
- `ToldOnce` from `Counted`: toasts, completions in the browser and completions a handler
  still has to publish are together at most the runs that ended. With one listener at a
  time an event makes one toast.
- `ShownIsTrue` from `Truthful`: everything that can carry a final status (row, handler,
  event, list, overlay) carries it only for a job that has been final.
That the page falls back to a job of its list needs the largest of a finite set of
numbers, which is found by well-foundedness (`LatestIsIn`).

**UploadProofs.** `Kept` joins the types and, for each import, what its program counter
says of its local variables: the rows it has read are those it has counted or that wait
in its batch (`Counts`), and each that it has counted as inserted or skipped is in the
table (`Covered`), which stays so because no row ever leaves it (`Onward`). At
the end the batch is empty, whence `ImportsAreComplete`. `UploadsAreRemoved` is
inductive with that: of the files on disk, those whose unlink has not failed (`Owed`)
belong to imports that have it still to come. `ReportTellsTheFile` needs in addition that an upload that is
awaited is of the selected file unless the user has changed it (`Waits`).

**ReportProofs.** `AnswersStayTrue` is `Spec => []Truthful`, one part per report; the
other six theorems are consequences. What a query has read is compared with what the
tables say *now*, and the invariant bounds the difference by what was written since.
- A write is of one row (`WritesAreOfRows`). It takes at most one element out of a set of
  transactions and puts at most one in, so it moves every figure by one at most
  (`OneRowMoves`, `PartsMove`); it moves the degrees of its own two accounts, each by two
  at most (`DegreesMove`), and adds or removes two hubs at most.
- The figures (`AnswersTrue`): each answer is within `writes - at` of what there is, and any
  two are as close as the property says. An answer read now is what there is now, so it
  agrees with every older one (`FreshAgrees`), and two old ones do not change.
  That what a query reads is what there is comes from what it groups: the groups
  partition the rows it joins. The sum of a report's column (`SumOf`) recurs over its
  groups, one it chooses at a time. The number of transactions whose group is in the set
  satisfies the same equation, and the equation has one solution: two would differ on a
  smallest set of groups, and then agree without the one it chooses (`SumIs`, by
  well-foundedness of the finite sets under inclusion). So each sum is a cardinality
  (`SumOfGroups`, `GroupsAddUp`); a trend that is cut short leaves some out
  (`TrendIsRead`, `FirstRanks`), and the two windows are disjoint (`WindowsAreRead`).
- The summary (`SummaryTrue`): the anchor is the newest time there is until someone writes,
  so a window that ends at it has its transaction.
- The radar (`RadarTrue`): what matches is at most the count and what was written since.
- The network (`NetworkTrue`): degrees are the sizes of sets of ends (`EndsAndDegrees`), and
  the hubs shown are the repeat participants or as many as were asked for (`HubsCount`).
- The export (`ExportTrue`) holds whoever writes. `Whole` says of the batches read that
  they are of rows that matched at some time, that no id lies beyond the cursor, and
  that, unless the cursor's own row stopped matching, every row that has matched all along
  with an id up to the cursor has been read (`NextBatch`, `RestIsAhead`, `BatchKeepsWhole`).
- The list (`ListTrue`): until the first write, every page and count that is awaited or
  cached is one that `ORDER BY ... LIMIT ... OFFSET` may return, a user who is not
  hasty is on a page of the count, and an answer that stands in without rows is without
  rows because nothing matched. With no two rows at the same time there is one order,
  every row is on one page of it (`RowHasPage`, `RowHasOnePage`) and every page that is
  not past the count has a row (`PageIsInside`).
Export and list share one fact about data that needs no induction in the prover beyond
the library's: in a finite total order the number of elements before each is a bijection
onto an initial segment (`RankIsBijection`). The theorems assume finitely many
transactions and accounts; sizes of pages, batches and samples, limits, windows and the
number of writes are arbitrary.

**FraudProofs.** The model keeps one verdict, which is always one of its transaction's
(`VerdictBelongs`); the rest is arithmetic over arbitrary balances and amounts. Both folds over
the factors are shown to be the plain sums they stand for as the sums of the reports are
(`OneSum`, `TotalIs`, `ReportedIs`), and `contributions`, whose k-th element has k - 1
before it, lists every factor of at least `MIN_REPORTED` once and in order
(`ContributionsAre`, from `RankIsBijection`). `ExplanationsFit`: what is not listed makes
at most 4.975 points, rounding the score half a point and rounding each contribution half
a hundredth (`ReportedFits`), and the property asks for 5.55; the four factors but the
drained balance make 75 points at most (`CriticalIsDrained`); without a clause only the
type can be listed, and weakly (`NothingOfNote`). `BalancesPush`: a drained account has
the factor's whole weight (`DrainingPushesUp`), an account that was empty weighs 0.6 of
its factor at least and one that held something nothing (`KnowingPushesDown`).

**Only model-checked.** Liveness, with the fairness half of `ImplementsLifecycle`
(`EndsOrShowsWhy`, `FrozenOnlyIfMissed`, `BarFills`, `EveryRunEnds`, `PageSeesTheEnd`):
fairness and ENABLED are beyond the prover. Every other property the passing runs check
is stated by a theorem.

## 9. Not modelled

- Health checks, the API shell (wiring, validation, error formatting), seeds, layout
  and purely presentational pages: no state of their own. Registration and the user
  list: they neither race with nor feed the modelled state. The register and
  demo-account limiters are the modelled limiter with another key.
- Audit rows: `recordAudit` swallows its failures and nothing reads them back.
- Timestamps of jobs and cases, notes, the texts of explanations, sums of money, average
  scores and rates in the reports, the rows of the live feed. The optional trained model of the scorer is not
  in the repository.
- Several worker processes: `Concurrency` chunks of one process interleave as freely as
  those of several would; only a crash of one among several differs.
- Removal of old queue entries, and a Redis that loses data.
