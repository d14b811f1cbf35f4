------------------------------ MODULE JobWatch ------------------------------
(***************************************************************************)
(* Watching a batch job: the worker publishes each recorded chunk on Redis,*)
(* the API process relays it to the job's Socket.IO room, and the jobs     *)
(* page lays the last event over the row it polled.                        *)
(*                                                                         *)
(*   backend/src/realtime/publisher.js    publish, publishJobProgress,     *)
(*       publishJobCompleted                                               *)
(*   backend/src/realtime/subscriber.js   handleMessage                    *)
(*   backend/src/config/socket.js         authenticateSocket, rooms        *)
(*   frontend/src/hooks/useSocket.jsx     SocketProvider, useJobProgress,  *)
(*       useFeed                                                           *)
(*   frontend/src/pages/Jobs.jsx          the page                         *)
(*                                                                         *)
(* The rows are those of BatchJobLifecycle. From the publisher to the      *)
(* browser an event takes one ordered path, so publishing, the relay and   *)
(* the room are one step, after which the event waits in the browser.      *)
(***************************************************************************)
EXTENDS Integers, Sequences, FiniteSets

CONSTANTS
    Jobs,          \* batch jobs, numbered in the order they are created
    None,          \* no job, no overlay, no answer
    Concurrency,   \* processors and 'failed' listeners that run at once
    Worlds,        \* the instances Init chooses from, below
    Reconnections, \* reconnectionAttempts
    MaxRetries,    \* bound: retries of one job
    MaxOutbox,     \* bound: emits under way when the user acts
    MaxInbox       \* bound: events waiting in the browser

FaultKinds == {"redis",   \* the publisher or the subscriber is cut off
               "socket",  \* the browser's socket drops
               "expiry"}  \* the access token in the handshake expires

\* A world is [chunks, failing, filters, faults]: the instance's jobs with the
\* chunks of their first runs, the jobs some of whose rows fail, the status
\* filters the user picks ("" is all statuses), and what else may happen.
ASSUME WatchAssumption ==
    /\ Jobs \subseteq Nat \ {0} /\ IsFiniteSet(Jobs) /\ None \notin Jobs
    /\ Concurrency \in Nat \ {0} /\ Reconnections \in Nat /\ MaxRetries \in Nat
    /\ MaxOutbox \in Nat /\ MaxInbox \in Nat
    /\ \A w \in Worlds : /\ DOMAIN w = {"chunks", "failing", "filters", "faults"}
                          /\ DOMAIN w.chunks \subseteq Jobs
                          /\ w.failing \subseteq Jobs /\ w.faults \subseteq FaultKinds

VARIABLES
    world,      \* the instance
    status, left, processed, failed, \* the BatchJob rows (BatchJobLifecycle)
    pending,    \* the chunks recorded and not yet published, one per processor:
                \* records of pc, job, status, and the run and left that tell
                \* two chunks of a job apart
    redis,      \* both ends of the Redis channel are connected
    fresh,      \* the token the provider put in the handshake is still valid
    socket,     \* the status SocketProvider keeps
    tries,      \* failed connection attempts in a row
    rooms,      \* the job rooms the server put this socket in
    outbox,     \* emits of the browser the server has not handled yet
    inbox,      \* events the browser has not handled yet: kind, job and status
    list,       \* the rows of the page's last list, by job
    filter, selectedId, \* the page's own state
    live,       \* the live overlay, None if there is none
    effects,    \* the dependencies the page's effects last ran with
    listeners,  \* how many callbacks listen to each job's events
    retries,    \* retries of each job, for MaxRetries
    toasts,     \* history: completion toasts of each job
    finals,     \* history: times each job became final
    missed      \* history: the jobs whose overlay lost an event or got one late

rows   == <<world, status, left, processed, failed>>
net    == <<redis, fresh, socket, tries>>
vars   == <<world, status, left, processed, failed, pending, redis, fresh, socket,
            tries, rooms, outbox, inbox, list, filter, selectedId, live,
            effects, listeners, retries, toasts, finals, missed>>

Latest(S) == CHOOSE x \in S : \A y \in S : y <= x

Lifecycle == INSTANCE BatchJobLifecycle WITH
    MaxChunks <- Latest(UNION {{w.chunks[j] : j \in DOMAIN w.chunks} : w \in Worlds}),
    MaxRows <- 1

Final == Lifecycle!Final

-----------------------------------------------------------------------------
(* The worker commits a recorded chunk first and publishes it later.       *)

AcceptJob(j) ==
    /\ j \in DOMAIN world.chunks
    /\ \A k \in DOMAIN world.chunks : k < j => status[k] # "NONE"
    /\ Lifecycle!Accept(j) /\ left'[j] = world.chunks[j]
    /\ UNCHANGED <<world, pending, net, rooms, outbox, inbox, list, filter, selectedId,
                   live, effects, listeners, retries, toasts, finals, missed>>

StartJob(j) ==
    /\ Lifecycle!Start(j)
    /\ UNCHANGED <<world, pending, net, rooms, outbox, inbox, list, filter, selectedId,
                   live, effects, listeners, retries, toasts, finals, missed>>

\* The chunk that leaves nothing to record goes on to finalise the job.
recordChunkResult(j) ==
    /\ Cardinality(pending) < Concurrency
    /\ Lifecycle!Account(j)
    /\ j \in world.failing \/ failed' = failed
    /\ pending' = pending \union {[pc |-> IF left'[j] = 0 THEN "finish" ELSE "progress",
          job |-> j, run |-> retries[j], left |-> left'[j], status |-> "PROCESSING"]}
    /\ UNCHANGED <<world, net, rooms, outbox, inbox, list, filter, selectedId, live,
                   effects, listeners, retries, toasts, finals, missed>>

Becomes(p, q) == pending' = (pending \ {p}) \union q

finalizeJob(p) ==
    /\ p.pc = "finish"
    /\ Lifecycle!Finish(p.job)
    /\ Becomes(p, {[p EXCEPT !.pc = "progress", !.status = status'[p.job]]})
    /\ finals' = [finals EXCEPT ![p.job] = @ + 1]
    /\ UNCHANGED <<world, net, rooms, outbox, inbox, list, filter, selectedId, live,
                   effects, listeners, retries, toasts, missed>>

\* The overlay of j holds, or will hold, something the dropped event replaces.
Overlaid(j) == \/ live # None /\ live.job = j
               \/ \E i \in DOMAIN inbox : inbox[i].job = j

\* The job is final, and whoever made it so has published already.
Finalised(p) == p.run = retries[p.job] /\ p.status \in Final
Late(p) == /\ status[p.job] \in Final /\ ~Finalised(p)
           /\ \A q \in pending : q.job = p.job => ~Finalised(q)

\* handleMessage emits to the members of the job's room; an event published
\* while a connection on its way is down is dropped for good.
Delivered(e) == redis /\ socket = "connected" /\ e.job \in rooms

publish(p, e) ==
    /\ Len(inbox) < MaxInbox
    /\ inbox' = IF Delivered(e) THEN Append(inbox, e) ELSE inbox
    /\ missed' = IF (~Delivered(e) /\ Overlaid(e.job)) \/ Late(p)
                 THEN missed \union {e.job} ELSE missed
    /\ UNCHANGED <<rows, net, rooms, outbox, list, filter, selectedId, live,
                   effects, listeners, retries, toasts, finals>>

publishJobProgress(p) ==
    /\ p.pc = "progress"
    /\ publish(p, [kind |-> "progress", job |-> p.job, status |-> p.status])
    /\ Becomes(p, IF p.status \in Final THEN {[p EXCEPT !.pc = "completed"]} ELSE {})

publishJobCompleted(p) ==
    /\ p.pc = "completed"
    /\ publish(p, [kind |-> "completed", job |-> p.job, status |-> p.status])
    /\ Becomes(p, {})

-----------------------------------------------------------------------------
(* Connections.                                                            *)

\* enableOfflineQueue is false, and a subscriber misses what is sent while it
\* is away; both come back by themselves.
RedisDown ==
    /\ "redis" \in world.faults /\ redis /\ redis' = FALSE
    /\ UNCHANGED <<rows, pending, fresh, socket, tries, rooms, outbox, inbox, list,
                   filter, selectedId, live, effects, listeners, retries, toasts,
                   finals, missed>>

RedisUp ==
    /\ ~redis /\ redis' = TRUE
    /\ UNCHANGED <<rows, pending, fresh, socket, tries, rooms, outbox, inbox, list,
                   filter, selectedId, live, effects, listeners, retries, toasts,
                   finals, missed>>

TokenExpires ==
    /\ "expiry" \in world.faults /\ fresh /\ fresh' = FALSE
    /\ UNCHANGED <<rows, pending, redis, socket, tries, rooms, outbox, inbox, list,
                   filter, selectedId, live, effects, listeners, retries, toasts,
                   finals, missed>>

\* The server forgets the rooms; what either side had sent and the other had
\* not handled is lost.
SocketDrops ==
    /\ "socket" \in world.faults /\ socket = "connected"
    /\ socket' = "disconnected" /\ tries' = 0
    /\ rooms' = {} /\ inbox' = <<>> /\ outbox' = <<>>
    /\ missed' = missed \union {inbox[i].job : i \in DOMAIN inbox}
    /\ UNCHANGED <<rows, pending, redis, fresh, list, filter, selectedId,
                   live, effects, listeners, retries, toasts, finals>>

\* The page has rendered with the current selection and socket status, and
\* its effects have run: reconnecting takes 800 ms and more.
Listed == DOMAIN list
Selected == IF selectedId \in Listed THEN selectedId
            ELSE IF Listed = {} THEN None ELSE Latest(Listed)
Settled == effects = [job |-> Selected, socket |-> socket]

\* The client retries while the attempts last; a handshake the server refuses
\* is not retried. "expired" is such a refusal.
Connecting == /\ Settled
              /\ \/ socket \in {"connecting", "disconnected"}
                 \/ socket = "error" /\ tries < Reconnections

\* authenticateSocket: the handshake always carries the token SocketProvider
\* read when the session began. Emits buffered meanwhile go out first.
Connects ==
    /\ Connecting
    /\ \/ fresh /\ socket' = "connected" /\ UNCHANGED tries
       \/ ~fresh /\ socket' = "expired" /\ UNCHANGED tries
       \/ "socket" \in world.faults /\ tries < Reconnections
             /\ socket' = "error" /\ tries' = tries + 1
    /\ UNCHANGED <<rows, pending, redis, fresh, rooms, outbox, inbox, list, filter,
                   selectedId, live, effects, listeners, retries, toasts, finals,
                   missed>>

\* registerHandlers: subscribe:job and unsubscribe:job, in the order sent.
HandleEmit ==
    /\ socket = "connected" /\ outbox # <<>>
    /\ LET emit == Head(outbox)
       IN  rooms' = IF emit.join THEN rooms \union {emit.job} ELSE rooms \ {emit.job}
    /\ outbox' = Tail(outbox)
    /\ UNCHANGED <<rows, pending, net, inbox, list, filter, selectedId, live,
                   effects, listeners, retries, toasts, finals, missed>>

-----------------------------------------------------------------------------
(* The page.                                                               *)

Subscribed(deps) == deps.job # None /\ deps.socket = "connected"

\* Mutant: the cleanup leaves the callbacks on the socket.
Unlisten_Forgets(l) == l

Unlisten(l) == IF Subscribed(effects) THEN [l EXCEPT ![effects.job] = @ - 1] ELSE l

\* Mutant: the overlay is kept when the selection changes.
Reset_Keeps(o) == o

\* Jobs.jsx clears the overlay when another job is selected.
Reset(o) == IF effects.job # Selected THEN None ELSE o

\* Mutant: the cleanup does not unsubscribe.
Emits_JoinOnly(old, new) == new

Emits(old, new) == old \o new

\* React runs the cleanups of the last effects and then the new effects; the
\* emits are buffered while the socket is away.
RunEffects ==
    LET deps  == [job |-> Selected, socket |-> socket]
        leave == IF Subscribed(effects)
                 THEN <<[join |-> FALSE, job |-> effects.job]>> ELSE <<>>
        join  == IF Subscribed(deps) THEN <<[join |-> TRUE, job |-> deps.job]>> ELSE <<>>
        quiet == Unlisten(listeners)
    IN  /\ ~Settled
        /\ effects' = deps
        /\ outbox' = outbox \o Emits(leave, join)
        /\ listeners' = IF join = <<>> THEN quiet
                        ELSE [quiet EXCEPT ![deps.job] = @ + 1]
        /\ live' = Reset(live)
        /\ missed' = IF live' = live THEN missed
                     ELSE {j \in missed : \E i \in DOMAIN inbox : inbox[i].job = j}
        /\ UNCHANGED <<rows, pending, net, rooms, inbox, list, filter, selectedId,
                       retries, toasts, finals>>

\* Callbacks of useJobProgress: an event of a job nobody listens to is ignored.
HandleEvent ==
    LET e     == Head(inbox)
        heard == listeners[e.job] > 0
    IN  /\ inbox # <<>>
        /\ inbox' = Tail(inbox)
        /\ live' = IF heard THEN [job |-> e.job, status |-> e.status] ELSE live
        /\ toasts' = IF e.kind = "completed"
                     THEN [toasts EXCEPT ![e.job] = @ + listeners[e.job]] ELSE toasts
        /\ UNCHANGED <<rows, pending, net, rooms, outbox, list, filter, selectedId,
                       effects, listeners, retries, finals, missed>>

\* A bound: the server keeps up with what the selection makes the page emit.
Unhurried == socket = "connected" => Len(outbox) < MaxOutbox

\* listJobs
Rows == [j \in {k \in Jobs : /\ status[k] # "NONE"
                             /\ filter \in {"", status[k]}}
            |-> [status |-> status[j], left |-> left[j]]]

\* Mutant: the query has no refetchInterval and nothing invalidates it.
Poll_Once ==
    /\ list = <<>>
    /\ Unhurried
    /\ list' = Rows
    /\ UNCHANGED <<rows, pending, net, rooms, outbox, inbox, filter, selectedId, live,
                   effects, listeners, retries, toasts, finals, missed>>

\* The query on mount, every refetchInterval and after each invalidation. An
\* answer that arrives late is a poll made before what it missed.
Poll ==
    /\ Unhurried
    /\ list' = Rows
    /\ UNCHANGED <<rows, pending, net, rooms, outbox, inbox, filter, selectedId, live,
                   effects, listeners, retries, toasts, finals, missed>>

Select(j) ==
    /\ Settled /\ Unhurried
    /\ j \in Listed /\ selectedId' = j
    /\ UNCHANGED <<rows, pending, net, rooms, outbox, inbox, list, filter, live,
                   effects, listeners, retries, toasts, finals, missed>>

\* Another filter is another query.
PickFilter(f) ==
    /\ Settled /\ f # filter
    /\ filter' = f /\ list' = <<>>
    /\ UNCHANGED <<rows, pending, net, rooms, outbox, inbox, selectedId, live,
                   effects, listeners, retries, toasts, finals, missed>>

\* live?.status ?? selected.status
Shown == IF live # None THEN live.status ELSE list[Selected].status

\* The segments of ChunkBar that are lit come from the polled row only.
ChunksLeft == list[Selected].left

\* The button is offered for the status shown; the API decides on the row's.
Retry ==
    /\ Settled /\ Selected # None /\ Shown \in Lifecycle!Retryable
    /\ retries[Selected] < MaxRetries
    /\ Lifecycle!Reopen(Selected) /\ left'[Selected] = 1
    /\ retries' = [retries EXCEPT ![Selected] = @ + 1]
    /\ UNCHANGED <<world, pending, net, rooms, outbox, inbox, list, filter, selectedId, live,
                   effects, listeners, toasts, finals, missed>>

-----------------------------------------------------------------------------

Init ==
    /\ world \in Worlds
    /\ Lifecycle!Init
    /\ pending = {}
    /\ redis = TRUE /\ fresh = TRUE /\ socket = "connecting" /\ tries = 0
    /\ rooms = {} /\ outbox = <<>> /\ inbox = <<>>
    /\ list = <<>>
    /\ filter = "" /\ selectedId = None /\ live = None
    /\ effects = [job |-> None, socket |-> "connecting"]
    /\ listeners = [j \in Jobs |-> 0] /\ retries = [j \in Jobs |-> 0]
    /\ toasts = [j \in Jobs |-> 0] /\ finals = [j \in Jobs |-> 0]
    /\ missed = {}

Record  == \E j \in Jobs : recordChunkResult(j)
Publish == \E p \in pending :
    finalizeJob(p) \/ publishJobProgress(p) \/ publishJobCompleted(p)

Browser == Connects \/ HandleEmit \/ RunEffects \/ HandleEvent

Next ==
    \/ \E j \in Jobs : AcceptJob(j) \/ StartJob(j) \/ Select(j)
    \/ Record \/ Publish
    \/ RedisDown \/ RedisUp \/ TokenExpires \/ SocketDrops
    \/ Browser \/ Poll \/ Retry
    \/ \E f \in world.filters : PickFilter(f)

Spec == Init /\ [][Next]_vars

\* The worker and the browser keep running, and the page keeps polling; no
\* one has to use it, and connections need not fail or come back.
FairSpec ==
    /\ Spec
    /\ \A j \in Jobs : WF_vars(StartJob(j))
    /\ WF_vars(Record) /\ WF_vars(Publish)
    /\ WF_vars(HandleEmit) /\ WF_vars(RunEffects) /\ WF_vars(HandleEvent)
    /\ SF_vars(Poll)

-----------------------------------------------------------------------------
(* Properties.                                                             *)

\* "Without that a dropped connection would silently stop delivering
\* progress": when the browser's emits have been handled, the socket is in the
\* room of the job on screen and in no other, through any order of
\* selections, drops and reconnections with emits buffered.
RoomMatchesPage ==
    socket = "connected" /\ Settled /\ outbox = <<>> => rooms = {Selected} \ {None}

\* "Fired once, by whichever worker finalised the job": a run that ends is
\* announced to the user at most once, however often the page re-subscribed.
OneToastPerRun == \A j \in Jobs : toasts[j] <= finals[j]

\* The overlay is laid over no other job's row, and the page shows a job as
\* final only if it has been: whatever events are still on their way when the
\* selection changes, early, late or for another job, they may make the page
\* lag behind the row, never run ahead of it.
ShownFinalWasReached ==
    Settled =>
        /\ live # None => live.job = Selected
        /\ Selected # None /\ Shown \in Final => finals[Selected] > 0

\* A watched job that ends is shown as ended, whatever the order of two
\* handlers' events, unless the overlay lost an event or got one late.
FrozenOnlyIfMissed ==
    \A j \in Jobs : status[j] \in Final /\ Selected = j ~>
        \/ status[j] \notin Final \/ Selected # j \/ j \in missed
        \/ Shown = status[j]

\* "A socket drop should not freeze the board": the poll brings every watched
\* job's end to the screen.
BoardCatchesUp ==
    \A j \in Jobs : status[j] \in Final /\ Selected = j ~>
        \/ status[j] \notin Final \/ Selected # j
        \/ Shown = status[j]

\* The chunk bar of a watched job that has ended fills up, whatever was lost:
\* it is drawn from the polled row.
BarFills ==
    \A j \in Jobs : status[j] \in Final /\ Selected = j ~>
        status[j] \notin Final \/ Selected # j \/ ChunksLeft = 0

=============================================================================
