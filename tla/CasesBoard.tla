----------------------------- MODULE CasesBoard -----------------------------
(***************************************************************************)
(* The review board and the transaction drawer of one user, over the cases *)
(* of module Cases that other users work on too.                           *)
(*                                                                         *)
(*   frontend/src/pages/Cases.jsx                     the board            *)
(*   frontend/src/components/TransactionDrawer.jsx    the drawer           *)
(*   frontend/src/main.jsx                            the query client     *)
(*                                                                         *)
(* Each useQuery is an entry of the query cache, named by its key. What the*)
(* page shows is the entry's data; it asks again only when something       *)
(* invalidates the entry or mounts it when it is stale.                    *)
(***************************************************************************)
EXTENDS Cases

CONSTANTS
    Me,          \* the page's user
    PerColumn,   \* PER_COLUMN
    NoData,      \* a query that has no data yet
    Worlds       \* the instances Init chooses from, below

Acts == {"backfill",  \* administrators run backfills
         "others",    \* other users update cases
         "delete", "rescore", \* others delete and score transactions
         "drag", "buttons",   \* the user drags cards, or uses their buttons
        "drawer",    \* the user opens the drawer and acts in it
         "api"}       \* the connection to the API fails

ColumnKeys == {<<"cases", s>> : s \in CASE_STATUSES}
CaseKeys   == ColumnKeys \union {<<"cases", "counts">>}
DrawerKeys == {"transaction", "prediction-for"} \X Txns
Keys       == CaseKeys \union DrawerKeys

\* A world is [flagged, covered, acts, patches, hits, keys]: the levels the
\* predictions start with, the transactions that have a case, what may happen,
\* what others send, for each transaction the ones whose txn_id contains its
\* txn_id, and the queries it follows (they do not depend on each other).
ASSUME BoardAssumption ==
    /\ Me \in Users /\ PerColumn \in Nat \ {0}
    /\ \A w \in Worlds :
          /\ w.flagged \in [Txns -> RISK_LEVELS \union {None}] /\ w.covered \subseteq Txns
          /\ w.acts \subseteq Acts /\ w.patches \subseteq Patch
          /\ w.hits \in [Txns -> SUBSET Txns] /\ \A t \in Txns : t \in w.hits[t]
          /\ w.keys \subseteq Keys /\ ("drawer" \in w.acts => DrawerKeys \subseteq w.keys)

\* What the drawer's mutation is about and how far it has come.
Mutation == [kind : {"rescore", "remove"}, txn : Txns, pc : {"sent", "done", "failed"}]

ASSUME BoardNoneAssumption == None \notin Txns \union Mutation

VARIABLES
    world,     \* the instance
    queries,   \* the query cache
    awaited,   \* the board's mutations whose answer the page awaits
    dragging,  \* the card being dragged, as it was when the drag began
    drawer,    \* the transaction the drawer shows, or None
    action     \* the drawer's mutation under way, or None

boardVars == <<casesVars, world, queries, awaited, dragging, drawer, action>>
page      == <<awaited, dragging, drawer, action>>

Followed   == world.keys
Mounted    == Followed \intersect
                 (CaseKeys \union ({"transaction", "prediction-for"} \X {drawer}))

\* invalid: to be fetched when it is next mounted. outdated (history): someone
\* has written since the data was read, or the page has, and the query will not
\* ask again for it.
Fresh == [data |-> NoData, phase |-> "idle", answer |-> NoData, error |-> FALSE,
          invalid |-> FALSE, outdated |-> FALSE]

-----------------------------------------------------------------------------
(* The query cache.                                                        *)

Asked(q) == [q EXCEPT !.phase = "asked", !.answer = NoData]

\* Mutant: a fetch under way is taken for the fetch that is asked for.
Refetched_Joins(q) == IF q.phase = "idle" THEN Asked(q) ELSE q

\* A fetch that is asked for again (cancelRefetch) is cancelled and its answer
\* ignored; a first load is joined, whatever it has read already.
Refetched(q) ==
    IF q.phase = "idle" \/ q.data # NoData THEN Asked(q)
    ELSE [q EXCEPT !.outdated = @ \/ q.phase = "answered"]

Ask(q, K) == [k \in Followed |-> IF k \in K THEN Refetched(q[k]) ELSE q[k]]

\* A mount joins what is under way.
Join(q, K) ==
    [k \in Followed |-> IF k \in K /\ q[k].phase = "idle" THEN Asked(q[k]) ELSE q[k]]

\* invalidateQueries: mounted queries are fetched at once, others when mounted.
\* The answer of a fetch under way clears the mark, old as it may be.
Invalidate(q, K) ==
    [k \in Followed |-> IF k \in K \ Mounted
                    THEN [q[k] EXCEPT !.invalid = TRUE,
                                      !.outdated = @ \/ q[k].phase # "idle"]
                    ELSE Ask(q, K \intersect Mounted)[k]]

\* Someone writes what the queries K read, and no one tells the page.
Outdate(q, K) == [k \in Followed |-> IF k \in K THEN [q[k] EXCEPT !.outdated = TRUE] ELSE q[k]]

\* useTransactionDetail finds the prediction by a search on txn_id, the newest
\* of the predictions that match.
Answers(k) ==
    CASE k \in ColumnKeys -> listCases(k[2], PerColumn)
      [] k = <<"cases", "counts">> -> {getCaseCounts}
      [] k[1] = "transaction" -> {k[2] \notin deleted}
      [] OTHER ->
           LET found == {t \in world.hits[k[2]] : t \notin deleted /\ risk[t] # None}
           IN  IF found = {} THEN {None} ELSE {risk[t] : t \in found}

ReadQuery(k) ==
    /\ queries[k].phase = "asked"
    /\ \E d \in Answers(k) :
          queries' = [queries EXCEPT ![k] = [queries[k] EXCEPT !.phase = "answered",
                         !.answer = d, !.outdated = FALSE]]
    /\ UNCHANGED <<casesVars, world, page>>

\* The prediction is asked for once the transaction is known, and again when
\* the drawer mounts it.
ReceiveQuery(k) ==
    LET received == [queries EXCEPT ![k] = [queries[k] EXCEPT !.data = queries[k].answer,
                        !.answer = NoData, !.phase = "idle", !.error = FALSE,
                        !.invalid = FALSE]]
        pred     == <<"prediction-for", k[2]>>
        first    == k[1] = "transaction" /\ queries[k].answer = TRUE
                    /\ k[2] = drawer /\ queries[pred].data = NoData
                    /\ queries[pred].phase = "idle"
    IN  /\ queries[k].phase = "answered"
        /\ queries' = IF first THEN Ask(received, {pred}) ELSE received
        /\ UNCHANGED <<casesVars, world, page>>

\* After its retries; the data it had stays, and the column says it could not
\* load until the user tries again.
FailQuery(k) ==
    /\ "api" \in world.acts /\ queries[k].phase # "idle"
    /\ queries' = [queries EXCEPT ![k] = [queries[k] EXCEPT !.phase = "idle",
                      !.answer = NoData, !.error = TRUE]]
    /\ UNCHANGED <<casesVars, world, page>>

TryAgain(k) ==
    /\ k \in ColumnKeys /\ queries[k].error
    /\ queries' = Ask(queries, {k})
    /\ UNCHANGED <<casesVars, world, page>>

-----------------------------------------------------------------------------
(* The board.                                                              *)

Cards(s) ==
    LET k == <<"cases", s>>
    IN  IF k \notin Followed \/ queries[k].data = NoData \/ queries[k].error
        THEN {} ELSE queries[k].data

\* move.mutate
Move(c, s) ==
    \E i \in RequestIds :
        /\ SendUpdate(i, Me, c, [status |-> s, assignee |-> Unset])
        /\ awaited' = awaited \union {i}

\* The card's buttons, one for each other column.
MoveCard(c, from, to) ==
    /\ "buttons" \in world.acts
    /\ c \in Cards(from) /\ to # from
    /\ Move(c, to)
    /\ UNCHANGED <<world, queries, dragging, drawer, action>>

DragCard(c, from) ==
    /\ "drag" \in world.acts
    /\ dragging = None /\ c \in Cards(from)
    /\ dragging' = [case |-> c, status |-> from]
    /\ UNCHANGED <<casesVars, world, queries, awaited, drawer, action>>

\* handleDrop compares with the status the card had when the drag began.
handleDrop(s) ==
    /\ dragging # None
    /\ dragging' = None
    /\ IF dragging.status = s THEN UNCHANGED <<casesVars, awaited>>
       ELSE Move(dragging.case, s)
    /\ UNCHANGED <<world, queries, drawer, action>>

\* onSuccess and onError both refetch every query of the board.
Settled(q) == Invalidate(q, CaseKeys)

MoveAnswered(i) ==
    /\ i \in awaited /\ answerUpdate(i)
    /\ queries' = Settled(queries)
    /\ awaited' = awaited \ {i}
    /\ UNCHANGED <<world, dragging, drawer, action>>

\* The answer is lost; the request may still be carried out.
MoveLost(i) ==
    /\ "api" \in world.acts /\ i \in awaited
    /\ queries' = Settled(queries)
    /\ awaited' = awaited \ {i}
    /\ UNCHANGED <<casesVars, world, dragging, drawer, action>>

-----------------------------------------------------------------------------
(* The drawer.                                                             *)

\* Data older than staleTime is fetched again, younger data is not.
Mount(q, K) ==
    \E K2 \in SUBSET K :
        queries' = Join(q, K2 \union {k \in K : q[k].data = NoData \/ q[k].invalid})

openDrawer(c, s) ==
    LET t    == c[1]
        pred == <<"prediction-for", t>>
    IN  /\ "drawer" \in world.acts
        /\ drawer = None /\ c \in Cards(s)
        /\ drawer' = t
        /\ Mount(queries, {<<"transaction", t>>} \union
                    IF queries[<<"transaction", t>>].data = TRUE THEN {pred} ELSE {})
        /\ UNCHANGED <<casesVars, world, awaited, dragging, action>>

closeDrawer ==
    /\ drawer # None /\ drawer' = None
    /\ UNCHANGED <<casesVars, world, queries, awaited, dragging, action>>

\* The buttons are offered once the transaction is loaded; its error replaces
\* the panel.
Act(kind) ==
    /\ drawer # None /\ action = None
    /\ queries[<<"transaction", drawer>>].data = TRUE
    /\ action' = [kind |-> kind, txn |-> drawer, pc |-> "sent"]
    /\ UNCHANGED <<casesVars, world, queries, awaited, dragging, drawer>>

\* The API's side of the two mutations: done, or refused for a deleted
\* transaction, a role, or a scorer that is down.
Perform ==
    /\ action # None /\ action.pc = "sent"
    /\ \/ /\ action.kind = "rescore" /\ Me \notin Viewers
          /\ \E level \in RISK_LEVELS : scoreAndPersist(action.txn, level)
          /\ action' = [action EXCEPT !.pc = "done"]
          /\ queries' = Outdate(queries, Followed \ {<<"prediction-for", action.txn>>})
       \/ /\ action.kind = "remove" /\ softDeleteTransaction(action.txn)
          /\ action' = [action EXCEPT !.pc = "done"]
          /\ queries' = Outdate(queries, Followed)
       \/ action' = [action EXCEPT !.pc = "failed"] /\ UNCHANGED <<casesVars, queries>>
    /\ UNCHANGED <<world, awaited, dragging, drawer>>

\* rescore.onSuccess
Rescored(q, t) == Invalidate(q, {<<"prediction-for", t>>})

\* remove.onSuccess closes the drawer and leaves the board as it is.
ActionAnswered ==
    /\ action # None /\ action.pc # "sent"
    /\ action' = None
    /\ queries' = IF action.kind = "rescore" /\ action.pc = "done"
                  THEN Rescored(queries, action.txn) ELSE queries
    /\ drawer' = IF action.kind = "remove" /\ action.pc = "done" THEN None ELSE drawer
    /\ UNCHANGED <<casesVars, world, awaited, dragging>>

-----------------------------------------------------------------------------
(* Everyone else.                                                          *)

Elsewhere ==
    \/ "delete" \in world.acts /\ \E t \in Txns : softDeleteTransaction(t)
    \/ "rescore" \in world.acts /\ \E t \in Txns, l \in RISK_LEVELS : scoreAndPersist(t, l)
    \/ "backfill" \in world.acts /\ \E b \in BackfillIds : findMissing(b)
    \/ \E b \in BackfillIds : createMissing(b)
    \/ /\ "others" \in world.acts
       /\ \E i \in RequestIds, u \in Users \ {Me}, c \in CaseIds, p \in world.patches :
             SendUpdate(i, u, c, p)
    \/ \E i \in RequestIds \ awaited : writeUpdate(i) \/ answerUpdate(i)

Others ==
    /\ Elsewhere
    /\ queries' = IF <<risk, deleted, cases>>' = <<risk, deleted, cases>>
                  THEN queries ELSE Outdate(queries, Followed)
    /\ UNCHANGED <<world, page>>

\* The API's side of the board's own updates.
Serve(i) ==
    /\ readExisting(i) \/ (i \in awaited /\ writeUpdate(i))
    /\ UNCHANGED <<world, queries, page>>

First == CHOOSE b \in BackfillIds : TRUE

Init ==
    /\ world \in Worlds
    /\ risk = world.flagged /\ deleted = {}
    /\ cases = [c \in CaseIds |-> IF c[1] \in world.covered /\ c[2] = First
                                  THEN NewCase ELSE None]
    /\ backfills = [b \in BackfillIds |-> {}]
    /\ requests = [i \in RequestIds |-> None]
    /\ overlapped = FALSE /\ unassigned = {}
    /\ queries = [k \in world.keys |-> IF k \in CaseKeys THEN [Fresh EXCEPT !.phase = "asked"]
                                 ELSE Fresh]
    /\ awaited = {} /\ dragging = None /\ drawer = None /\ action = None

Next ==
    \/ \E k \in Followed : ReadQuery(k) \/ ReceiveQuery(k) \/ FailQuery(k) \/ TryAgain(k)
    \/ \E s \in CASE_STATUSES, c \in CaseIds :
          DragCard(c, s) \/ openDrawer(c, s) \/ \E to \in CASE_STATUSES : MoveCard(c, s, to)
    \/ \E s \in CASE_STATUSES : handleDrop(s)
    \/ \E i \in RequestIds : MoveAnswered(i) \/ MoveLost(i) \/ Serve(i)
    \/ closeDrawer \/ Act("rescore") \/ Act("remove") \/ Perform \/ ActionAnswered
    \/ Others

Spec == Init /\ [][Next]_boardVars

-----------------------------------------------------------------------------
(* Properties.                                                             *)

TypeOK ==
    /\ CasesTypeOK
    /\ world \in Worlds
    /\ DOMAIN queries = Followed
    /\ \A k \in Followed : /\ queries[k].phase \in {"idle", "asked", "answered"}
                       /\ {queries[k].error, queries[k].invalid, queries[k].outdated}
                             \subseteq BOOLEAN
    /\ awaited \subseteq RequestIds
    /\ dragging \in [case : CaseIds, status : CASE_STATUSES] \union {None}
    /\ drawer \in Txns \union {None}
    /\ action \in Mutation \union {None}

\* What a mounted query shows is what the API would answer now, once nothing
\* the page sent is under way: the board after any overlap of moves, refetches,
\* refusals and lost answers, and the drawer after a rescore, also one that ends
\* while the drawer is closed. Except if someone else wrote since, or if the
\* fetch that should have followed the page's own write joined a first load that
\* had been read before.
PageSettles ==
    \A k \in Mounted :
        LET q == queries[k]
        IN  /\ q.data # NoData /\ q.phase = "idle" /\ ~q.error /\ ~q.outdated
            /\ awaited = {} /\ action = None
            => q.data \in Answers(k)

=============================================================================
