-------------------------- MODULE TransactionsPage --------------------------
(***************************************************************************)
(* The transactions page: a paginated list and the risk radar, over the    *)
(* tables of module Analytics.                                             *)
(*                                                                         *)
(*   backend/src/modules/transactions/transactions.service.js              *)
(*                                     listTransactions                    *)
(*   backend/src/modules/analytics/analytics.service.js     getScatter     *)
(*   frontend/src/pages/Transactions.jsx                                   *)
(*   frontend/src/store/ui.js                                              *)
(*                                                                         *)
(* A page of the list is two queries at once. Answers are cached by filter *)
(* and page, and while one is awaited the last one stays on screen.        *)
(***************************************************************************)
EXTENDS Analytics, SequencesExt

CONSTANTS
    Picked,   \* the transactions the filters pick, when they are set
    PageSize,
    MaxPage,  \* bound: pages the user goes to
    MaxPoints \* limit of the radar

ASSUME TransactionsPageAssumption ==
    /\ Picked \subseteq Ids /\ PageSize \in Nat \ {0}
    /\ MaxPage \in Nat \ {0} /\ MaxPoints \in Nat

VARIABLES
    view, filtered, page, \* what the user chose
    cache,    \* the answers there are, by filter and page
    asked,    \* the answers awaited: what has come of each
    previous, \* what was on screen before the filter or the page changed
    hasty     \* history: a page has been turned on a placeholder

listVars == <<view, filtered, page, cache, asked, previous, hasty>>
vars     == <<analyticsVars, listVars>>

Keys   == BOOLEAN \X (1..MaxPage)
Key    == <<filtered, page>>

\* buildWhere
Matching(f) == {t \in Live : f => t \in Picked}

-----------------------------------------------------------------------------
(* The list.                                                               *)

\* Mutant: the first page is counted as if it came after one.
Skip_OneMore(p) == p * PageSize

Skip(p) == (p - 1) * PageSize

\* ORDER BY one column: transactions of the same time come in any order, in
\* another one each time.
Orders(S) ==
    {s \in SetToSeqs(S) : \A m, n \in DOMAIN s : m < n => txns[s[m]].at >= txns[s[n]].at}

Slices(key) ==
    {SubSeq(s, Skip(key[2]) + 1, Min({Skip(key[2]) + PageSize, Len(s)})) :
        s \in Orders(Matching(key[1]))}

\* The list is queried behind the radar too. (A bound: an answer is not asked
\* for again, as after 30 seconds it would be.)
Ask ==
    /\ "pages" \in happens /\ asked[Key] = None /\ cache[Key] = None
    /\ asked' = [asked EXCEPT ![Key] = [total |-> None, rows |-> None]]
    /\ UNCHANGED <<analyticsVars, view, filtered, page, cache, previous, hasty>>

\* listTransactions, its two queries in either order.
CountRows(k) ==
    /\ asked[k] # None /\ asked[k].total = None
    /\ asked' = [asked EXCEPT ![k].total = Cardinality(Matching(k[1]))]
    /\ UNCHANGED <<analyticsVars, view, filtered, page, cache, previous, hasty>>

SelectRows(k) ==
    /\ asked[k] # None /\ asked[k].rows = None
    /\ \E s \in Slices(k) : asked' = [asked EXCEPT ![k].rows = s]
    /\ UNCHANGED <<analyticsVars, view, filtered, page, cache, previous, hasty>>

Receive(k) ==
    /\ asked[k] # None /\ asked[k].total # None /\ asked[k].rows # None
    /\ cache' = [cache EXCEPT ![k] =
          [filtered |-> k[1], page |-> k[2], total |-> asked[k].total, rows |-> asked[k].rows]]
    /\ asked' = [asked EXCEPT ![k] = None]
    /\ UNCHANGED <<analyticsVars, view, filtered, page, previous, hasty>>

\* keepPreviousData
Shown       == IF cache[Key] # None THEN cache[Key] ELSE previous
Placeholder == cache[Key] = None

TotalPages(a) == (a.total + PageSize - 1) \div PageSize

\* The pagination is there for more than one page; its buttons go by what is
\* shown.
Paginates == view = "list" /\ Shown # None /\ TotalPages(Shown) > 1

GoTo(p) ==
    /\ page' = p /\ previous' = Shown
    /\ UNCHANGED <<analyticsVars, view, filtered, cache, asked>>

NextPage ==
    /\ Paginates /\ Shown.page < TotalPages(Shown)
    /\ page < MaxPage /\ GoTo(page + 1)
    /\ hasty' = (hasty \/ Placeholder)

PreviousPage ==
    /\ Paginates /\ Shown.page > 1
    /\ GoTo(IF page > 1 THEN page - 1 ELSE 1)
    /\ hasty' = (hasty \/ Placeholder)

\* Mutant: the page is kept when the filters change.
FirstPage_Kept == page

FirstPage == 1

\* applySearch, the selects and resetAll; handleSort turns back to page 1 too.
SetFilter ==
    /\ filtered' = ~filtered /\ page' = FirstPage /\ previous' = Shown
    /\ happens \intersect {"pages", "radar"} # {}
    /\ UNCHANGED <<analyticsVars, view, cache, asked, hasty>>

-----------------------------------------------------------------------------
(* The radar.                                                              *)

\* The conditions of getScatter, over the join with predictions.
Plotted(f) == Matching(f) \intersect Scored

SetView(v) ==
    /\ happens \intersect {"pages", "radar"} # {}
    /\ view # v /\ view' = v
    /\ UNCHANGED <<analyticsVars, filtered, page, cache, asked, previous, hasty>>

AskRadar ==
    /\ "radar" \in happens /\ view = "radar"
    /\ radar # None => radar.filtered # filtered
    /\ radar' = [pc |-> "sample", filtered |-> filtered, at |-> writes,
                 total |-> Cardinality(Plotted(filtered)), points |-> {}, left |-> 0, late |-> 0]
    /\ UNCHANGED <<tableVars, reportVars, network, export, happens, listVars>>

\* ORDER BY random() LIMIT
Sample ==
    /\ radar # None /\ radar.pc = "sample"
    /\ \E points \in SUBSET Plotted(radar.filtered) :
          /\ Cardinality(points) = MaxPoints
             \/ (points = Plotted(radar.filtered) /\ Cardinality(points) < MaxPoints)
          /\ radar' = [radar EXCEPT !.pc = "answered", !.points = points,
                          !.left = Cardinality(Plotted(radar.filtered) \ points),
                          !.late = writes - radar.at]
    /\ UNCHANGED <<tableVars, reportVars, network, export, happens, listVars>>

\* Mutant: the limit is what tells.
Sampled_ByLimit == Cardinality(radar.points) > MaxPoints

Sampled == radar.total > Cardinality(radar.points)

-----------------------------------------------------------------------------

Init ==
    /\ AnalyticsInit
    /\ view = "radar" /\ filtered = FALSE /\ page = 1
    /\ cache = [k \in Keys |-> None] /\ asked = [k \in Keys |-> None]
    /\ previous = None /\ hasty = FALSE

Next ==
    \/ AnalyticsNext /\ UNCHANGED listVars
    \/ Ask \/ NextPage \/ PreviousPage \/ SetFilter
    \/ \E v \in {"list", "radar"} : SetView(v)
    \/ \E k \in Keys : CountRows(k) \/ SelectRows(k) \/ Receive(k)
    \/ AskRadar \/ Sample

Spec == Init /\ [][Next]_vars

-----------------------------------------------------------------------------
(* Properties.                                                             *)

Seen(f)     == {p \in 1..MaxPage : cache[<<f, p>>] # None}
SeenRows(f) == UNION {ToSet(cache[<<f, p>>].rows) : p \in Seen(f)}

Complete(f) == 1 \in Seen(f) /\ 1..TotalPages(cache[<<f, 1>>]) \subseteq Seen(f)

OneOrder == \A t, u \in Live : t # u => txns[t].at # txns[u].at

\* Turning all pages of a list that nobody writes to shows every transaction
\* that matches once, as long as no two of them have the same time.
PagesCover ==
    OneOrder /\ writes = 0 =>
        \A f \in BOOLEAN : Complete(f) =>
            /\ SeenRows(f) = Matching(f)
            /\ \A t \in Matching(f) :
                  Cardinality({p \in Seen(f) : t \in ToSet(cache[<<f, p>>].rows)}) = 1

\* "No transactions match these filters" is shown for an answer without rows, also
\* while that answer only stands in for the next one: nothing matches the filters
\* it was asked with, for a user who waits for a page before turning it.
EmptyMeansNoMatch ==
    writes = 0 /\ ~hasty /\ Shown # None /\ Shown.rows = <<>> => Matching(Shown.filtered) = {}

\* "The UI states the sample size so nobody reads it as the whole population": the
\* count and the sample are two queries. Of the scored transactions that match
\* when the points are drawn, a radar that does not call itself a sample leaves
\* out no more than were written since the count.
SampleIsMarked ==
    radar # None /\ radar.pc = "answered" /\ ~Sampled => radar.left <= radar.late

=============================================================================
