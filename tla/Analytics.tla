----------------------------- MODULE Analytics -----------------------------
(***************************************************************************)
(* The reports over transactions and their predictions: SQL aggregates of  *)
(* the same two tables, reports that take several queries while others     *)
(* score, delete and import, and the CSV export, read batch by batch.      *)
(*                                                                         *)
(*   backend/src/modules/analytics/analytics.service.js                    *)
(*   backend/src/modules/predictions/predictions.service.js                *)
(*                                           streamPredictionsForExport    *)
(*   frontend/src/pages/Dashboard.jsx, Insights.jsx                        *)
(*                                                                         *)
(* Amounts, average scores and rates are left out; a prediction is its     *)
(* risk level. A write is of one row: a statement of many is many at once. *)
(* Time is in hours, HoursPerDay of them to a day.                         *)
(***************************************************************************)
EXTENDS Integers, Sequences, FiniteSets, FiniteSetsExt, Functions

CONSTANTS
    Ids,         \* transactions
    Accounts,    \* numbers: ORDER BY acct
    Times,       \* hours
    HoursPerDay,
    CountryOf,   \* the location of an account's transactions, None if it has none
    Arrivals,    \* what an import may add
    IdOf,        \* the place of a transaction's prediction in the order of ids
    ExportBatch, \* rows an export reads at a time
    Worlds,      \* the instances Init chooses from: a table and what may happen
    None,
    MaxWrites    \* bound: writes to the tables

Levels == {"CLEAR", "SUSPICIOUS", "CRITICAL"}
Txn == [sender : Accounts, receiver : Accounts, at : Times,
        level : Levels \union {None}, \* the prediction's, None before it is scored
        live : BOOLEAN]               \* deleted_at IS NULL

ASSUME AnalyticsAssumption ==
    /\ IsFiniteSet(Ids) /\ None \notin Ids \union Levels /\ IsFiniteSet(Accounts)
    /\ Accounts \subseteq Int /\ Times \subseteq Nat /\ HoursPerDay \in Nat \ {0}
    /\ Arrivals \subseteq Txn /\ MaxWrites \in Nat
    /\ IdOf \in [Ids -> Nat] /\ ExportBatch \in Nat \ {0}
    /\ \A t, u \in Ids : IdOf[t] = IdOf[u] => t = u
    /\ \A w \in Worlds : w.table \in [Ids -> Txn \union {None}]

VARIABLES
    txns,    \* each transaction, None before it is imported
    answers, \* what each query behind the reports read last, None before it ran
    summary, \* the GET /analytics/summary under way or shown, or None
    network, \* the GET /analytics/network under way, or None
    radar,   \* the GET /analytics/scatter under way or shown, or None
    export,  \* the GET /predictions/export under way, or None
    happens, \* the instance: a set of what may happen
    writes   \* history, bounded by MaxWrites: the rows written so far

tableVars     == <<txns, writes>>
reportVars    == <<answers, summary>>
analyticsVars == <<tableVars, reportVars, network, radar, export, happens>>

Live       == {t \in Ids : txns[t] # None /\ txns[t].live}
Scored     == {t \in Live : txns[t].level # None}
OfLevel(l) == {t \in Live : txns[t].level = l}
Flagged    == OfLevel("SUSPICIOUS") \union OfLevel("CRITICAL")
Day(t)     == txns[t].at \div HoursPerDay
Hour(t)    == txns[t].at % HoursPerDay
Country(t) == CountryOf[txns[t].sender]

-----------------------------------------------------------------------------
(* The reports, each query of them at a moment of its own.                 *)

\* The counters all of them select, of a group of transactions.
Counts(S) ==
    [transactions |-> Cardinality(S), scored |-> Cardinality(S \intersect Scored),
     critical |-> Cardinality(S \intersect OfLevel("CRITICAL"))]

GroupBy(key(_)) == [k \in {key(t) : t \in Live} |-> Counts({t \in Live : key(t) = k})]

SumOf(report, field) == MapThenSumSet(LAMBDA k : report[k][field], DOMAIN report)

\* ORDER BY bucket ASC LIMIT days: the oldest buckets.
getTrend(days) ==
    LET buckets == GroupBy(Day)
    IN  [d \in {b \in DOMAIN buckets : Cardinality({e \in DOMAIN buckets : e < b}) < days} |->
           buckets[d]]

getHourlyRisk == GroupBy(Hour)

\* WHERE location IS NOT NULL
getGeoRisk ==
    LET byCountry == GroupBy(Country)
    IN  [c \in DOMAIN byCountry \ {None} |-> byCountry[c]]

\* Mutant: the predictions of deleted transactions count.
Predicted_Deleted == {t \in Ids : txns[t] # None /\ txns[t].level # None}

\* The rows of predictions that getDistribution joins.
Predicted == Scored

getDistribution ==
    [scored |-> Cardinality(Predicted),
     critical |-> Cardinality({t \in Predicted : txns[t].level = "CRITICAL"})]

\* COUNT(DISTINCT t.location)
Countries == {Country(t) : t \in Live} \ {None}

getPublicStats ==
    [transactions |-> Cardinality(Live), scored |-> Cardinality(Scored),
     critical |-> Cardinality(OfLevel("CRITICAL")), countries |-> Cardinality(Countries)]

Queries == {"totals", "periods", "distribution", "trend", "hours", "countries", "public"}
Fields  == {"transactions", "scored", "critical", "countries"}

\* What a report of groups adds up to, in the fields it has.
Added(report, fields) == [f \in fields |-> SumOf(report, f)]

\* What a query read, and which of it is of everything there is.
Answers(query, figures, whole) ==
    answers' = [answers EXCEPT ![query] = [figures |-> figures, whole |-> whole, at |-> writes]]

AskTrend(days) ==
    LET trend   == getTrend(days)
        figures == Added(trend, {"transactions", "scored", "critical"})
    IN  Answers("trend", figures,
                IF Cardinality(DOMAIN trend) < days THEN DOMAIN figures ELSE {})

AskHours ==
    Answers("hours", Added(getHourlyRisk, {"transactions", "critical"}),
            {"transactions", "critical"})

\* What the insights page adds up from the countries, and how many there are.
AskCountries ==
    Answers("countries",
            [f \in Fields |-> IF f = "countries" THEN Cardinality(DOMAIN getGeoRisk)
                              ELSE SumOf(getGeoRisk, f)],
            {"countries"})

AskDistribution == Answers("distribution", getDistribution, {"scored", "critical"})
AskPublicStats  == Answers("public", getPublicStats, Fields)

AskReport ==
    /\ "reports" \in happens
    /\ \/ \E days \in {1, Cardinality(Ids) + 1} : AskTrend(days)
       \/ AskHours \/ AskCountries \/ AskDistribution \/ AskPublicStats
    /\ UNCHANGED <<tableVars, summary, network, radar, export, happens>>

-----------------------------------------------------------------------------
(* The summary, in three queries: the totals, the newest transaction, and  *)
(* two windows that end at it.                                             *)

SelectTotals ==
    /\ "reports" \in happens /\ (summary # None => summary.pc = "answered")
    /\ Answers("totals", Counts(Live), {"transactions", "scored", "critical"})
    /\ summary' = [pc |-> "anchor", anchor |-> {}, at |-> 0, current |-> 0, late |-> 0]
    /\ UNCHANGED <<tableVars, network, radar, export, happens>>

\* MAX(txn_timestamp), which is NULL when there is none.
SelectAnchor ==
    /\ summary # None /\ summary.pc = "anchor"
    /\ LET times == {txns[t].at : t \in Live}
       IN  summary' = [summary EXCEPT !.pc = "periods", !.at = writes,
                                      !.anchor = {n \in times : \A m \in times : m <= n}]
    /\ UNCHANGED <<tableVars, answers, network, radar, export, happens>>

\* Nothing compares to NULL; a transaction later than the anchor is current.
Current(anchor, w)  == {t \in Live : \E n \in anchor : txns[t].at > n - w}
Previous(anchor, w) ==
    {t \in Live : \E n \in anchor : txns[t].at <= n - w /\ txns[t].at > n - 2 * w}

SelectPeriods ==
    /\ summary # None /\ summary.pc = "periods"
    /\ LET current  == Counts(Current(summary.anchor, HoursPerDay))
           previous == Counts(Previous(summary.anchor, HoursPerDay))
       IN  /\ Answers("periods",
                      [f \in {"transactions", "critical"} |-> current[f] + previous[f]], {})
           /\ summary' = [summary EXCEPT !.pc = "answered", !.late = writes - summary.at,
                                         !.current = current.transactions]
    /\ UNCHANGED <<tableVars, network, radar, export, happens>>

-----------------------------------------------------------------------------
(* The network of repeat participants, in three queries.                   *)

degree(a) == Cardinality({t \in Flagged : txns[t].sender = a})
             + Cardinality({t \in Flagged : txns[t].receiver = a})
Repeat    == {a \in Accounts : degree(a) > 1}

\* ORDER BY COUNT(*) DESC, acct ASC LIMIT
Hubs(limit) ==
    {a \in Repeat :
        Cardinality({b \in Repeat : degree(b) > degree(a) \/ (degree(b) = degree(a) /\ b < a)})
            < limit}

\* Mutant: only what a hub sends.
Touches_Sender(t, hubs) == txns[t].sender \in hubs

Touches(t, hubs) == txns[t].sender \in hubs \/ txns[t].receiver \in hubs

AskNetwork(limit) ==
    /\ "network" \in happens /\ network = None
    /\ network' = [pc |-> "edges", limit |-> limit, at |-> writes,
                   hubs |-> [a \in Hubs(limit) |-> degree(a)], edges |-> {}, total |-> 0,
                   late |-> 0, later |-> 0]
    /\ UNCHANGED <<tableVars, reportVars, radar, export, happens>>

\* An edge keeps its ends: the transaction may change under it.
SelectEdges ==
    /\ network # None /\ network.pc = "edges"
    /\ network' = [network EXCEPT !.pc = "total", !.late = writes - network.at,
                     !.edges = {<<t, txns[t].sender, txns[t].receiver>> :
                                  t \in {u \in Flagged : Touches(u, DOMAIN network.hubs)}}]
    /\ UNCHANGED <<tableVars, reportVars, radar, export, happens>>

CountHubs ==
    /\ network # None /\ network.pc = "total"
    /\ network' = [network EXCEPT !.pc = "answered", !.total = Cardinality(Repeat),
                                  !.later = writes - network.at]
    /\ UNCHANGED <<tableVars, reportVars, radar, export, happens>>

Nodes == UNION {{e[2], e[3]} : e \in network.edges}

\* What touch makes of a node that is not one of the hubs.
ShownDegree(a) == IF a \in DOMAIN network.hubs THEN network.hubs[a] ELSE 1

-----------------------------------------------------------------------------
(* The CSV export of predictions, of every level (None) or of one: batches *)
(* in the order of ids, each after the last row of the one before it.      *)

\* buildPredictionWhere, over a table.
Where(level, table) ==
    {t \in Ids : /\ table[t] # None /\ table[t].live
                 /\ IF level = None THEN table[t].level # None ELSE table[t].level = level}

First(n, S) == {t \in S : Cardinality({u \in S : IdOf[u] < IdOf[t]}) < n}

\* Mutant: as many rows are skipped as have been read.
Rest_Offset(e) ==
    LET matching == Where(e.level, txns)
    IN  matching \ First(Cardinality(UNION Range(e.batches)), matching)

\* The rows from the cursor on, but for the first: skip: 1 passes over the row
\* at the cursor, or over the next one when that row matches no more.
Rest(e) ==
    LET matching == Where(e.level, txns)
        from     == {t \in matching : IdOf[t] >= IdOf[e.cursor]}
    IN  IF e.cursor = None THEN matching ELSE from \ First(1, from)

AskExport(level) ==
    /\ "export" \in happens /\ export = None
    /\ export' = [pc |-> "streaming", level |-> level, cursor |-> None, batches |-> <<>>,
                  always |-> Where(level, txns), ever |-> Where(level, txns),
                  passed |-> FALSE]
    /\ UNCHANGED <<tableVars, reportVars, network, radar, happens>>

\* A batch that is not full is the last.
ReadBatch ==
    /\ export # None /\ export.pc = "streaming"
    /\ LET batch == First(ExportBatch, Rest(export))
       IN  export' = [export EXCEPT
             !.pc = IF Cardinality(batch) < ExportBatch THEN "ended" ELSE @,
             !.batches = IF batch = {} THEN @ ELSE Append(@, batch),
             !.cursor = IF batch = {} THEN @
                        ELSE CHOOSE t \in batch : \A u \in batch : IdOf[u] <= IdOf[t],
             !.passed = @ \/ export.cursor \notin Where(export.level, txns) \union {None}]
    /\ UNCHANGED <<tableVars, reportVars, network, radar, happens>>

\* The download fails visibly.
FailExport ==
    /\ export # None /\ export.pc = "streaming"
    /\ export' = [export EXCEPT !.pc = "destroyed"]
    /\ UNCHANGED <<tableVars, reportVars, network, radar, happens>>

-----------------------------------------------------------------------------
(* Everyone else.                                                          *)

Written(table) ==
    /\ writes < MaxWrites /\ writes' = writes + 1
    /\ txns' = table
    /\ export' = IF export = None THEN None
                 ELSE LET matching == Where(export.level, table)
                      IN  [export EXCEPT !.always = @ \intersect matching,
                                         !.ever = @ \union matching]
    /\ UNCHANGED <<reportVars, network, radar, happens>>

Score(t, l) == t \in Live /\ txns[t].level # l /\ Written([txns EXCEPT ![t].level = l])

Delete(t) == t \in Live /\ Written([txns EXCEPT ![t].live = FALSE])

Arrive(t) == txns[t] = None /\ \E r \in Arrivals : Written([txns EXCEPT ![t] = r])

Writes ==
    /\ "writes" \in happens
    /\ \E t \in Ids : (\E l \in Levels : Score(t, l)) \/ Delete(t) \/ Arrive(t)

AnalyticsInit ==
    /\ \E w \in Worlds : txns = w.table /\ happens = w.happens
    /\ answers = [q \in Queries |-> None] /\ summary = None
    /\ network = None /\ radar = None /\ export = None /\ writes = 0

AnalyticsNext ==
    \/ AskReport \/ SelectTotals \/ SelectAnchor \/ SelectPeriods
    \/ \E limit \in {1, Cardinality(Accounts)} : AskNetwork(limit)
    \/ SelectEdges \/ CountHubs
    \/ \E level \in {None, "CRITICAL"} : AskExport(level)
    \/ ReadBatch \/ FailExport \/ Writes

-----------------------------------------------------------------------------
(* Properties.                                                             *)

\* The figures of the dashboard, the insights page and the login screen come from
\* queries at different moments, while others score, delete and import: no two of
\* them differ by more rows than were written between their reading, and one that
\* is not of everything (two windows, the countries, as many days as were asked
\* for) exceeds none by more. "Anchoring to the wall clock would leave both windows
\* empty": unless someone writes between the anchor and the windows, the current
\* one is empty only when there is no transaction.
ReportsDriftByWrites ==
    /\ \A p, q \in {r \in Queries : answers[r] # None} :
          LET apart == IF answers[p].at > answers[q].at THEN answers[p].at - answers[q].at
                       ELSE answers[q].at - answers[p].at
          IN  \A f \in DOMAIN answers[p].figures \intersect answers[q].whole :
                 answers[p].figures[f] <= answers[q].figures[f] + apart
    /\ summary # None /\ summary.pc = "answered" /\ summary.late = 0 =>
          (summary.current = 0 <=> summary.anchor = {})

Within(d, m, n) == m <= n + d /\ n <= m + d

\* Hubs, edges and the number of hubs are read one after the other, while others
\* score, delete and import. A write moves an account's number of flagged ends by
\* two at most (a payment to oneself has two), and makes or ends two hubs at most:
\* the degree shown is that of the edges shown, the account of no hub has one
\* end unless hubs are left out, and the hubs shown are those counted or as many
\* as were asked for, but for as much as was written in between.
NetworkIsConsistent ==
    network # None /\ network.pc = "answered" =>
        LET hubs    == DOMAIN network.hubs
            shown   == Cardinality(hubs)
            ends(a) == Cardinality({e \in network.edges : e[2] = a})
                       + Cardinality({e \in network.edges : e[3] = a})
        IN  /\ shown <= network.limit /\ shown <= network.total + 2 * network.later
            /\ \A a \in hubs : network.hubs[a] > 1 /\ Within(2 * network.late, ShownDegree(a), ends(a))
            /\ shown < network.limit =>
                  /\ Within(2 * network.later, shown, network.total)
                  /\ \A a \in Nodes \ hubs : ends(a) <= ShownDegree(a) + 2 * network.late

\* "Page through every prediction matching a filter": a download that ends well
\* has no row twice, none that never matched, and all that matched from the
\* first batch to the last, unless the row at the cursor stopped matching
\* before the next batch was read.
ExportIsWhole ==
    export # None /\ export.pc = "ended" =>
        LET batches == export.batches
        IN  /\ \A m, n \in DOMAIN batches : m # n => batches[m] \intersect batches[n] = {}
            /\ UNION Range(batches) \subseteq export.ever
            /\ export.passed \/ export.always \subseteq UNION Range(batches)

=============================================================================
