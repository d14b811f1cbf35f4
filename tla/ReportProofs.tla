----------------------------- MODULE ReportProofs -----------------------------
(***************************************************************************)
(* What the reports, the list's pages and the export show is true of the   *)
(* tables, for any transactions, accounts, page and batch sizes, and       *)
(* whatever others write in between.                                       *)
(***************************************************************************)
EXTENDS TransactionsPage, FunctionTheorems, FiniteSetTheorems, SequenceTheorems,
        WellFoundedInduction, TLAPS

-----------------------------------------------------------------------------
(* Ranks. A finite set in a total order, given by what comes before each   *)
(* element: how many come before is a bijection onto an initial segment.   *)

Orderly(S, before) ==
    /\ before \in [S -> SUBSET S]
    /\ \A x \in S : x \notin before[x]
    /\ \A x, y \in S : x # y => x \in before[y] \/ y \in before[x]
    /\ \A x, y \in S : x \in before[y] => before[x] \subseteq before[y]

Rank(S, before) == [x \in S |-> Cardinality(before[x])]

LEMMA SubsetSize ==
    ASSUME NEW S, IsFiniteSet(S), NEW T, T \subseteq S
    PROVE  /\ IsFiniteSet(T) /\ Cardinality(T) \in Nat /\ Cardinality(S) \in Nat
           /\ Cardinality(T) <= Cardinality(S)
           /\ T # S => Cardinality(T) < Cardinality(S)
<1>1. T \in SUBSET S
    OBVIOUS
<1>2. /\ IsFiniteSet(T) /\ Cardinality(T) <= Cardinality(S)
      /\ Cardinality(S) = Cardinality(T) => S = T
    BY <1>1, FS_Subset
<1>3. Cardinality(T) \in Nat /\ Cardinality(S) \in Nat
    BY <1>2, FS_CardinalityType
<1>. QED BY <1>2, <1>3

\* The ranks are 0, 1, and so on, each once.
LEMMA RankIsBijection ==
    ASSUME NEW S, IsFiniteSet(S), NEW before, Orderly(S, before)
    PROVE  /\ Rank(S, before) \in Bijection(S, 0..(Cardinality(S) - 1))
           /\ \A x, y \in S : x \in before[y] <=> Rank(S, before)[x] < Rank(S, before)[y]
<1>. DEFINE r == Rank(S, before)
            n == Cardinality(S)
            T == 0..(n - 1)
<1>1. n \in Nat
    BY FS_CardinalityType
<1>2. ASSUME NEW x \in S
      PROVE  before[x] \subseteq S /\ before[x] # S /\ IsFiniteSet(before[x])
    <2>1. before[x] \subseteq S /\ before[x] # S
        BY DEF Orderly
    <2>. QED BY <2>1, SubsetSize
<1>3. ASSUME NEW x \in S PROVE r[x] = Cardinality(before[x]) /\ r[x] \in T
  <2>1. Cardinality(before[x]) \in Nat /\ Cardinality(before[x]) < n
      BY <1>2, SubsetSize
  <2>. QED BY <1>1, <2>1 DEF Rank
<1>4. ASSUME NEW x \in S, NEW y \in S, x \in before[y] PROVE r[x] < r[y]
  <2>1. before[x] \subseteq before[y] /\ before[x] # before[y]
      BY <1>4 DEF Orderly
  <2>. QED BY <1>2, <1>3, <2>1, SubsetSize
<1>5. \A x, y \in S : x \in before[y] <=> r[x] < r[y]
  <2>1. SUFFICES ASSUME NEW x \in S, NEW y \in S, r[x] < r[y] PROVE x \in before[y]
      BY <1>4
  <2>2. r[x] \in Int /\ r[y] \in Int /\ x # y
      BY <1>1, <1>3, <2>1
  <2>3. CASE y \in before[x]
      BY <1>4, <2>1, <2>2, <2>3
  <2>. QED BY <2>2, <2>3 DEF Orderly
<1>6. ASSUME NEW x \in S, NEW y \in S, r[x] = r[y] PROVE x = y
  <2>1. ~(r[x] < r[y]) /\ ~(r[y] < r[x])
      BY <1>1, <1>3, <1>6
  <2>. QED BY <1>5, <2>1 DEF Orderly
<1>7. r \in Injection(S, T)
  <2>1. r \in [S -> T] /\ DOMAIN r = S
      BY <1>3 DEF Rank
  <2>. QED BY <1>6, <2>1 DEF Injection, IsInjective
<1>8. IsFiniteSet(T) /\ Cardinality(T) = n
    BY <1>1, FS_Interval
<1>9. r \in Surjection(S, T)
    BY <1>7, <1>8, FS_Injection
<1>. QED BY <1>5, <1>7, <1>9 DEF Bijection

\* The first n of S are n, or all of S.
LEMMA FirstRanks ==
    ASSUME NEW S, IsFiniteSet(S), NEW before, Orderly(S, before), NEW n \in Nat,
           NEW F, F = {x \in S : Cardinality(before[x]) < n}
    PROVE  /\ IsFiniteSet(F) /\ Cardinality(F) \in Nat /\ Cardinality(F) <= n
           /\ Cardinality(F) = n \/ F = S
           /\ \A x \in F : before[x] \subseteq F
<1>. DEFINE r == Rank(S, before)
            m == Cardinality(S)
<1>1. m \in Nat
    BY FS_CardinalityType
<1>2. /\ r \in Bijection(S, 0..(m - 1))
      /\ \A x, y \in S : x \in before[y] <=> r[x] < r[y]
    BY RankIsBijection
<1>3. \A x \in S : r[x] = Cardinality(before[x])
    BY DEF Rank
<1>. HIDE DEF r, m
<1>4. /\ r \in [S -> 0..(m - 1)]
      /\ \A x, y \in S : r[x] = r[y] => x = y
      /\ \A i \in 0..(m - 1) : \E x \in S : r[x] = i
    BY <1>2 DEF Bijection, Injection, Surjection, IsInjective
<1>5. F = {x \in S : r[x] < n}
    BY <1>3
<1>6. F \subseteq S /\ IsFiniteSet(F) /\ Cardinality(F) \in Nat
    BY <1>5, SubsetSize
<1>7. CASE m <= n
    <2>1. F = S
        BY <1>1, <1>4, <1>5, <1>7
    <2>. QED BY <1>2, <1>4, <1>6, <1>7, <2>1 DEF m, Orderly
<1>8. CASE n < m
  <2>. DEFINE g == [x \in F |-> r[x]]
  <2>1. g \in [F -> 0..(n - 1)]
      BY <1>1, <1>4, <1>5, <1>8
  <2>2. \A x, y \in F : g[x] = g[y] => x = y
      BY <1>4, <1>6
  <2>3. \A i \in 0..(n - 1) : \E x \in F : g[x] = i
      BY <1>1, <1>4, <1>5, <1>8
  <2>4. g \in Bijection(F, 0..(n - 1))
      BY <2>1, <2>2, <2>3 DEF Bijection, Injection, Surjection, IsInjective
  <2>5. Cardinality(0..(n - 1)) = Cardinality(F)
      BY <1>6, <2>4, FS_Bijection DEF ExistsBijection
  <2>6. Cardinality(0..(n - 1)) = n
      BY FS_Interval
  <2>7. \A x \in F : before[x] \subseteq F
    <3>1. SUFFICES ASSUME NEW x \in F, NEW y \in before[x] PROVE y \in F
        OBVIOUS
    <3>2. x \in S /\ y \in S /\ r[x] < n
        BY <1>5, <3>1 DEF Orderly
    <3>3. r[y] < r[x] /\ r[y] \in Int /\ r[x] \in Int
        BY <1>1, <1>2, <1>4, <3>1, <3>2
    <3>. QED BY <1>5, <3>2, <3>3
  <2>. QED BY <1>6, <2>5, <2>6, <2>7
<1>. QED BY <1>1, <1>7, <1>8

-----------------------------------------------------------------------------
(* Sizes of sets that differ in an element or two.                         *)

LEMMA DisjointSizes ==
    ASSUME NEW A, NEW B, IsFiniteSet(A), IsFiniteSet(B), A \intersect B = {}
    PROVE  /\ IsFiniteSet(A \union B)
           /\ Cardinality(A) \in Nat /\ Cardinality(B) \in Nat
           /\ Cardinality(A \union B) = Cardinality(A) + Cardinality(B)
<1>1. /\ IsFiniteSet(A \union B)
      /\ Cardinality(A \union B) = Cardinality(A) + Cardinality(B) - Cardinality(A \intersect B)
    BY FS_Union
<1>2. Cardinality(A) \in Nat /\ Cardinality(B) \in Nat /\ Cardinality(A \intersect B) = 0
    BY FS_CardinalityType, FS_EmptySet
<1>. QED BY <1>1, <1>2

LEMMA OneMore ==
    ASSUME NEW S, NEW T, IsFiniteSet(T), NEW x, S \subseteq T \union {x}
    PROVE  /\ IsFiniteSet(S) /\ Cardinality(S) \in Nat /\ Cardinality(T) \in Nat
           /\ IsFiniteSet(T \union {x}) /\ Cardinality(T \union {x}) \in Nat
           /\ Cardinality(T \union {x}) <= Cardinality(T) + 1
           /\ Cardinality(S) <= Cardinality(T) + 1
<1>1. /\ IsFiniteSet(T \union {x})
      /\ Cardinality(T \union {x}) = IF x \in T THEN Cardinality(T) ELSE Cardinality(T) + 1
    BY FS_AddElement
<1>2. Cardinality(T) \in Nat /\ Cardinality(T \union {x}) \in Nat
    BY <1>1, FS_CardinalityType
<1>3. IsFiniteSet(S) /\ Cardinality(S) \in Nat /\ Cardinality(S) <= Cardinality(T \union {x})
    BY <1>1, SubsetSize
<1>. QED BY <1>1, <1>2, <1>3

\* At most d apart.
Near(S, T, d) ==
    /\ Cardinality(S) \in Nat /\ Cardinality(T) \in Nat
    /\ Within(d, Cardinality(S), Cardinality(T))

LEMMA NearByOne ==
    ASSUME NEW S, NEW T, IsFiniteSet(S), IsFiniteSet(T), NEW x, S \ {x} = T \ {x}
    PROVE  Near(S, T, 1)
<1>1. S \subseteq T \union {x} /\ T \subseteq S \union {x}
    OBVIOUS
<1>. QED BY <1>1, OneMore DEF Near, Within

LEMMA NearByTwo ==
    ASSUME NEW S, NEW T, IsFiniteSet(S), IsFiniteSet(T), NEW x, NEW y,
           S \ {x, y} = T \ {x, y}
    PROVE  Near(S, T, 2)
<1>1. S \subseteq (T \union {x}) \union {y} /\ T \subseteq (S \union {x}) \union {y}
    OBVIOUS
<1>2. ASSUME NEW A, NEW B, IsFiniteSet(B), A \subseteq (B \union {x}) \union {y}
      PROVE  /\ Cardinality(A) \in Nat /\ Cardinality(B) \in Nat
             /\ Cardinality(A) <= Cardinality(B) + 2
  <2>. DEFINE C == B \union {x}
  <2>1. /\ IsFiniteSet(C) /\ Cardinality(B) \in Nat /\ Cardinality(C) \in Nat
        /\ Cardinality(C) <= Cardinality(B) + 1
      BY <1>2, OneMore
  <2>2. A \subseteq C \union {y}
      BY <1>2
  <2>. HIDE DEF C
  <2>3. Cardinality(A) \in Nat /\ Cardinality(A) <= Cardinality(C) + 1
      BY <2>1, <2>2, OneMore
  <2>. QED BY <2>1, <2>3
<1>. QED BY <1>1, <1>2 DEF Near, Within

-----------------------------------------------------------------------------
(* Types, and the steps by what they touch.                                *)

Tables == [Ids -> Txn \union {None}]

Summary ==
    [pc : {"anchor", "periods", "answered"}, anchor : SUBSET Nat, at : Nat, current : Nat,
     late : Nat]

Network ==
    [pc : {"edges", "total", "answered"}, limit : Nat, at : Nat,
     hubs : UNION {[H -> Nat] : H \in SUBSET Accounts},
     edges : SUBSET (Ids \X Accounts \X Accounts), total : Nat, late : Nat, later : Nat]

Radar == [pc : {"sample", "answered"}, filtered : BOOLEAN, at : Nat, total : Nat,
          points : SUBSET Ids, left : Nat, late : Nat]

Export == [pc : {"streaming", "ended", "destroyed"}, level : Levels \union {None},
           cursor : Ids \union {None}, batches : Seq(SUBSET Ids),
           always : SUBSET Ids, ever : SUBSET Ids, passed : BOOLEAN]

Asked  == [total : Nat \union {None}, rows : Seq(Ids) \union {None}]
Cached == [filtered : BOOLEAN, page : 1..MaxPage, total : Nat, rows : Seq(Ids)]

TableTypes  == txns \in Tables /\ writes \in Nat
AnswerTypes == /\ summary \in Summary \union {None}
               /\ network \in Network \union {None}
               /\ radar \in Radar \union {None}
               /\ export \in Export \union {None}
ListTypes   == /\ filtered \in BOOLEAN /\ page \in 1..MaxPage /\ hasty \in BOOLEAN
               /\ cache \in [Keys -> Cached \union {None}]
               /\ asked \in [Keys -> Asked \union {None}]

Types == TableTypes /\ AnswerTypes /\ ListTypes

\* A write is of one row, and no row changes its accounts.
RowWrite(t, r) ==
    /\ t \in Ids /\ r \in Txn
    /\ txns[t] # None => txns[t].sender = r.sender /\ txns[t].receiver = r.receiver
    /\ Written([txns EXCEPT ![t] = r])

\* A write, or a step of one of the answers that leaves the others alone.
WriteStep   == (\E t \in Ids, r \in Txn : RowWrite(t, r)) /\ UNCHANGED listVars
ReportStep  == AskReport \/ SelectTotals \/ SelectAnchor \/ SelectPeriods
NetworkStep == \/ \E limit \in Nat : AskNetwork(limit)
               \/ SelectEdges \/ CountHubs
ExportStep  == (\E level \in Levels \union {None} : AskExport(level)) \/ ReadBatch \/ FailExport
RadarStep   == AskRadar \/ Sample
KeyStep(k)  == CountRows(k) \/ SelectRows(k) \/ Receive(k)
ListStep    == \/ Ask \/ NextPage \/ PreviousPage \/ SetFilter
               \/ \E v \in {"list", "radar"} : SetView(v)
               \/ \E k \in Keys : KeyStep(k)

LEMMA FiniteSets ==
    ASSUME NEW S, S \subseteq Ids
    PROVE  IsFiniteSet(S) /\ Cardinality(S) \in Nat
BY AnalyticsAssumption, SubsetSize

LEMMA AccountSets ==
    ASSUME NEW S, S \subseteq Accounts
    PROVE  IsFiniteSet(S) /\ Cardinality(S) \in Nat
BY AnalyticsAssumption, SubsetSize

LEMMA WritesAreOfRows ==
    ASSUME Types, Writes
    PROVE  \E t \in Ids, r \in Txn : RowWrite(t, r)
<1>1. txns \in Tables /\ Arrivals \subseteq Txn
    BY AnalyticsAssumption DEF Types, TableTypes
<1>2. PICK t \in Ids : (\E l \in Levels : Score(t, l)) \/ Delete(t) \/ Arrive(t)
    BY DEF Writes
<1>3. ASSUME NEW l \in Levels, Score(t, l) PROVE \E r \in Txn : RowWrite(t, r)
  <2>. DEFINE r == [txns[t] EXCEPT !.level = l]
  <2>1. txns[t] \in Txn
      BY <1>1, <1>3 DEF Score, Live, Tables
  <2>2. r \in Txn /\ txns[t].sender = r.sender /\ txns[t].receiver = r.receiver
      BY <2>1 DEF Txn
  <2>3. Written([txns EXCEPT ![t] = r])
      BY <1>3 DEF Score
  <2>. QED BY <2>2, <2>3 DEF RowWrite
<1>4. ASSUME Delete(t) PROVE \E r \in Txn : RowWrite(t, r)
  <2>. DEFINE r == [txns[t] EXCEPT !.live = FALSE]
  <2>1. txns[t] \in Txn
      BY <1>1, <1>4 DEF Delete, Live, Tables
  <2>2. r \in Txn /\ txns[t].sender = r.sender /\ txns[t].receiver = r.receiver
      BY <2>1 DEF Txn
  <2>3. Written([txns EXCEPT ![t] = r])
      BY <1>4 DEF Delete
  <2>. QED BY <2>2, <2>3 DEF RowWrite
<1>5. ASSUME Arrive(t) PROVE \E r \in Txn : RowWrite(t, r)
    BY <1>1, <1>5 DEF Arrive, RowWrite
<1>. QED BY <1>2, <1>3, <1>4, <1>5

LEMMA Steps ==
    ASSUME Types, [Next]_vars
    PROVE  \/ WriteStep
           \/ ReportStep /\ UNCHANGED <<tableVars, network, radar, export, listVars>>
           \/ NetworkStep /\ UNCHANGED <<tableVars, reportVars, radar, export, listVars>>
           \/ ExportStep /\ UNCHANGED <<tableVars, reportVars, network, radar, listVars>>
           \/ RadarStep /\ UNCHANGED <<tableVars, reportVars, network, export, listVars>>
           \/ ListStep /\ UNCHANGED <<tableVars, reportVars, network, radar, export>>
           \/ UNCHANGED vars
<1>1. CASE AnalyticsNext /\ UNCHANGED listVars
  <2>1. ASSUME NEW limit \in {1, Cardinality(Accounts)}, AskNetwork(limit)
        PROVE  NetworkStep /\ UNCHANGED <<tableVars, reportVars, radar, export>>
    <3>1. limit \in Nat
        BY AccountSets
    <3>. QED BY <2>1, <3>1 DEF NetworkStep, AskNetwork
  <2>2. CASE SelectEdges \/ CountHubs
      BY <1>1, <2>2 DEF NetworkStep, SelectEdges, CountHubs
  <2>3. ASSUME NEW level \in {None, "CRITICAL"}, AskExport(level)
        PROVE  ExportStep /\ UNCHANGED <<tableVars, reportVars, network, radar>>
    <3>1. level \in Levels \union {None}
        BY DEF Levels
    <3>. QED BY <2>3, <3>1 DEF ExportStep, AskExport
  <2>4. CASE ReadBatch \/ FailExport
      BY <1>1, <2>4 DEF ExportStep, ReadBatch, FailExport
  <2>5. CASE Writes
      BY <1>1, <2>5, WritesAreOfRows DEF WriteStep
  <2>6. CASE AskReport \/ SelectTotals \/ SelectAnchor \/ SelectPeriods
      BY <1>1, <2>6 DEF ReportStep, AskReport, SelectTotals, SelectAnchor, SelectPeriods
  <2>. QED BY <1>1, <2>1, <2>2, <2>3, <2>4, <2>5, <2>6 DEF AnalyticsNext
<1>2. CASE Ask \/ NextPage \/ PreviousPage \/ SetFilter
    BY <1>2 DEF ListStep, Ask, NextPage, PreviousPage, SetFilter, GoTo, analyticsVars, tableVars
<1>3. ASSUME NEW v \in {"list", "radar"}, SetView(v)
      PROVE  ListStep /\ UNCHANGED <<tableVars, reportVars, network, radar, export>>
    BY <1>3 DEF ListStep, SetView, analyticsVars, tableVars
<1>4. ASSUME NEW k \in Keys, KeyStep(k)
      PROVE  ListStep /\ UNCHANGED <<tableVars, reportVars, network, radar, export>>
    BY <1>4 DEF ListStep, KeyStep, CountRows, SelectRows, Receive, analyticsVars, tableVars
<1>5. CASE AskRadar \/ Sample
    BY <1>5 DEF RadarStep, AskRadar, Sample, listVars
<1>. QED BY <1>1, <1>2, <1>3, <1>4, <1>5 DEF Next, KeyStep

\* What a write changes.
LEMMA WriteFacts ==
    ASSUME Types, NEW t, NEW r, RowWrite(t, r)
    PROVE  /\ txns' \in Tables /\ t \in Ids /\ r \in Txn
           /\ \A u \in Ids \ {t} : txns'[u] = txns[u]
           /\ txns'[t] = r
           /\ txns[t] # None => txns[t].sender = r.sender /\ txns[t].receiver = r.receiver
           /\ writes' = writes + 1 /\ writes \in Nat /\ writes' \in Nat /\ writes' > 0
           /\ UNCHANGED <<reportVars, network, radar>>
BY DEF RowWrite, Written, Types, TableTypes, Tables

\* The tables stay tables, and writes are counted.
LEMMA TablesStay ==
    ASSUME Types, [Next]_vars
    PROVE  /\ TableTypes'
           /\ UNCHANGED tableVars \/ writes' > 0
<1>1. CASE WriteStep
  <2>1. PICK t, r : RowWrite(t, r)
      BY <1>1 DEF WriteStep
  <2>. QED BY <2>1, WriteFacts DEF TableTypes
<1>2. CASE UNCHANGED tableVars
    BY <1>2 DEF Types, TableTypes, tableVars
<1>. QED BY <1>1, <1>2, Steps DEF vars, analyticsVars

\* The transactions of a report depend on the tables only.
LEMMA SameRows ==
    ASSUME UNCHANGED tableVars
    PROVE  /\ Live' = Live /\ Scored' = Scored
           /\ \A f : Matching(f)' = Matching(f) /\ Plotted(f)' = Plotted(f)
           /\ Flagged' = Flagged /\ \A a : degree(a)' = degree(a)
BY DEF tableVars, Live, Scored, Matching, Plotted, OfLevel, Flagged, degree

LEMMA RowTypes ==
    /\ Live \subseteq Ids /\ Scored \subseteq Live /\ Flagged \subseteq Live
    /\ \A f : Matching(f) \subseteq Live /\ Plotted(f) \subseteq Matching(f)
    /\ \A f : Plotted(f) = Matching(f) \intersect Scored
BY DEF Live, Scored, Matching, Plotted, Flagged, OfLevel

\* The rows of every selection stay, but for the one written.
LEMMA OneRowMoves ==
    ASSUME Types, NEW t, NEW r, RowWrite(t, r)
    PROVE  /\ Live' \ {t} = Live \ {t} /\ Scored' \ {t} = Scored \ {t}
           /\ \A l : OfLevel(l)' \ {t} = OfLevel(l) \ {t}
           /\ Flagged' \ {t} = Flagged \ {t}
           /\ \A f : Plotted(f)' \ {t} = Plotted(f) \ {t}
           /\ Live' \subseteq Ids /\ Scored' \subseteq Ids /\ Flagged' \subseteq Ids
           /\ \A l : OfLevel(l)' \subseteq Ids
           /\ \A f : Plotted(f)' \subseteq Ids
<1>1. \A u \in Ids \ {t} : txns'[u] = txns[u]
    BY WriteFacts
<1>2. Live' \ {t} = Live \ {t} /\ Live' \subseteq Ids
    BY <1>1 DEF Live
<1>3. Scored' \ {t} = Scored \ {t} /\ Scored' \subseteq Live'
    BY <1>1, <1>2 DEF Scored
<1>4. ASSUME NEW l PROVE OfLevel(l)' \ {t} = OfLevel(l) \ {t} /\ OfLevel(l)' \subseteq Live'
    BY <1>1, <1>2 DEF OfLevel
<1>5. Flagged' \ {t} = Flagged \ {t} /\ Flagged' \subseteq Live'
    BY <1>4 DEF Flagged
<1>6. ASSUME NEW f PROVE Plotted(f)' \ {t} = Plotted(f) \ {t} /\ Plotted(f)' \subseteq Live'
    BY <1>2, <1>3 DEF Plotted, Matching
<1>. QED BY <1>2, <1>3, <1>4, <1>5, <1>6

-----------------------------------------------------------------------------
(* The radar.                                                              *)

\* As many were counted as there are, but for as much as was written since; and
\* what was left out of a sample that the count does not tell of.
RadarTrue ==
    radar # None =>
        /\ radar.at <= writes
        /\ radar.pc = "sample" =>
              Cardinality(Plotted(radar.filtered)) <= radar.total + (writes - radar.at)
        /\ radar.pc = "answered" /\ ~Sampled => radar.left <= radar.late

LEMMA RadarStays ==
    ASSUME Types, RadarTrue, [Next]_vars
    PROVE  (radar \in Radar \union {None})' /\ RadarTrue'
<1>1. radar \in Radar \union {None} /\ filtered \in BOOLEAN /\ writes \in Nat
    BY DEF Types, TableTypes, AnswerTypes, ListTypes
<1>2. CASE WriteStep
  <2>1. PICK t, r : RowWrite(t, r)
      BY <1>2 DEF WriteStep
  <2>2. radar' = radar /\ writes' = writes + 1
      BY <2>1, WriteFacts
  <2>3. ASSUME radar # None
        PROVE  /\ Cardinality(Plotted(radar.filtered)) \in Nat
               /\ Cardinality(Plotted(radar.filtered)') \in Nat
               /\ Cardinality(Plotted(radar.filtered)')
                     <= Cardinality(Plotted(radar.filtered)) + 1
    <3>. DEFINE S == Plotted(radar.filtered)
                T == Plotted(radar.filtered)'
    <3>1. T \ {t} = S \ {t} /\ T \subseteq Ids /\ S \subseteq Ids
        BY <2>1, <2>2, OneRowMoves, RowTypes
    <3>. HIDE DEF S, T
    <3>2. Near(T, S, 1)
        BY <3>1, FiniteSets, NearByOne
    <3>. QED BY <3>2 DEF Near, Within, S, T
  <2>4. Sampled' <=> Sampled
      BY <2>2 DEF Sampled
  <2>5. radar # None => radar.at \in Nat /\ radar.total \in Nat
      BY <1>1 DEF Radar
  <2>. QED BY <1>1, <2>2, <2>3, <2>4, <2>5 DEF RadarTrue
<1>3. CASE AskRadar /\ UNCHANGED tableVars
  <2>1. Cardinality(Plotted(filtered)) \in Nat
      BY RowTypes, FiniteSets
  <2>2. /\ radar' \in Radar /\ radar'.pc = "sample" /\ radar'.filtered = filtered
        /\ radar'.total = Cardinality(Plotted(filtered)) /\ radar'.at = writes
      BY <1>1, <1>3, <2>1 DEF AskRadar, Radar
  <2>3. writes' = writes /\ Plotted(filtered)' = Plotted(filtered) /\ filtered' = filtered
      BY <1>3, SameRows DEF tableVars, AskRadar, listVars
  <2>. QED BY <1>1, <2>1, <2>2, <2>3, SameRows, <1>3 DEF RadarTrue
<1>4. CASE Sample /\ UNCHANGED tableVars
  <2>. DEFINE P == Plotted(radar.filtered)
  <2>1. PICK points \in SUBSET P :
            radar' = [radar EXCEPT !.pc = "answered", !.points = points,
                          !.left = Cardinality(P \ points), !.late = writes - radar.at]
      BY <1>4 DEF Sample
  <2>2. radar \in Radar /\ points \in SUBSET Ids /\ P \subseteq Ids /\ radar.pc = "sample" /\ radar # None
      BY <1>1, <1>4, RowTypes DEF Sample
  <2>3. /\ radar.at \in Nat /\ radar.at <= writes /\ writes - radar.at \in Nat
        /\ Cardinality(P) <= radar.total + (writes - radar.at) /\ radar.total \in Nat
      BY <1>1, <2>2 DEF RadarTrue, Radar
  <2>. HIDE DEF P
  <2>4. /\ Cardinality(P \ points) \in Nat /\ Cardinality(points) \in Nat
        /\ Cardinality(P) = Cardinality(points) + Cardinality(P \ points)
    <3>1. IsFiniteSet(points) /\ IsFiniteSet(P \ points) /\ P = points \union (P \ points)
        BY <2>2, FiniteSets
    <3>. QED BY <3>1, DisjointSizes
  <2>5. /\ radar' \in Radar /\ radar'.pc = "answered" /\ radar'.at = radar.at
        /\ radar'.total = radar.total /\ radar'.points = points
        /\ radar'.left = Cardinality(P \ points) /\ radar'.late = writes - radar.at
      BY <2>1, <2>2, <2>3, <2>4 DEF Radar
  <2>6. writes' = writes
      BY <1>4 DEF tableVars
  <2>7. ~Sampled' => radar'.left <= radar'.late
    <3>1. ~Sampled' => radar.total <= Cardinality(points)
        BY <2>2, <2>3, <2>4, <2>5 DEF Sampled
    <3>. QED BY <1>1, <2>3, <2>4, <2>5, <3>1
  <2>. QED BY <2>3, <2>5, <2>6, <2>7 DEF RadarTrue
<1>5. CASE UNCHANGED <<tableVars, radar>>
    BY <1>1, <1>5, SameRows DEF RadarTrue, tableVars, Sampled
<1>. QED BY <1>2, <1>3, <1>4, <1>5, Steps DEF RadarStep, vars, analyticsVars

LEMMA RadarTells ==
    ASSUME RadarTrue
    PROVE  SampleIsMarked
BY DEF RadarTrue, SampleIsMarked

-----------------------------------------------------------------------------
(* The export.                                                             *)

\* The rows a batch takes: as many as it may, and no later one before an earlier.
LEMMA FirstOfIds ==
    ASSUME NEW S, S \subseteq Ids, NEW n \in Nat
    PROVE  /\ First(n, S) \subseteq S /\ IsFiniteSet(First(n, S))
           /\ Cardinality(First(n, S)) \in Nat /\ Cardinality(First(n, S)) <= n
           /\ Cardinality(First(n, S)) = n \/ First(n, S) = S
           /\ \A t \in First(n, S), u \in S : IdOf[u] <= IdOf[t] => u \in First(n, S)
<1>. DEFINE before == [t \in S |-> {u \in S : IdOf[u] < IdOf[t]}]
            F == {t \in S : Cardinality(before[t]) < n}
<1>1. IsFiniteSet(S) /\ \A t \in S : IdOf[t] \in Nat
    BY FiniteSets, AnalyticsAssumption
<1>2. \A t, u \in S : t # u => IdOf[t] # IdOf[u]
    BY AnalyticsAssumption
<1>3. Orderly(S, before)
    BY <1>1, <1>2 DEF Orderly
<1>4. F = First(n, S)
    BY DEF First
<1>5. /\ IsFiniteSet(F) /\ Cardinality(F) \in Nat /\ Cardinality(F) <= n
      /\ Cardinality(F) = n \/ F = S
      /\ \A t \in F : before[t] \subseteq F
  <2>1. F = {t \in S : Cardinality(before[t]) < n}
      OBVIOUS
  <2>. HIDE DEF F, before
  <2>. QED BY <1>1, <1>3, <2>1, FirstRanks
<1>6. ASSUME NEW t \in F, NEW u \in S, IdOf[u] <= IdOf[t] PROVE u \in F
  <2>1. t \in S /\ before[t] \subseteq F
      BY <1>5
  <2>2. u = t \/ IdOf[u] < IdOf[t]
      BY <1>1, <1>2, <1>6, <2>1
  <2>3. IdOf[u] < IdOf[t] => u \in before[t]
      BY <2>1
  <2>. QED BY <2>1, <2>2, <2>3
<1>. QED BY <1>4, <1>5, <1>6

\* The first row alone is the earliest.
LEMMA FirstIsEarliest ==
    ASSUME NEW S, S \subseteq Ids, NEW t \in S, \A u \in S : IdOf[t] <= IdOf[u]
    PROVE  First(1, S) = {t}
<1>1. \A u \in Ids : IdOf[u] \in Nat
    BY AnalyticsAssumption
<1>2. t \in First(1, S)
  <2>1. {u \in S : IdOf[u] < IdOf[t]} = {}
      BY <1>1
  <2>. QED BY <2>1, FS_EmptySet DEF First
<1>3. ASSUME NEW u \in First(1, S) PROVE u = t
  <2>1. u \in S /\ Cardinality({v \in S : IdOf[v] < IdOf[u]}) < 1
      BY <1>3 DEF First
  <2>. DEFINE B == {v \in S : IdOf[v] < IdOf[u]}
  <2>2. IsFiniteSet(B) /\ Cardinality(B) \in Nat
      BY FiniteSets
  <2>. HIDE DEF B
  <2>3. Cardinality(B) = 0
      BY <2>1, <2>2 DEF B
  <2>4. B = {}
      BY <2>2, <2>3, FS_EmptySet
  <2>5. ~(IdOf[t] < IdOf[u])
      BY <2>4 DEF B
  <2>6. IdOf[t] = IdOf[u]
      BY <1>1, <2>1, <2>5
  <2>. QED BY <2>1, <2>6, AnalyticsAssumption
<1>. QED BY <1>2, <1>3

LEMMA WhereIsIds == \A level, table : Where(level, table) \subseteq Ids
BY DEF Where

\* What is left to read comes after the cursor: all of it, if the row at the
\* cursor still matches.
LEMMA RestIsAhead ==
    ASSUME NEW e, e \in Export
    PROVE  /\ Rest(e) \subseteq Where(e.level, txns)
           /\ e.cursor = None => Rest(e) = Where(e.level, txns)
           /\ e.cursor # None => \A t \in Rest(e) : IdOf[e.cursor] < IdOf[t]
           /\ e.cursor \in Where(e.level, txns) =>
                 \A t \in Where(e.level, txns) : IdOf[e.cursor] < IdOf[t] => t \in Rest(e)
<1>. DEFINE matching == Where(e.level, txns)
            from == {t \in matching : IdOf[t] >= IdOf[e.cursor]}
<1>1. \A u \in Ids : IdOf[u] \in Nat
    BY AnalyticsAssumption
<1>2. matching \subseteq Ids /\ from \subseteq Ids /\ e.cursor \in Ids \union {None}
    BY WhereIsIds DEF Export
<1>3. CASE e.cursor = None
  <2>1. Rest(e) = matching
      BY <1>3 DEF Rest
  <2>2. e.cursor \notin matching
      BY <1>2, <1>3, AnalyticsAssumption
  <2>. QED BY <1>3, <2>1, <2>2
<1>4. CASE e.cursor # None
  <2>1. Rest(e) = from \ First(1, from)
      BY <1>4 DEF Rest
  <2>. HIDE DEF matching
  <2>2. ASSUME e.cursor \in matching PROVE First(1, from) = {e.cursor}
    <3>1. e.cursor \in from /\ \A u \in from : IdOf[e.cursor] <= IdOf[u]
        BY <1>1, <1>2, <2>2
    <3>. QED BY <1>2, <3>1, FirstIsEarliest
  <2>3. ASSUME NEW t \in Rest(e) PROVE IdOf[e.cursor] < IdOf[t]
    <3>1. t \in matching /\ t \in Ids /\ IdOf[t] >= IdOf[e.cursor] /\ t \notin First(1, from)
        BY <1>2, <2>1, <2>3
    <3>2. t # e.cursor
        BY <2>2, <3>1
    <3>3. IdOf[t] # IdOf[e.cursor]
        BY <1>2, <1>4, <3>1, <3>2, AnalyticsAssumption
    <3>. QED BY <1>1, <1>2, <1>4, <3>1, <3>3
  <2>4. ASSUME e.cursor \in matching, NEW t \in matching, IdOf[e.cursor] < IdOf[t]
        PROVE  t \in Rest(e)
    <3>1. t \in from /\ t # e.cursor
        BY <1>1, <1>2, <2>4
    <3>. QED BY <2>1, <2>2, <2>4, <3>1
  <2>. QED BY <1>4, <2>1, <2>3, <2>4 DEF matching
<1>. QED BY <1>3, <1>4

Read(e) == UNION Range(e.batches)

\* The batches read are apart and of rows that matched; nothing that matched all
\* along was passed over, up to the cursor, unless the cursor's own row was lost.
Whole(e, matching) ==
    /\ \A m, n \in DOMAIN e.batches : m # n => e.batches[m] \intersect e.batches[n] = {}
    /\ Read(e) \subseteq e.ever
    /\ e.always \subseteq matching /\ matching \subseteq e.ever
    /\ e.cursor = None => Read(e) = {}
    /\ e.cursor # None => \A t \in Read(e) : IdOf[t] <= IdOf[e.cursor]
    /\ ~e.passed /\ e.cursor # None =>
          \A t \in e.always : IdOf[t] <= IdOf[e.cursor] => t \in Read(e)
    /\ ~e.passed /\ e.pc = "ended" => e.always \subseteq Read(e)

ExportTrue == export # None => Whole(export, Where(export.level, txns))

LEMMA ReadOfSeq ==
    ASSUME NEW e, e.batches \in Seq(SUBSET Ids)
    PROVE  /\ Read(e) \subseteq Ids
           /\ \A m \in DOMAIN e.batches : e.batches[m] \subseteq Read(e)
           /\ \A t \in Read(e) : \E m \in DOMAIN e.batches : t \in e.batches[m]
<1>1. \A m \in DOMAIN e.batches : e.batches[m] \subseteq Ids
    OBVIOUS
<1>. QED BY <1>1 DEF Read, Range

LEMMA AskedExport ==
    ASSUME NEW level \in Levels \union {None}, AskExport(level)
    PROVE  (export \in Export)' /\ ExportTrue'
<1>. DEFINE W == Where(level, txns)
<1>1. W \subseteq Ids
    BY WhereIsIds
<1>. HIDE DEF W
<1>2. export' = [pc |-> "streaming", level |-> level, cursor |-> None, batches |-> <<>>,
                 always |-> W, ever |-> W, passed |-> FALSE]
    BY DEF AskExport, W
<1>3. export' \in Export
    BY <1>1, <1>2 DEF Export
<1>4. UNCHANGED txns
    BY DEF AskExport, tableVars
<1>5. Read(export') = {} /\ DOMAIN export'.batches = {}
    BY <1>2 DEF Read, Range
<1>6. Whole(export', W)
    BY <1>2, <1>5 DEF Whole
<1>7. Where(export'.level, txns') = W
    BY <1>2, <1>4 DEF W
<1>. QED BY <1>3, <1>6, <1>7 DEF ExportTrue

LEMMA AppendFacts ==
    ASSUME NEW T, NEW s \in Seq(T), NEW x \in T
    PROVE  /\ DOMAIN s = 1..Len(s) /\ Len(s) \in Nat
           /\ Append(s, x) \in Seq(T)
           /\ DOMAIN Append(s, x) = 1..(Len(s) + 1)
           /\ \A m \in DOMAIN s : Append(s, x)[m] = s[m]
           /\ Append(s, x)[Len(s) + 1] = x
OBVIOUS

\* What a batch adds to what has been read.
LEMMA BatchRead ==
    ASSUME NEW e, NEW f, NEW batch, e.batches \in Seq(SUBSET Ids), batch \subseteq Ids,
           f.batches = IF batch = {} THEN e.batches ELSE Append(e.batches, batch),
           batch \intersect Read(e) = {},
           \A m, n \in DOMAIN e.batches : m # n => e.batches[m] \intersect e.batches[n] = {}
    PROVE  /\ f.batches \in Seq(SUBSET Ids)
           /\ Read(f) = Read(e) \union batch
           /\ \A m, n \in DOMAIN f.batches : m # n => f.batches[m] \intersect f.batches[n] = {}
<1>1. CASE batch = {}
    BY <1>1 DEF Read
<1>2. CASE batch # {}
  <2>. DEFINE b == e.batches
  <2>1. f.batches = Append(b, batch) /\ b \in Seq(SUBSET Ids)
      BY <1>2
  <2>. HIDE DEF b
  <2>2. /\ DOMAIN b = 1..Len(b) /\ Len(b) \in Nat
        /\ DOMAIN f.batches = 1..(Len(b) + 1)
        /\ \A m \in DOMAIN b : f.batches[m] = b[m]
        /\ f.batches[Len(b) + 1] = batch /\ f.batches \in Seq(SUBSET Ids)
    <3>. DEFINE T == SUBSET Ids
    <3>1. batch \in T /\ b \in Seq(T)
        BY <2>1
    <3>. HIDE DEF T
    <3>2. /\ DOMAIN b = 1..Len(b) /\ Len(b) \in Nat
          /\ Append(b, batch) \in Seq(T)
          /\ DOMAIN Append(b, batch) = 1..(Len(b) + 1)
          /\ \A m \in DOMAIN b : Append(b, batch)[m] = b[m]
          /\ Append(b, batch)[Len(b) + 1] = batch
        BY <3>1, AppendFacts
    <3>. QED BY <2>1, <3>2, Zenon DEF T
  <2>3. DOMAIN f.batches = DOMAIN b \union {Len(b) + 1} /\ Len(b) + 1 \notin DOMAIN b
      BY <2>2
  <2>4. Read(f) = UNION {f.batches[m] : m \in DOMAIN f.batches}
        /\ Read(e) = UNION {b[m] : m \in DOMAIN b}
      BY DEF Read, Range, b
  <2>5. Read(f) = Read(e) \union batch
      BY <2>2, <2>3, <2>4
  <2>6. \A m \in DOMAIN b : b[m] \subseteq Read(e)
      BY <2>4
  <2>7. \A m, n \in DOMAIN b : m # n => b[m] \intersect b[n] = {}
      BY DEF b
  <2>8. ASSUME NEW m \in DOMAIN f.batches, NEW n \in DOMAIN f.batches, m # n
        PROVE  f.batches[m] \intersect f.batches[n] = {}
    <3>1. CASE m \in DOMAIN b /\ n \in DOMAIN b
        BY <2>2, <2>7, <2>8, <3>1
    <3>2. CASE m \in DOMAIN b /\ n = Len(b) + 1
        BY <2>2, <2>6, <3>2
    <3>3. CASE n \in DOMAIN b /\ m = Len(b) + 1
        BY <2>2, <2>6, <3>3
    <3>. QED BY <2>3, <2>8, <3>1, <3>2, <3>3
  <2>. QED BY <2>2, <2>5, <2>8
<1>. QED BY <1>1, <1>2

\* The next batch: where it starts, how far it goes, and what is left after it.
LEMMA NextBatch ==
    ASSUME NEW e, e \in Export, NEW batch, batch = First(ExportBatch, Rest(e))
    PROVE  /\ batch \subseteq Rest(e) /\ batch \subseteq Ids
           /\ batch = {} => Rest(e) = {}
           /\ Cardinality(batch) < ExportBatch => batch = Rest(e)
           /\ \A t \in batch, u \in Rest(e) : IdOf[u] <= IdOf[t] => u \in batch
           /\ batch # {} => \E t \in batch : \A u \in batch : IdOf[u] <= IdOf[t]
<1>1. ExportBatch \in Nat \ {0} /\ \A u \in Ids : IdOf[u] \in Nat
    BY AnalyticsAssumption
<1>2. Rest(e) \subseteq Ids
    BY RestIsAhead, WhereIsIds
<1>3. /\ batch \subseteq Rest(e) /\ IsFiniteSet(batch)
      /\ Cardinality(batch) \in Nat /\ Cardinality(batch) <= ExportBatch
      /\ Cardinality(batch) = ExportBatch \/ batch = Rest(e)
      /\ \A t \in batch, u \in Rest(e) : IdOf[u] <= IdOf[t] => u \in batch
    BY <1>1, <1>2, FirstOfIds
<1>4. batch = {} => Cardinality(batch) = 0
    BY FS_EmptySet
<1>5. ASSUME batch # {} PROVE \E t \in batch : \A u \in batch : IdOf[u] <= IdOf[t]
  <2>. DEFINE before == [t \in batch |-> {u \in batch : IdOf[t] < IdOf[u]}]
              n == Cardinality(batch)
  <2>1. batch \subseteq Ids /\ \A t, u \in batch : t # u => IdOf[t] # IdOf[u]
      BY <1>2, <1>3, AnalyticsAssumption
  <2>2. Orderly(batch, before)
      BY <1>1, <2>1 DEF Orderly
  <2>3. Rank(batch, before) \in Bijection(batch, 0..(n - 1))
      BY <1>3, <2>2, RankIsBijection
  <2>4. n # 0
      BY <1>3, <1>5, FS_EmptySet
  <2>5. 0 \in 0..(n - 1)
      BY <1>3, <2>4
  <2>6. PICK t \in batch : Rank(batch, before)[t] = 0
      BY <2>3, <2>5 DEF Bijection, Surjection
  <2>7. Cardinality({u \in batch : IdOf[t] < IdOf[u]}) = 0
      BY <2>6 DEF Rank
  <2>8. {u \in batch : IdOf[t] < IdOf[u]} = {}
    <3>. DEFINE B == {u \in batch : IdOf[t] < IdOf[u]}
    <3>1. IsFiniteSet(B) /\ Cardinality(B) = 0
        BY <2>1, <2>7, FiniteSets
    <3>. HIDE DEF B
    <3>2. B = {}
        BY <3>1, FS_EmptySet
    <3>. QED BY <3>2 DEF B
  <2>. QED BY <1>1, <2>1, <2>8
<1>. QED BY <1>1, <1>2, <1>3, <1>4, <1>5

\* The batch, and what the response is after it.
Batch(e)   == First(ExportBatch, Rest(e))
Cursor(e)  == IF Batch(e) = {} THEN e.cursor
              ELSE CHOOSE t \in Batch(e) : \A u \in Batch(e) : IdOf[u] <= IdOf[t]
Passed(e)  == e.passed \/ e.cursor \notin Where(e.level, txns) \union {None}
After(e, f) ==
    /\ f \in Export
    /\ f.pc = IF Cardinality(Batch(e)) < ExportBatch THEN "ended" ELSE e.pc
    /\ f.batches = IF Batch(e) = {} THEN e.batches ELSE Append(e.batches, Batch(e))
    /\ f.cursor = Cursor(e) /\ f.passed = Passed(e)
    /\ f.level = e.level /\ f.always = e.always /\ f.ever = e.ever

LEMMA CursorIsLast ==
    ASSUME NEW e, e \in Export, Batch(e) # {}
    PROVE  Cursor(e) \in Batch(e) /\ \A u \in Batch(e) : IdOf[u] <= IdOf[Cursor(e)]
<1>. DEFINE Q(t) == \A u \in Batch(e) : IdOf[u] <= IdOf[t]
<1>1. \E t \in Batch(e) : Q(t)
    BY NextBatch DEF Batch
<1>2. Cursor(e) = CHOOSE t \in Batch(e) : Q(t)
    BY DEF Cursor
<1>. HIDE DEF Q
<1>3. Cursor(e) \in Batch(e) /\ Q(Cursor(e))
    BY <1>1, <1>2
<1>. QED BY <1>3 DEF Q

LEMMA ReadBatchAfter ==
    ASSUME export \in Export, ReadBatch
    PROVE  After(export, export') /\ export.pc = "streaming" /\ UNCHANGED txns
<1>. DEFINE e == export
<1>1. export' = [e EXCEPT
             !.pc = IF Cardinality(Batch(e)) < ExportBatch THEN "ended" ELSE @,
             !.batches = IF Batch(e) = {} THEN @ ELSE Append(@, Batch(e)),
             !.cursor = Cursor(e), !.passed = Passed(e)]
    BY DEF ReadBatch, Batch, Cursor, Passed
<1>2. e.pc = "streaming" /\ UNCHANGED txns
    BY DEF ReadBatch, tableVars
<1>3. /\ Batch(e) \in SUBSET Ids
      /\ Cursor(e) \in Ids \union {None} /\ Passed(e) \in BOOLEAN
  <2>1. Batch(e) \subseteq Ids
      BY NextBatch DEF Batch
  <2>2. Cursor(e) \in Ids \union {None}
    <3>1. CASE Batch(e) = {}
        BY <3>1 DEF Cursor, Export
    <3>2. CASE Batch(e) # {}
        BY <2>1, <3>2, CursorIsLast
    <3>. QED BY <3>1, <3>2
  <2>. QED BY <2>1, <2>2 DEF Passed, Export
<1>4. (IF Batch(e) = {} THEN e.batches ELSE Append(e.batches, Batch(e))) \in Seq(SUBSET Ids)
  <2>1. e.batches \in Seq(SUBSET Ids)
      BY DEF Export
  <2>. QED BY <1>3, <2>1, AppendFacts
<1>. DEFINE p == IF Cardinality(Batch(e)) < ExportBatch THEN "ended" ELSE e.pc
            b == IF Batch(e) = {} THEN e.batches ELSE Append(e.batches, Batch(e))
            c == Cursor(e)
            d == Passed(e)
<1>5. export' = [e EXCEPT !.pc = p, !.batches = b, !.cursor = c, !.passed = d]
    BY <1>1
<1>6. p \in {"streaming", "ended", "destroyed"} /\ b \in Seq(SUBSET Ids)
      /\ c \in Ids \union {None} /\ d \in BOOLEAN
    BY <1>2, <1>3, <1>4
<1>. HIDE DEF p, b, c, d
<1>7. /\ export' \in Export /\ export'.pc = p /\ export'.batches = b
      /\ export'.cursor = c /\ export'.passed = d
      /\ export'.level = e.level /\ export'.always = e.always /\ export'.ever = e.ever
    BY <1>5, <1>6 DEF Export
<1>. QED BY <1>2, <1>7 DEF After, p, b, c, d

LEMMA BatchKeepsWhole ==
    ASSUME NEW e, e \in Export, e.pc = "streaming", NEW f, After(e, f),
           Whole(e, Where(e.level, txns))
    PROVE  Whole(f, Where(f.level, txns))
<1>. DEFINE M == Where(e.level, txns)
            B == Batch(e)
            R == Rest(e)
<1>1. /\ \A u \in Ids : IdOf[u] \in Nat
      /\ \A t, u \in Ids : IdOf[t] = IdOf[u] => t = u
      /\ None \notin Ids
    BY AnalyticsAssumption
<1>2. /\ M \subseteq Ids /\ R \subseteq M /\ e.cursor \in Ids \union {None}
      /\ e.always \subseteq M /\ M \subseteq e.ever /\ e.batches \in Seq(SUBSET Ids)
      /\ Read(e) \subseteq Ids
    BY WhereIsIds, RestIsAhead, ReadOfSeq DEF Whole, Export
<1>3. /\ B \subseteq R
      /\ B = {} => R = {}
      /\ Cardinality(B) < ExportBatch => B = R
      /\ \A t \in B, u \in R : IdOf[u] <= IdOf[t] => u \in B
    BY NextBatch DEF Batch
<1>4. /\ e.cursor = None => R = M
      /\ e.cursor # None => \A t \in R : IdOf[e.cursor] < IdOf[t]
      /\ e.cursor \in M => \A t \in M : IdOf[e.cursor] < IdOf[t] => t \in R
    BY RestIsAhead
<1>5. /\ f.batches = IF B = {} THEN e.batches ELSE Append(e.batches, B)
      /\ f.pc = (IF Cardinality(B) < ExportBatch THEN "ended" ELSE e.pc)
      /\ f.cursor = Cursor(e) /\ f.passed = Passed(e)
      /\ f.level = e.level /\ f.always = e.always /\ f.ever = e.ever
    BY DEF After
<1>6. /\ B = {} => Cursor(e) = e.cursor
      /\ B # {} => Cursor(e) \in B /\ \A u \in B : IdOf[u] <= IdOf[Cursor(e)]
    BY CursorIsLast DEF Cursor
<1>7. /\ e.cursor = None => Read(e) = {}
      /\ e.cursor # None => \A t \in Read(e) : IdOf[t] <= IdOf[e.cursor]
      /\ ~e.passed /\ e.cursor # None =>
            \A t \in e.always : IdOf[t] <= IdOf[e.cursor] => t \in Read(e)
      /\ Read(e) \subseteq e.ever
      /\ \A m, n \in DOMAIN e.batches : m # n => e.batches[m] \intersect e.batches[n] = {}
    BY DEF Whole
<1>8. ~Passed(e) => ~e.passed /\ e.cursor \in M \union {None}
    BY DEF Passed
<1>. HIDE DEF M, B, R
<1>9. B \intersect Read(e) = {}
  <2>1. SUFFICES ASSUME NEW t \in B, t \in Read(e) PROVE FALSE
      OBVIOUS
  <2>2. e.cursor # None /\ t \in R /\ t \in Ids
      BY <1>2, <1>3, <1>7, <2>1
  <2>3. IdOf[e.cursor] < IdOf[t] /\ IdOf[t] <= IdOf[e.cursor]
      BY <1>4, <1>7, <2>1, <2>2
  <2>. QED BY <1>1, <1>2, <2>2, <2>3
<1>10. /\ Read(f) = Read(e) \union B
       /\ \A m, n \in DOMAIN f.batches : m # n => f.batches[m] \intersect f.batches[n] = {}
  <2>1. B \subseteq Ids
      BY <1>2, <1>3
  <2>2. /\ e.batches \in Seq(SUBSET Ids)
        /\ f.batches = IF B = {} THEN e.batches ELSE Append(e.batches, B)
        /\ \A m, n \in DOMAIN e.batches : m # n => e.batches[m] \intersect e.batches[n] = {}
      BY <1>2, <1>5, <1>7, Zenon
  <2>. QED BY <1>9, <2>1, <2>2, BatchRead, Zenon
<1>11. ASSUME f.cursor # None, NEW t \in Read(f) PROVE IdOf[t] <= IdOf[f.cursor]
  <2>1. CASE B = {}
      BY <1>5, <1>6, <1>7, <1>10, <1>11, <2>1
  <2>2. CASE B # {} /\ t \in B
      BY <1>5, <1>6, <2>2
  <2>3. CASE B # {} /\ t \in Read(e)
    <3>1. e.cursor # None /\ f.cursor \in R /\ t \in Ids /\ f.cursor \in Ids
        BY <1>2, <1>3, <1>5, <1>6, <1>7, <2>3
    <3>2. IdOf[t] <= IdOf[e.cursor] /\ IdOf[e.cursor] < IdOf[f.cursor]
        BY <1>4, <1>7, <2>3, <3>1
    <3>. QED BY <1>1, <1>2, <3>1, <3>2
  <2>. QED BY <1>10, <1>11, <2>1, <2>2, <2>3
<1>12. ASSUME ~f.passed, NEW t \in e.always PROVE t \in R \/ t \in Read(e)
  <2>1. ~e.passed /\ e.cursor \in M \union {None} /\ t \in M /\ t \in Ids
      BY <1>2, <1>5, <1>8, <1>12
  <2>2. CASE e.cursor = None
      BY <1>4, <2>1, <2>2
  <2>3. CASE e.cursor # None
    <3>1. e.cursor \in M /\ e.cursor \in Ids
        BY <1>2, <2>1, <2>3
    <3>2. IdOf[t] <= IdOf[e.cursor] \/ IdOf[e.cursor] < IdOf[t]
        BY <1>1, <2>1, <3>1
    <3>. QED BY <1>4, <1>7, <1>12, <2>1, <2>3, <3>1, <3>2
  <2>. QED BY <2>2, <2>3
<1>13. ASSUME ~f.passed, f.cursor # None, NEW t \in e.always, IdOf[t] <= IdOf[f.cursor]
       PROVE  t \in Read(f)
  <2>1. t \in R \/ t \in Read(e)
      BY <1>12, <1>13
  <2>2. CASE t \in R
    <3>1. B # {}
        BY <1>3, <2>2
    <3>. QED BY <1>3, <1>5, <1>6, <1>10, <1>13, <2>2, <3>1
  <2>. QED BY <1>10, <2>1, <2>2
<1>14. ASSUME ~f.passed, f.pc = "ended" PROVE e.always \subseteq Read(f)
  <2>1. B = R
      BY <1>3, <1>5, <1>14
  <2>. QED BY <1>10, <1>12, <1>14, <2>1
<1>15. f.cursor = None => Read(f) = {}
    BY <1>1, <1>2, <1>3, <1>5, <1>6, <1>7, <1>10
<1>16. Read(f) \subseteq f.ever /\ f.always \subseteq M /\ M \subseteq f.ever
    BY <1>2, <1>3, <1>5, <1>7, <1>10
<1>. QED BY <1>5, <1>10, <1>11, <1>13, <1>14, <1>15, <1>16 DEF Whole, M

\* A write takes rows off those that always matched, and adds to those that ever did.
LEMMA WriteKeepsWhole ==
    ASSUME NEW e, e \in Export, NEW matching, matching \subseteq Ids, NEW old, Whole(e, old),
           NEW f, f = [e EXCEPT !.always = @ \intersect matching, !.ever = @ \union matching]
    PROVE  f \in Export /\ f.level = e.level /\ Whole(f, matching)
<1>. DEFINE a == e.always \intersect matching
            b == e.ever \union matching
<1>1. a \in SUBSET Ids /\ b \in SUBSET Ids /\ f = [e EXCEPT !.always = a, !.ever = b]
    BY DEF Export
<1>2. /\ a \subseteq matching /\ matching \subseteq b /\ a \subseteq e.always /\ e.ever \subseteq b
    OBVIOUS
<1>. HIDE DEF a, b
<1>3. /\ f \in Export /\ f.level = e.level /\ f.always = a /\ f.ever = b /\ f.pc = e.pc
      /\ f.batches = e.batches /\ f.cursor = e.cursor /\ f.passed = e.passed
    BY <1>1 DEF Export
<1>4. Read(f) = Read(e)
    BY <1>3 DEF Read
<1>. QED BY <1>2, <1>3, <1>4 DEF Whole

LEMMA ExportStays ==
    ASSUME Types, ExportTrue, [Next]_vars
    PROVE  (export \in Export \union {None})' /\ ExportTrue'
<1>1. export \in Export \union {None}
    BY DEF Types, AnswerTypes
<1>2. CASE WriteStep
  <2>1. PICK table : Written(table)
      BY <1>2 DEF WriteStep, RowWrite
  <2>. DEFINE matching == Where(export.level, table)
  <2>2. CASE export = None
      BY <2>1, <2>2 DEF Written, ExportTrue
  <2>3. CASE export # None
    <3>1. matching \subseteq Ids
        BY WhereIsIds
    <3>2. /\ export' = [export EXCEPT !.always = @ \intersect matching,
                                      !.ever = @ \union matching]
          /\ txns' = table
        BY <2>1, <2>3 DEF Written
    <3>. HIDE DEF matching
    <3>3. /\ export' \in Export /\ export'.level = export.level /\ Whole(export', matching)
        BY <1>1, <2>3, <3>1, <3>2, WriteKeepsWhole DEF ExportTrue
    <3>. QED BY <3>2, <3>3 DEF ExportTrue, matching
  <2>. QED BY <2>2, <2>3
<1>3. CASE ExportStep
  <2>1. ASSUME NEW level \in Levels \union {None}, AskExport(level)
        PROVE  (export \in Export)' /\ ExportTrue'
      BY <2>1, AskedExport
  <2>2. CASE ReadBatch
    <3>1. export # None
        BY <2>2 DEF ReadBatch
    <3>2. After(export, export') /\ export.pc = "streaming" /\ txns' = txns
        BY <1>1, <2>2, <3>1, ReadBatchAfter
    <3>3. Whole(export', Where(export'.level, txns))
        BY <1>1, <3>1, <3>2, BatchKeepsWhole DEF ExportTrue
    <3>. QED BY <3>2, <3>3 DEF ExportTrue, After
  <2>3. CASE FailExport
    <3>1. /\ export # None /\ txns' = txns
          /\ export' = [export EXCEPT !.pc = "destroyed"]
        BY <2>3 DEF FailExport, tableVars
    <3>2. /\ export' \in Export /\ export'.level = export.level /\ export'.pc = "destroyed"
          /\ export'.batches = export.batches /\ export'.cursor = export.cursor
          /\ export'.always = export.always /\ export'.ever = export.ever
          /\ export'.passed = export.passed
        BY <1>1, <3>1 DEF Export
    <3>3. Read(export') = Read(export)
        BY <3>2 DEF Read
    <3>4. Whole(export', Where(export'.level, txns))
        BY <3>1, <3>2, <3>3 DEF ExportTrue, Whole
    <3>. QED BY <3>1, <3>2, <3>4 DEF ExportTrue
  <2>. QED BY <1>3, <2>1, <2>2, <2>3 DEF ExportStep
<1>4. CASE UNCHANGED <<tableVars, export>>
    BY <1>1, <1>4 DEF ExportTrue, tableVars
<1>. QED BY <1>2, <1>3, <1>4, Steps DEF vars, analyticsVars

LEMMA ExportTells ==
    ASSUME Types, ExportTrue
    PROVE  ExportIsWhole
BY DEF ExportTrue, Whole, ExportIsWhole, Read

-----------------------------------------------------------------------------
(* The network.                                                            *)

Edge(t)     == <<t, txns[t].sender, txns[t].receiver>>
Touched(H)  == {t \in Flagged : Touches(t, H)}
Edges(S)    == {Edge(t) : t \in S}
Degrees(n)  == [a \in Hubs(n) |-> degree(a)]
From(a, S)  == {t \in S : txns[t].sender = a}
To(a, S)    == {t \in S : txns[t].receiver = a}

\* A flagged transaction has a record, between two accounts.
LEMMA FlaggedTypes ==
    ASSUME TableTypes
    PROVE  /\ Flagged \subseteq Ids
           /\ \A t \in Flagged : txns[t].sender \in Accounts /\ txns[t].receiver \in Accounts
           /\ \A S : S \subseteq Flagged => Edges(S) \subseteq Ids \X Accounts \X Accounts
<1>1. Flagged \subseteq Live /\ Live \subseteq Ids
    BY RowTypes
<1>2. \A t \in Flagged : txns[t] \in Txn
    BY <1>1 DEF Live, TableTypes, Tables
<1>3. \A t \in Flagged : txns[t].sender \in Accounts /\ txns[t].receiver \in Accounts
    BY <1>2 DEF Txn
<1>. QED BY <1>1, <1>3 DEF Edges, Edge

LEMMA DegreeTypes ==
    ASSUME TableTypes
    PROVE  /\ \A a, S : S \subseteq Flagged =>
                 /\ IsFiniteSet(From(a, S)) /\ Cardinality(From(a, S)) \in Nat
                 /\ IsFiniteSet(To(a, S)) /\ Cardinality(To(a, S)) \in Nat
           /\ \A a : degree(a) = Cardinality(From(a, Flagged)) + Cardinality(To(a, Flagged))
           /\ \A a : degree(a) \in Nat
           /\ \A n : Hubs(n) \subseteq Repeat
           /\ Repeat \subseteq Accounts
<1>1. ASSUME NEW a, NEW S, S \subseteq Flagged
      PROVE  /\ IsFiniteSet(From(a, S)) /\ Cardinality(From(a, S)) \in Nat
             /\ IsFiniteSet(To(a, S)) /\ Cardinality(To(a, S)) \in Nat
  <2>1. From(a, S) \subseteq Ids /\ To(a, S) \subseteq Ids
      BY <1>1, FlaggedTypes DEF From, To
  <2>. QED BY <2>1, FiniteSets
<1>2. ASSUME NEW a
      PROVE  degree(a) = Cardinality(From(a, Flagged)) + Cardinality(To(a, Flagged))
    BY DEF degree, From, To
<1>3. ASSUME NEW a PROVE degree(a) \in Nat
    BY <1>1, <1>2
<1>. QED BY <1>1, <1>2, <1>3 DEF Hubs, Repeat

\* A write moves the degree of its own two accounts, by two at most.
LEMMA DegreesMove ==
    ASSUME Types, TableTypes', NEW t, NEW r, RowWrite(t, r)
    PROVE  /\ \A a : /\ degree(a) \in Nat /\ degree(a)' \in Nat
                     /\ Within(2, degree(a)', degree(a))
           /\ Near(Repeat', Repeat, 2)
<1>1. /\ \A u \in Ids \ {t} : txns'[u] = txns[u]
      /\ txns'[t] = r
      /\ txns[t] # None => txns[t].sender = r.sender /\ txns[t].receiver = r.receiver
      /\ Flagged' \ {t} = Flagged \ {t} /\ Flagged' \subseteq Ids /\ Flagged \subseteq Ids
      /\ t \in Flagged => txns[t] # None
    BY WriteFacts, OneRowMoves, RowTypes DEF Live
<1>2. ASSUME NEW a
      PROVE  /\ Near(From(a, Flagged)', From(a, Flagged), 1)
             /\ Near(To(a, Flagged)', To(a, Flagged), 1)
  <2>1. /\ From(a, Flagged)' \ {t} = From(a, Flagged) \ {t}
        /\ To(a, Flagged)' \ {t} = To(a, Flagged) \ {t}
      BY <1>1 DEF From, To
  <2>2. /\ From(a, Flagged)' \subseteq Ids /\ From(a, Flagged) \subseteq Ids
        /\ To(a, Flagged)' \subseteq Ids /\ To(a, Flagged) \subseteq Ids
      BY <1>1 DEF From, To
  <2>. QED BY <2>1, <2>2, FiniteSets, NearByOne
<1>3. ASSUME NEW a
      PROVE  /\ degree(a) = Cardinality(From(a, Flagged)) + Cardinality(To(a, Flagged))
             /\ degree(a)' = Cardinality(From(a, Flagged)') + Cardinality(To(a, Flagged)')
    BY DEF degree, From, To
<1>4. ASSUME NEW a
      PROVE  /\ degree(a) \in Nat /\ degree(a)' \in Nat
             /\ Within(2, degree(a)', degree(a))
    BY <1>2, <1>3 DEF Near, Within
<1>5. ASSUME NEW a, a \notin {r.sender, r.receiver} PROVE degree(a)' = degree(a)
  <2>1. From(a, Flagged)' = From(a, Flagged) /\ To(a, Flagged)' = To(a, Flagged)
      BY <1>1, <1>5 DEF From, To
  <2>. QED BY <1>3, <2>1
<1>6. Repeat' \ {r.sender, r.receiver} = Repeat \ {r.sender, r.receiver}
    BY <1>5 DEF Repeat
<1>7. IsFiniteSet(Repeat) /\ IsFiniteSet(Repeat')
    BY AccountSets DEF Repeat
<1>. QED BY <1>4, <1>6, <1>7, NearByTwo

\* An edge for each transaction.
LEMMA EdgesCount ==
    ASSUME TableTypes, NEW S, S \subseteq Flagged, NEW a
    PROVE  /\ Cardinality({e \in Edges(S) : e[2] = a}) = Cardinality(From(a, S))
           /\ Cardinality({e \in Edges(S) : e[3] = a}) = Cardinality(To(a, S))
<1>1. IsFiniteSet(From(a, S)) /\ IsFiniteSet(To(a, S))
    BY DegreeTypes
<1>2. /\ \A t \in S : /\ Edge(t)[1] = t /\ Edge(t)[2] = txns[t].sender
                      /\ Edge(t)[3] = txns[t].receiver
    BY DEF Edge
<1>3. ASSUME NEW T, T \subseteq S, IsFiniteSet(T), NEW F, F = {Edge(t) : t \in T}
      PROVE  Cardinality(F) = Cardinality(T)
  <2>. DEFINE g == [t \in T |-> Edge(t)]
  <2>1. g \in [T -> F] /\ DOMAIN g = T
      BY <1>3
  <2>2. \A t, u \in T : g[t] = g[u] => t = u
      BY <1>2, <1>3
  <2>3. \A e \in F : \E t \in T : g[t] = e
      BY <1>3
  <2>. HIDE DEF g
  <2>4. g \in Bijection(T, F)
      BY <2>1, <2>2, <2>3 DEF Bijection, Injection, Surjection, IsInjective
  <2>. QED BY <1>3, <2>4, FS_Bijection DEF ExistsBijection
<1>4. {e \in Edges(S) : e[2] = a} = {Edge(t) : t \in From(a, S)}
    BY <1>2 DEF Edges, From
<1>5. {e \in Edges(S) : e[3] = a} = {Edge(t) : t \in To(a, S)}
    BY <1>2 DEF Edges, To
<1>6. From(a, S) \subseteq S /\ To(a, S) \subseteq S
    BY DEF From, To
<1>. QED BY <1>1, <1>3, <1>4, <1>5, <1>6

\* How many hubs there are: as many as asked for, or all that repeat.
LEMMA HubsCount ==
    ASSUME TableTypes, NEW n \in Nat
    PROVE  /\ Hubs(n) \subseteq Repeat /\ IsFiniteSet(Repeat)
           /\ Cardinality(Hubs(n)) <= n
           /\ Cardinality(Hubs(n)) = n \/ Hubs(n) = Repeat
<1>. DEFINE ahead(a, b) == degree(b) > degree(a) \/ (degree(b) = degree(a) /\ b < a)
            before == [a \in Repeat |-> {b \in Repeat : ahead(a, b)}]
<1>1. Repeat \subseteq Accounts /\ IsFiniteSet(Repeat) /\ \A a \in Repeat : a \in Int
    BY DegreeTypes, AccountSets, AnalyticsAssumption
<1>2. \A a : degree(a) \in Nat
    BY DegreeTypes
<1>3. \A a, b \in Repeat : /\ ~ahead(a, a)
                           /\ a # b => ahead(a, b) \/ ahead(b, a)
    BY <1>1, <1>2
<1>4. \A a, b, c \in Repeat : ahead(a, b) /\ ahead(b, c) => ahead(a, c)
    BY <1>1, <1>2
<1>5. Hubs(n) = {a \in Repeat : Cardinality({b \in Repeat : ahead(a, b)}) < n}
    BY DEF Hubs
<1>. HIDE DEF ahead
<1>6. Orderly(Repeat, before)
    BY <1>3, <1>4 DEF Orderly
<1>7. Hubs(n) = {a \in Repeat : Cardinality(before[a]) < n}
    BY <1>5
<1>. HIDE DEF before
<1>. QED BY <1>1, <1>6, <1>7, FirstRanks

\* How often an account is at an end of some edges.
EndsOf(a, E) == Cardinality({e \in E : e[2] = a}) + Cardinality({e \in E : e[3] = a})
NodesOf(E)   == UNION {{e[2], e[3]} : e \in E}

LEMMA EndsAndDegrees ==
    ASSUME TableTypes, NEW H, NEW E, E = Edges(Touched(H)), NEW a
    PROVE  /\ a \in H => EndsOf(a, E) = degree(a)
           /\ EndsOf(a, E) \in Nat /\ EndsOf(a, E) <= degree(a)
           /\ a \in NodesOf(E) => a \in Accounts
<1>. DEFINE T == Touched(H)
            F == Cardinality(From(a, T))
            G == Cardinality(To(a, T))
<1>1. T \subseteq Flagged
    BY DEF Touched
<1>2. EndsOf(a, E) = F + G
    BY <1>1, EdgesCount DEF EndsOf
<1>3. /\ From(a, T) \subseteq From(a, Flagged) /\ To(a, T) \subseteq To(a, Flagged)
      /\ a \in H => From(a, T) = From(a, Flagged) /\ To(a, T) = To(a, Flagged)
    BY DEF From, To, Touched, Touches
<1>4. /\ F \in Nat /\ G \in Nat
      /\ F <= Cardinality(From(a, Flagged)) /\ G <= Cardinality(To(a, Flagged))
      /\ Cardinality(From(a, Flagged)) \in Nat /\ Cardinality(To(a, Flagged)) \in Nat
  <2>1. IsFiniteSet(From(a, Flagged)) /\ IsFiniteSet(To(a, Flagged))
      BY DegreeTypes
  <2>. QED BY <1>3, <2>1, SubsetSize
<1>5. degree(a) = Cardinality(From(a, Flagged)) + Cardinality(To(a, Flagged))
    BY DegreeTypes
<1>6. a \in H => F = Cardinality(From(a, Flagged)) /\ G = Cardinality(To(a, Flagged))
    BY <1>3
<1>7. a \in NodesOf(E) => From(a, T) # {} \/ To(a, T) # {}
  <2>1. \A t : Edge(t)[2] = txns[t].sender /\ Edge(t)[3] = txns[t].receiver
      BY DEF Edge
  <2>2. NodesOf(E) = UNION {{Edge(t)[2], Edge(t)[3]} : t \in T}
      BY DEF NodesOf, Edges
  <2>. QED BY <2>1, <2>2 DEF From, To
<1>8. a \in NodesOf(E) => a \in Accounts
    BY <1>1, <1>7, FlaggedTypes DEF From, To
<1>. HIDE DEF F, G
<1>. QED BY <1>2, <1>4, <1>5, <1>6, <1>8

\* What each of the three queries read is of the tables as they are, but for two
\* ends or two hubs a row written since.
HubsTrue(n) ==
    LET shown == Cardinality(DOMAIN n.hubs)
    IN  shown <= n.limit /\ \A a \in DOMAIN n.hubs : n.hubs[a] > 1

DegreesTrue(n) ==
    LET since == 2 * (writes - n.at)
    IN  /\ \A a \in DOMAIN n.hubs : Within(since, n.hubs[a], degree(a))
        /\ Cardinality(DOMAIN n.hubs) < n.limit =>
              \A a \in Accounts \ DOMAIN n.hubs : degree(a) <= 1 + since

\* As many hubs are shown as there are, or as were asked for.
CountIs(n, total, since) ==
    LET shown == Cardinality(DOMAIN n.hubs)
    IN  /\ shown <= total + since
        /\ shown < n.limit => Within(since, shown, total)

EdgesTrue(n) ==
    /\ \A a \in DOMAIN n.hubs : Within(2 * n.late, n.hubs[a], EndsOf(a, n.edges))
    /\ Cardinality(DOMAIN n.hubs) < n.limit =>
          \A a \in NodesOf(n.edges) \ DOMAIN n.hubs : EndsOf(a, n.edges) <= 1 + 2 * n.late

NetworkTrue ==
    network # None =>
        /\ network.at <= writes /\ HubsTrue(network)
        /\ network.pc = "edges" => DegreesTrue(network)
        /\ network.pc \in {"edges", "total"} =>
              CountIs(network, Cardinality(Repeat), 2 * (writes - network.at))
        /\ network.pc \in {"total", "answered"} => EdgesTrue(network)
        /\ network.pc = "answered" => CountIs(network, network.total, 2 * network.later)

LEMMA NetworkSizes ==
    ASSUME NEW n, n \in Network
    PROVE  /\ DOMAIN n.hubs \subseteq Accounts
           /\ Cardinality(DOMAIN n.hubs) \in Nat /\ n.limit \in Nat /\ n.at \in Nat
           /\ \A a \in DOMAIN n.hubs : n.hubs[a] \in Nat
<1>1. PICK H \in SUBSET Accounts : n.hubs \in [H -> Nat]
    BY DEF Network
<1>2. DOMAIN n.hubs = H /\ \A a \in H : n.hubs[a] \in Nat
    BY <1>1
<1>. QED BY <1>2, AccountSets DEF Network

LEMMA NetworkWritten ==
    ASSUME Types, TableTypes', NetworkTrue, WriteStep
    PROVE  (network \in Network \union {None})' /\ NetworkTrue'
<1>1. PICK t, r : RowWrite(t, r)
    BY DEF WriteStep
<1>2. network' = network /\ writes' = writes + 1 /\ writes \in Nat
    BY <1>1, WriteFacts
<1>3. network \in Network \union {None}
    BY DEF Types, AnswerTypes
<1>4. SUFFICES ASSUME network # None PROVE NetworkTrue'
    BY <1>2, <1>3 DEF NetworkTrue
<1>. DEFINE H == DOMAIN network.hubs
            c == Cardinality(H)
            d == writes - network.at
<1>5. /\ H \subseteq Accounts /\ c \in Nat /\ network.limit \in Nat /\ network.at \in Nat
      /\ \A a \in H : network.hubs[a] \in Nat
    BY <1>3, <1>4, NetworkSizes
<1>6. network.at <= writes /\ d \in Nat /\ writes' - network.at = d + 1
    BY <1>2, <1>4, <1>5 DEF NetworkTrue
<1>7. /\ \A a : /\ degree(a) \in Nat /\ degree(a)' \in Nat
                /\ Within(2, degree(a)', degree(a))
      /\ Near(Repeat', Repeat, 2)
    BY <1>1, DegreesMove
<1>. HIDE DEF d
<1>8. ASSUME DegreesTrue(network) PROVE DegreesTrue(network)'
  <2>1. ASSUME NEW a \in H PROVE Within(2 * (d + 1), network.hubs[a], degree(a)')
    <3>1. Within(2 * d, network.hubs[a], degree(a))
        BY <1>8, <2>1 DEF DegreesTrue, d
    <3>. QED BY <1>5, <1>6, <1>7, <3>1 DEF Within
  <2>2. ASSUME c < network.limit, NEW a \in Accounts \ H PROVE degree(a)' <= 1 + 2 * (d + 1)
    <3>1. degree(a) <= 1 + 2 * d
        BY <1>8, <2>2 DEF DegreesTrue, d
    <3>. QED BY <1>6, <1>7, <3>1 DEF Within
  <2>. QED BY <1>2, <1>6, <2>1, <2>2 DEF DegreesTrue
<1>9. ASSUME CountIs(network, Cardinality(Repeat), 2 * d)
      PROVE  CountIs(network, Cardinality(Repeat'), 2 * (d + 1))
    BY <1>5, <1>6, <1>7, <1>9 DEF CountIs, Near, Within
<1>10. /\ network.pc \in {"edges", "total"} =>
             CountIs(network, Cardinality(Repeat), 2 * (writes - network.at))'
       /\ network.pc = "edges" => DegreesTrue(network)'
  <2>1. network.pc \in {"edges", "total"} => CountIs(network, Cardinality(Repeat), 2 * d)
      BY <1>4 DEF NetworkTrue, d
  <2>2. network.pc = "edges" => DegreesTrue(network)
      BY <1>4 DEF NetworkTrue
  <2>3. CountIs(network, Cardinality(Repeat), 2 * (writes - network.at))'
           <=> CountIs(network, Cardinality(Repeat'), 2 * (d + 1))
      BY <1>2, <1>6 DEF CountIs
  <2>. QED BY <1>8, <1>9, <2>1, <2>2, <2>3
<1>11. /\ HubsTrue(network)' <=> HubsTrue(network)
       /\ EdgesTrue(network)' <=> EdgesTrue(network)
       /\ CountIs(network, network.total, 2 * network.later)'
            <=> CountIs(network, network.total, 2 * network.later)
    BY <1>2 DEF HubsTrue, EdgesTrue, CountIs, EndsOf, NodesOf
<1>12. network'.at <= writes'
    BY <1>2, <1>5, <1>6
<1>. QED BY <1>2, <1>4, <1>10, <1>11, <1>12 DEF NetworkTrue

LEMMA NetworkAsked ==
    ASSUME Types, NEW limit \in Nat, AskNetwork(limit)
    PROVE  (network \in Network)' /\ NetworkTrue'
<1>. DEFINE D == Degrees(limit)
            H == Hubs(limit)
<1>1. TableTypes /\ writes \in Nat
    BY DEF Types, TableTypes
<1>2. /\ UNCHANGED tableVars /\ writes' = writes
      /\ network' = [pc |-> "edges", limit |-> limit, at |-> writes, hubs |-> D,
                     edges |-> {}, total |-> 0, late |-> 0, later |-> 0]
    BY DEF AskNetwork, Degrees, tableVars
<1>3. D \in [H -> Nat] /\ H \in SUBSET Accounts /\ DOMAIN D = H
      /\ \A a \in H : D[a] = degree(a)
    BY <1>1, DegreeTypes DEF Degrees
<1>4. H \subseteq Repeat /\ Cardinality(H) <= limit /\ (Cardinality(H) = limit \/ H = Repeat)
      /\ Cardinality(H) \in Nat /\ Cardinality(Repeat) \in Nat
      /\ Cardinality(H) <= Cardinality(Repeat)
  <2>1. /\ H \subseteq Repeat /\ IsFiniteSet(Repeat) /\ Cardinality(H) <= limit
        /\ Cardinality(H) = limit \/ H = Repeat
      BY <1>1, HubsCount
  <2>. HIDE DEF H
  <2>. QED BY <2>1, SubsetSize
<1>5. \A a : degree(a) \in Nat /\ degree(a)' = degree(a)
    BY <1>1, <1>2, DegreeTypes, SameRows
<1>6. \A a \in Repeat : degree(a) > 1
    BY DEF Repeat
<1>. HIDE DEF D, H
<1>7. /\ network' \in Network
      /\ network'.pc = "edges" /\ network'.at = writes /\ network'.limit = limit
      /\ network'.hubs = D
    BY <1>1, <1>2, <1>3 DEF Network
<1>8. HubsTrue(network')
    BY <1>3, <1>4, <1>6, <1>7 DEF HubsTrue
<1>9. DegreesTrue(network)'
  <2>1. writes' - network'.at = 0
      BY <1>1, <1>2, <1>7
  <2>2. \A a \in H : Within(2 * 0, D[a], degree(a)')
      BY <1>3, <1>5 DEF Within
  <2>3. ASSUME Cardinality(H) < limit, NEW a \in Accounts \ H PROVE degree(a)' <= 1 + 2 * 0
    <3>1. a \notin Repeat
        BY <1>4, <2>3
    <3>. QED BY <1>5, <2>3, <3>1 DEF Repeat
  <2>. QED BY <1>3, <1>7, <2>1, <2>2, <2>3 DEF DegreesTrue
<1>10. CountIs(network', Cardinality(Repeat'), 2 * (writes' - network'.at))
  <2>1. Repeat' = Repeat
      BY <1>5 DEF Repeat
  <2>2. writes' - network'.at = 0
      BY <1>1, <1>2, <1>7
  <2>3. CountIs(network', Cardinality(Repeat), 2 * 0)
      BY <1>3, <1>4, <1>7 DEF CountIs, Within
  <2>. QED BY <2>1, <2>2, <2>3
<1>11. HubsTrue(network)' /\ CountIs(network, Cardinality(Repeat), 2 * (writes - network.at))'
    BY <1>8, <1>10 DEF HubsTrue, CountIs
<1>12. network'.at <= writes'
    BY <1>1, <1>2, <1>7
<1>. QED BY <1>7, <1>9, <1>11, <1>12 DEF NetworkTrue

LEMMA NetworkEdges ==
    ASSUME Types, NetworkTrue, SelectEdges
    PROVE  (network \in Network)' /\ NetworkTrue'
<1>. DEFINE H == DOMAIN network.hubs
            c == Cardinality(H)
            d == writes - network.at
            E == Edges(Touched(H))
<1>1. /\ network # None /\ network.pc = "edges" /\ network \in Network /\ TableTypes
      /\ UNCHANGED tableVars /\ writes' = writes /\ writes \in Nat
    BY DEF SelectEdges, Types, AnswerTypes, TableTypes, tableVars
<1>2. network' = [network EXCEPT !.pc = "total", !.late = d, !.edges = E]
    BY DEF SelectEdges, Edges, Edge, Touched
<1>3. E \in SUBSET (Ids \X Accounts \X Accounts)
    BY <1>1, FlaggedTypes DEF Touched
<1>4. /\ H \subseteq Accounts /\ c \in Nat /\ network.limit \in Nat /\ network.at \in Nat
      /\ \A a \in H : network.hubs[a] \in Nat
    BY <1>1, NetworkSizes
<1>5. network.at <= writes /\ d \in Nat
    BY <1>1, <1>4 DEF NetworkTrue
<1>6. \A a : /\ a \in H => EndsOf(a, E) = degree(a)
             /\ EndsOf(a, E) \in Nat /\ EndsOf(a, E) <= degree(a)
             /\ a \in NodesOf(E) => a \in Accounts
             /\ degree(a) \in Nat
    BY <1>1, EndsAndDegrees, DegreeTypes
<1>7. /\ \A a \in H : Within(2 * d, network.hubs[a], EndsOf(a, E))
      /\ c < network.limit => \A a \in NodesOf(E) \ H : EndsOf(a, E) <= 1 + 2 * d
  <2>1. DegreesTrue(network)
      BY <1>1 DEF NetworkTrue
  <2>2. \A a \in H : Within(2 * d, network.hubs[a], degree(a))
      BY <2>1 DEF DegreesTrue
  <2>3. ASSUME c < network.limit, NEW a \in NodesOf(E) \ H PROVE EndsOf(a, E) <= 1 + 2 * d
    <3>1. a \in Accounts \ H
        BY <1>6, <2>3
    <3>2. degree(a) <= 1 + 2 * d
        BY <2>1, <2>3, <3>1 DEF DegreesTrue
    <3>. HIDE DEF d, E
    <3>3. EndsOf(a, E) \in Nat /\ degree(a) \in Nat /\ EndsOf(a, E) <= degree(a) /\ d \in Nat
        BY <1>5, <1>6
    <3>. QED BY <3>2, <3>3
  <2>. HIDE DEF d, E
  <2>. QED BY <1>6, <2>2, <2>3
<1>. HIDE DEF E, d
<1>8. /\ network' \in Network /\ network'.hubs = network.hubs /\ network'.edges = E
      /\ network'.pc = "total" /\ network'.limit = network.limit /\ network'.late = d
      /\ network'.at = network.at
    BY <1>1, <1>2, <1>3, <1>5 DEF Network
<1>9. EdgesTrue(network')
    BY <1>7, <1>8 DEF EdgesTrue
<1>10. HubsTrue(network')
    BY <1>1, <1>8 DEF NetworkTrue, HubsTrue
<1>11. CountIs(network', Cardinality(Repeat'), 2 * (writes' - network'.at))
  <2>1. CountIs(network, Cardinality(Repeat), 2 * (writes - network.at))
      BY <1>1 DEF NetworkTrue
  <2>2. Repeat' = Repeat
      BY <1>1, SameRows DEF Repeat
  <2>3. CountIs(network', Cardinality(Repeat), 2 * (writes - network.at))
      BY <1>8, <2>1 DEF CountIs
  <2>. QED BY <1>1, <1>8, <2>2, <2>3
<1>12. /\ HubsTrue(network)' /\ EdgesTrue(network)'
       /\ CountIs(network, Cardinality(Repeat), 2 * (writes - network.at))'
    BY <1>9, <1>10, <1>11 DEF HubsTrue, EdgesTrue, CountIs, EndsOf, NodesOf
<1>. QED BY <1>1, <1>5, <1>8, <1>12 DEF NetworkTrue

LEMMA NetworkCounted ==
    ASSUME Types, NetworkTrue, CountHubs
    PROVE  (network \in Network)' /\ NetworkTrue'
<1>. DEFINE d == writes - network.at
            total == Cardinality(Repeat)
<1>1. /\ network # None /\ network.pc = "total" /\ network \in Network /\ TableTypes
      /\ writes' = writes /\ writes \in Nat
      /\ network' = [network EXCEPT !.pc = "answered", !.total = total, !.later = d]
    BY DEF CountHubs, Types, AnswerTypes, TableTypes, tableVars
<1>2. network.at <= writes /\ network.at \in Nat /\ d \in Nat
    BY <1>1, NetworkSizes DEF NetworkTrue
<1>3. total \in Nat
    BY <1>1, DegreeTypes, AccountSets
<1>4. CountIs(network, total, 2 * d) /\ HubsTrue(network) /\ EdgesTrue(network)
    BY <1>1 DEF NetworkTrue
<1>. HIDE DEF d, total
<1>5. /\ network' \in Network /\ network'.hubs = network.hubs /\ network'.edges = network.edges
      /\ network'.pc = "answered" /\ network'.limit = network.limit
      /\ network'.late = network.late /\ network'.at = network.at
      /\ network'.total = total /\ network'.later = d
    BY <1>1, <1>2, <1>3 DEF Network
<1>6. /\ HubsTrue(network') /\ EdgesTrue(network')
      /\ CountIs(network', network'.total, 2 * network'.later)
    BY <1>4, <1>5 DEF HubsTrue, EdgesTrue, CountIs
<1>7. /\ HubsTrue(network)' /\ EdgesTrue(network)'
      /\ CountIs(network, network.total, 2 * network.later)'
    BY <1>6 DEF HubsTrue, EdgesTrue, CountIs, EndsOf, NodesOf
<1>. QED BY <1>1, <1>2, <1>5, <1>7 DEF NetworkTrue

LEMMA NetworkStays ==
    ASSUME Types, TableTypes', NetworkTrue, [Next]_vars
    PROVE  (network \in Network \union {None})' /\ NetworkTrue'
<1>1. network \in Network \union {None}
    BY DEF Types, AnswerTypes
<1>2. CASE UNCHANGED <<tableVars, network>>
  <2>1. /\ network' = network /\ writes' = writes
        /\ Repeat' = Repeat /\ \A a : degree(a)' = degree(a)
      BY <1>2, SameRows DEF tableVars, Repeat
  <2>2. /\ HubsTrue(network)' <=> HubsTrue(network)
        /\ EdgesTrue(network)' <=> EdgesTrue(network)
        /\ DegreesTrue(network)' <=> DegreesTrue(network)
        /\ CountIs(network, network.total, 2 * network.later)'
             <=> CountIs(network, network.total, 2 * network.later)
        /\ CountIs(network, Cardinality(Repeat), 2 * (writes - network.at))'
             <=> CountIs(network, Cardinality(Repeat), 2 * (writes - network.at))
      BY <2>1 DEF HubsTrue, EdgesTrue, DegreesTrue, CountIs, EndsOf, NodesOf
  <2>. QED BY <1>1, <2>1, <2>2 DEF NetworkTrue
<1>. QED BY <1>1, <1>2, NetworkWritten, NetworkAsked, NetworkEdges, NetworkCounted, Steps
         DEF NetworkStep, vars, analyticsVars

LEMMA NetworkTells ==
    ASSUME Types, NetworkTrue
    PROVE  NetworkIsConsistent
<1>. DEFINE H == DOMAIN network.hubs
            n == network.limit
            c == Cardinality(H)
<1>1. SUFFICES ASSUME network # None, network.pc = "answered"
               PROVE  /\ c <= n /\ c <= network.total + 2 * network.later
                      /\ \A a \in H : /\ network.hubs[a] > 1
                                      /\ Within(2 * network.late, ShownDegree(a),
                                                EndsOf(a, network.edges))
                      /\ c < n =>
                            /\ Within(2 * network.later, c, network.total)
                            /\ \A a \in Nodes \ H :
                                  EndsOf(a, network.edges) <= ShownDegree(a) + 2 * network.late
    BY DEF NetworkIsConsistent, EndsOf
<1>2. /\ HubsTrue(network) /\ EdgesTrue(network)
      /\ CountIs(network, network.total, 2 * network.later)
    BY <1>1 DEF NetworkTrue
<1>3. /\ \A a \in H : ShownDegree(a) = network.hubs[a]
      /\ \A a \in Nodes \ H : ShownDegree(a) = 1
      /\ Nodes = NodesOf(network.edges)
    BY DEF ShownDegree, Nodes, NodesOf
<1>. QED BY <1>2, <1>3 DEF HubsTrue, EdgesTrue, CountIs

-----------------------------------------------------------------------------
(* The pages of the list.                                                  *)

LEMMA Division ==
    ASSUME NEW m \in Nat, NEW s \in Nat \ {0}
    PROVE  m \div s \in Nat /\ (m \div s) * s <= m /\ m < (m \div s) * s + s
OBVIOUS

LEMMA TimesIsMonotone ==
    ASSUME NEW a \in Nat, NEW b \in Nat, a <= b, NEW s \in Nat
    PROVE  a * s <= b * s
OBVIOUS

PageCount(n) == (n + PageSize - 1) \div PageSize

LEMMA SkipTypes ==
    ASSUME NEW p \in Nat \ {0}
    PROVE  /\ Skip(p) \in Nat /\ Skip(p) + PageSize = p * PageSize /\ p * PageSize \in Nat
           /\ PageSize \in Nat \ {0}
<1>1. PageSize \in Nat \ {0}
    BY TransactionsPageAssumption
<1>2. PICK q \in Nat : p = q + 1
  <2>1. p - 1 \in Nat /\ p = (p - 1) + 1
      OBVIOUS
  <2>. QED BY <2>1
<1>3. q * PageSize \in Nat /\ (q + 1) * PageSize = q * PageSize + PageSize
    BY <1>1
<1>. QED BY <1>1, <1>2, <1>3 DEF Skip

\* The i-th of n rows is on a page, one that the page count includes.
LEMMA RowHasPage ==
    ASSUME NEW n \in Nat, NEW i \in 0..(n - 1)
    PROVE  \E p \in 1..PageCount(n) : Skip(p) <= i /\ i < Skip(p) + PageSize
<1>. DEFINE q == i \div PageSize
            m == PageCount(n)
            Q == q * PageSize
            M == m * PageSize
<1>1. PageSize \in Nat \ {0} /\ i \in Nat /\ n + PageSize - 1 \in Nat
    BY TransactionsPageAssumption
<1>2. q \in Nat /\ Q <= i /\ i < Q + PageSize
    BY <1>1, Division
<1>3. m \in Nat /\ n + PageSize - 1 < M + PageSize
    BY <1>1, Division DEF PageCount
<1>4. Q \in Nat /\ M \in Nat
    BY <1>1, <1>2, <1>3
<1>5. Skip(q + 1) = Q
    BY <1>2 DEF Skip
<1>6. m <= q => M <= Q
    BY <1>1, <1>2, <1>3, TimesIsMonotone
<1>. HIDE DEF q, m, Q, M
<1>7. q + 1 \in 1..m
    BY <1>1, <1>2, <1>3, <1>4, <1>6
<1>. QED BY <1>2, <1>5, <1>7 DEF m

\* And on one only.
LEMMA RowHasOnePage ==
    ASSUME NEW p \in Nat \ {0}, NEW q \in Nat \ {0}, NEW i \in Nat,
           Skip(p) <= i, i < Skip(p) + PageSize, Skip(q) <= i, i < Skip(q) + PageSize
    PROVE  p = q
<1>1. \A x, y \in Nat \ {0} : x < y => Skip(x) + PageSize <= Skip(y)
  <2>1. SUFFICES ASSUME NEW x \in Nat \ {0}, NEW y \in Nat \ {0}, x < y
                 PROVE  Skip(x) + PageSize <= Skip(y)
      OBVIOUS
  <2>2. Skip(x) + PageSize = x * PageSize /\ PageSize \in Nat
      BY SkipTypes
  <2>3. x * PageSize <= (y - 1) * PageSize
      BY <2>1, <2>2, TimesIsMonotone
  <2>. QED BY <2>2, <2>3 DEF Skip
<1>2. Skip(p) \in Nat /\ Skip(q) \in Nat /\ PageSize \in Nat
    BY SkipTypes
<1>3. ~(p < q) /\ ~(q < p)
    BY <1>1, <1>2
<1>. QED BY <1>3

\* A page that the page count includes is not empty.
LEMMA PageIsInside ==
    ASSUME NEW n \in Nat, NEW p \in 1..PageCount(n)
    PROVE  Skip(p) < n
<1>. DEFINE m == PageCount(n)
            P == p * PageSize
            M == m * PageSize
<1>1. PageSize \in Nat \ {0} /\ n + PageSize - 1 \in Nat
    BY TransactionsPageAssumption
<1>2. m \in Nat /\ M <= n + PageSize - 1
    BY <1>1, Division DEF PageCount
<1>3. p \in Nat \ {0} /\ p <= m
    BY <1>2
<1>4. P <= M /\ P \in Nat /\ M \in Nat
    BY <1>1, <1>2, <1>3, TimesIsMonotone
<1>5. Skip(p) + PageSize = P /\ Skip(p) \in Nat
    BY <1>3, SkipTypes
<1>. HIDE DEF m, P, M
<1>. QED BY <1>1, <1>2, <1>4, <1>5

\* What a SELECT with ORDER BY, OFFSET and LIMIT returns.
LEMMA SliceRows ==
    ASSUME TableTypes, NEW f, NEW p \in Nat \ {0}, NEW rows \in Slices(<<f, p>>)
    PROVE  \E s \in Orders(Matching(f)) :
              LET n    == Cardinality(Matching(f))
                  last == IF Skip(p) + PageSize <= n THEN Skip(p) + PageSize ELSE n
              IN  /\ s \in [1..n -> Matching(f)] /\ n \in Nat
                  /\ rows \in Seq(Ids)
                  /\ Len(rows) = IF Skip(p) < last THEN last - Skip(p) ELSE 0
                  /\ \A i \in 1..(last - Skip(p)) : rows[i] = s[Skip(p) + i]
<1>. DEFINE S == Matching(f)
            n == Cardinality(S)
            a == Skip(p)
            last == IF a + PageSize <= n THEN a + PageSize ELSE n
<1>1. PICK s \in Orders(S) : rows = SubSeq(s, a + 1, Min({a + PageSize, Len(s)}))
    BY DEF Slices
<1>2. S \subseteq Ids /\ n \in Nat
    BY RowTypes, FiniteSets
<1>3. s \in [1..n -> S]
    BY DEF Orders, SetToSeqs
<1>. HIDE DEF n, S
<1>4. Len(s) = n /\ s \in Seq(S)
    BY <1>2, <1>3
<1>5. a \in Nat /\ PageSize \in Nat \ {0}
    BY SkipTypes
<1>. HIDE DEF a
<1>6. Min({a + PageSize, n}) = last
    BY <1>2, <1>5 DEF Min
<1>7. last \in Nat /\ last <= n
    BY <1>2, <1>5
<1>8. rows = SubSeq(s, a + 1, last)
    BY <1>1, <1>4, <1>6
<1>. HIDE DEF last
<1>9. \A i \in (a + 1)..last : s[i] \in Ids
    BY <1>2, <1>3, <1>5, <1>7
<1>10. /\ SubSeq(s, a + 1, last) \in Seq(Ids)
       /\ Len(SubSeq(s, a + 1, last)) = IF a + 1 <= last THEN last - (a + 1) + 1 ELSE 0
       /\ \A i \in 1..(last - (a + 1) + 1) : SubSeq(s, a + 1, last)[i] = s[(a + 1) + i - 1]
    BY <1>5, <1>7, <1>9, SubSeqProperties
<1>11. /\ Len(rows) = IF a < last THEN last - a ELSE 0
       /\ \A i \in 1..(last - a) : rows[i] = s[a + i]
    BY <1>5, <1>7, <1>8, <1>10
<1>. QED BY <1>2, <1>3, <1>8, <1>10, <1>11 DEF n, S, a, last

\* How many come before t in the order of the list.
Later(f, t)   == {u \in Matching(f) : txns[u].at > txns[t].at}
Place(f, t)   == Cardinality(Later(f, t))

LEMMA UpTo ==
    ASSUME NEW n \in Nat
    PROVE  IsFiniteSet(1..n) /\ Cardinality(1..n) = n
BY FS_Interval

\* Every transaction is in the order once; where no two have the same time, its
\* place is the number of later ones.
LEMMA OrderPlaces ==
    ASSUME TableTypes, NEW f, NEW s \in Orders(Matching(f))
    PROVE  LET n == Cardinality(Matching(f))
           IN  /\ \A t \in Matching(f) : \E i \in 1..n : s[i] = t
               /\ OneOrder => \A i \in 1..n : Place(f, s[i]) = i - 1
<1>. DEFINE S == Matching(f)
            n == Cardinality(S)
            at(t) == txns[t].at
<1>1. /\ S \subseteq Live /\ S \subseteq Ids /\ IsFiniteSet(S) /\ n \in Nat
      /\ \A t \in S : at(t) \in Nat
  <2>1. S \subseteq Live /\ S \subseteq Ids
      BY RowTypes
  <2>2. \A t \in S : txns[t] \in Txn
      BY <2>1 DEF TableTypes, Tables, Live
  <2>3. \A t \in S : at(t) \in Nat
      BY <2>2, AnalyticsAssumption DEF Txn
  <2>. QED BY <2>1, <2>3, FiniteSets
<1>2. /\ s \in [1..n -> S]
      /\ \A i, j \in 1..n : i # j => s[i] # s[j]
      /\ \A i, j \in 1..n : i < j => at(s[i]) >= at(s[j])
    BY DEF Orders, SetToSeqs
<1>. HIDE DEF n
<1>3. ASSUME NEW t \in S PROVE \E i \in 1..n : s[i] = t
  <2>1. s \in Injection(1..n, S)
      BY <1>2 DEF Injection, IsInjective
  <2>2. IsFiniteSet(1..n) /\ Cardinality(1..n) = n
      BY <1>1, UpTo
  <2>3. s \in Surjection(1..n, S)
      BY <1>1, <2>1, <2>2, FS_Injection DEF n
  <2>. QED BY <1>3, <2>3 DEF Surjection
<1>4. ASSUME OneOrder, NEW i \in 1..n PROVE Place(f, s[i]) = i - 1
  <2>. DEFINE g == [m \in 1..(i - 1) |-> s[m]]
              B == Later(f, s[i])
  <2>1. \A t, u \in S : t # u => at(t) # at(u)
      BY <1>1, <1>4 DEF OneOrder
  <2>2. \A m \in 1..n : at(s[m]) > at(s[i]) <=> m < i
    <3>1. SUFFICES ASSUME NEW m \in 1..n PROVE at(s[m]) > at(s[i]) <=> m < i
        OBVIOUS
    <3>2. s[m] \in S /\ s[i] \in S /\ at(s[m]) \in Nat /\ at(s[i]) \in Nat
        BY <1>1, <1>2
    <3>3. m # i => at(s[m]) # at(s[i])
        BY <1>2, <2>1, <3>2
    <3>4. m < i => at(s[m]) >= at(s[i])
        BY <1>2
    <3>5. i < m => at(s[i]) >= at(s[m])
        BY <1>2
    <3>6. m = i \/ m < i \/ i < m
        OBVIOUS
    <3>. HIDE DEF at
    <3>7. m = i => at(s[m]) = at(s[i])
        OBVIOUS
    <3>. QED BY <1>1, <3>2, <3>3, <3>4, <3>5, <3>6, <3>7
  <2>3. B = {u \in S : at(u) > at(s[i])}
      BY DEF Later
  <2>. HIDE DEF B, at
  <2>4. /\ g \in [1..(i - 1) -> B] /\ DOMAIN g = 1..(i - 1)
    <3>1. \A m \in 1..(i - 1) : m \in 1..n /\ m < i
        BY <1>1
    <3>. QED BY <1>2, <2>2, <2>3, <3>1
  <2>5. \A l, m \in 1..(i - 1) : g[l] = g[m] => l = m
      BY <1>1, <1>2
  <2>6. \A u \in B : \E m \in 1..(i - 1) : g[m] = u
    <3>1. SUFFICES ASSUME NEW u \in B PROVE \E m \in 1..(i - 1) : g[m] = u
        OBVIOUS
    <3>2. PICK m \in 1..n : s[m] = u
        BY <1>3, <2>3, <3>1
    <3>3. m < i
        BY <2>2, <2>3, <3>1, <3>2
    <3>. QED BY <1>1, <3>2, <3>3
  <2>. HIDE DEF g
  <2>7. g \in Bijection(1..(i - 1), B)
      BY <2>4, <2>5, <2>6 DEF Bijection, Injection, Surjection, IsInjective
  <2>8. i - 1 \in Nat /\ IsFiniteSet(1..(i - 1)) /\ Cardinality(1..(i - 1)) = i - 1
      BY <1>1, UpTo
  <2>. QED BY <2>7, <2>8, FS_Bijection DEF ExistsBijection, Place, B
<1>. QED BY <1>3, <1>4 DEF n

\* Where no two have the same time, a page shows the transactions of its places.
LEMMA PageRows ==
    ASSUME TableTypes, OneOrder, NEW f, NEW p \in Nat \ {0},
           NEW rows \in Slices(<<f, p>>), NEW t
    PROVE  t \in ToSet(rows) <=>
              /\ t \in Matching(f)
              /\ Skip(p) <= Place(f, t) /\ Place(f, t) < Skip(p) + PageSize
<1>. DEFINE n == Cardinality(Matching(f))
            a == Skip(p)
            last == IF a + PageSize <= n THEN a + PageSize ELSE n
<1>1. PICK s \in Orders(Matching(f)) :
          /\ s \in [1..n -> Matching(f)] /\ n \in Nat /\ rows \in Seq(Ids)
          /\ Len(rows) = IF a < last THEN last - a ELSE 0
          /\ \A i \in 1..(last - a) : rows[i] = s[a + i]
    BY SliceRows
<1>2. /\ \A u \in Matching(f) : \E i \in 1..n : s[i] = u
      /\ \A i \in 1..n : Place(f, s[i]) = i - 1
    BY OrderPlaces
<1>3. a \in Nat /\ PageSize \in Nat \ {0}
    BY SkipTypes
<1>. HIDE DEF n, a
<1>4. last \in Nat /\ last <= n /\ last <= a + PageSize
      /\ \A i \in Nat : i <= n /\ i <= a + PageSize => i <= last
    BY <1>1, <1>3
<1>. HIDE DEF last
<1>5. \A i : i \in DOMAIN rows <=> i \in 1..(last - a)
    BY <1>1, <1>3, <1>4
<1>6. ASSUME t \in ToSet(rows)
      PROVE  t \in Matching(f) /\ a <= Place(f, t) /\ Place(f, t) < a + PageSize
  <2>1. PICK i \in DOMAIN rows : rows[i] = t
      BY <1>6 DEF ToSet
  <2>2. i \in 1..(last - a) /\ t = s[a + i]
      BY <1>1, <1>5, <2>1
  <2>3. a + i \in 1..n /\ a <= (a + i) - 1 /\ (a + i) - 1 < a + PageSize
      BY <1>1, <1>3, <1>4, <2>2
  <2>. QED BY <1>1, <1>2, <2>2, <2>3
<1>7. ASSUME t \in Matching(f), a <= Place(f, t), Place(f, t) < a + PageSize
      PROVE  t \in ToSet(rows)
  <2>1. PICK i \in 1..n : s[i] = t
      BY <1>2, <1>7
  <2>2. Place(f, t) = i - 1
      BY <1>2, <2>1
  <2>3. i - a \in 1..(last - a) /\ a + (i - a) = i
    <3>1. a <= i - 1 /\ i - 1 < a + PageSize
        BY <1>7, <2>2
    <3>2. i \in Nat /\ i <= n /\ i <= a + PageSize
        BY <1>1, <1>3, <2>1, <3>1
    <3>3. i <= last
        BY <1>4, <3>2
    <3>. QED BY <1>3, <1>4, <3>1, <3>2, <3>3
  <2>4. rows[i - a] = t
      BY <1>1, <2>1, <2>3
  <2>. QED BY <1>5, <2>3, <2>4 DEF ToSet
<1>. QED BY <1>6, <1>7 DEF a

\* While nobody writes, what is awaited and what is cached is what the tables
\* say, a user who waits for a page before turning it stays within the list, and
\* what stands in for a page without rows was empty because nothing matched.
AskedTrue(k, a) ==
    /\ a.total # None => a.total = Cardinality(Matching(k[1]))
    /\ a.rows # None => a.rows \in Slices(k)

CachedTrue(k, c) ==
    /\ c.filtered = k[1] /\ c.page = k[2]
    /\ c.total = Cardinality(Matching(k[1])) /\ c.rows \in Slices(k)

OnList == page = 1 \/ page <= PageCount(Cardinality(Matching(filtered)))

ListTrue ==
    writes = 0 =>
        /\ \A k \in Keys : asked[k] # None => AskedTrue(k, asked[k])
        /\ \A k \in Keys : cache[k] # None => CachedTrue(k, cache[k])
        /\ ~hasty => OnList
        /\ ~hasty /\ previous # None /\ previous.rows = <<>> =>
              Matching(previous.filtered) = {}

LEMMA SameList ==
    ASSUME UNCHANGED tableVars
    PROVE  /\ \A k : Slices(k)' = Slices(k)
           /\ \A k, a : AskedTrue(k, a)' <=> AskedTrue(k, a)
           /\ \A k, c : CachedTrue(k, c)' <=> CachedTrue(k, c)
<1>1. UNCHANGED txns /\ \A f : Matching(f)' = Matching(f)
    BY SameRows DEF tableVars
<1>2. ASSUME NEW k PROVE Slices(k)' = Slices(k)
    BY <1>1 DEF Slices, Orders
<1>. QED BY <1>1, <1>2 DEF AskedTrue, CachedTrue

LEMMA KeyTypes ==
    ASSUME ListTypes
    PROVE  /\ Key \in Keys /\ Key[1] = filtered /\ Key[2] = page
           /\ \A k \in Keys : k = <<k[1], k[2]>> /\ k[1] \in BOOLEAN /\ k[2] \in Nat \ {0}
BY TransactionsPageAssumption DEF ListTypes, Key, Keys

LEMMA SliceTypes ==
    ASSUME TableTypes, ListTypes, NEW k \in Keys, NEW rows \in Slices(k)
    PROVE  rows \in Seq(Ids)
BY KeyTypes, SliceRows

\* The steps of one key's answer: asking, its two queries, receiving.
LEMMA AnswerStays ==
    ASSUME Types, ListTrue, UNCHANGED tableVars, NEW k \in Keys,
           (Ask /\ k = Key) \/ KeyStep(k)
    PROVE  ListTypes' /\ ListTrue'
<1>1. /\ ListTypes /\ TableTypes /\ asked \in [Keys -> Asked \union {None}]
      /\ cache \in [Keys -> Cached \union {None}]
    BY DEF Types, ListTypes
<1>2. /\ UNCHANGED <<filtered, page, hasty, previous>> /\ writes' = writes
    BY DEF Ask, KeyStep, CountRows, SelectRows, Receive, tableVars
<1>3. OnList' <=> OnList
    BY <1>2, SameRows DEF OnList
\* It is enough to look at the key.
<1>4. ASSUME NEW a, NEW c,
             asked' = [asked EXCEPT ![k] = a], cache' = [cache EXCEPT ![k] = c],
             a \in Asked \union {None}, c \in Cached \union {None},
             writes = 0 /\ a # None => AskedTrue(k, a),
             writes = 0 /\ c # None => CachedTrue(k, c)
      PROVE  ListTypes' /\ ListTrue'
  <2>1. ListTypes'
      BY <1>1, <1>2, <1>4 DEF ListTypes
  <2>2. ASSUME writes = 0, NEW l \in Keys
        PROVE  /\ asked'[l] # None => AskedTrue(l, asked'[l])
               /\ cache'[l] # None => CachedTrue(l, cache'[l])
    <3>1. CASE l = k
        BY <1>1, <1>4, <2>2, <3>1
    <3>2. CASE l # k
        BY <1>1, <1>4, <2>2, <3>2 DEF ListTrue
    <3>. QED BY <3>1, <3>2
  <2>3. ListTrue'
      BY <1>2, <1>3, <2>2, SameList, SameRows DEF ListTrue
  <2>. QED BY <2>1, <2>3
<1>5. CASE Ask /\ k = Key
  <2>. DEFINE a == [total |-> None, rows |-> None]
  <2>1. asked' = [asked EXCEPT ![k] = a] /\ cache' = [cache EXCEPT ![k] = cache[k]]
      BY <1>1, <1>5 DEF Ask
  <2>2. a \in Asked /\ AskedTrue(k, a)
      BY DEF Asked, AskedTrue
  <2>. HIDE DEF a
  <2>3. cache[k] \in Cached \union {None} /\ (writes = 0 /\ cache[k] # None => CachedTrue(k, cache[k]))
      BY <1>1 DEF ListTrue
  <2>. QED BY <1>4, <2>1, <2>2, <2>3
<1>6. CASE CountRows(k)
  <2>. DEFINE n == Cardinality(Matching(k[1]))
              a == [asked[k] EXCEPT !.total = n]
  <2>1. n \in Nat
      BY RowTypes, FiniteSets
  <2>2. asked' = [asked EXCEPT ![k] = a] /\ cache' = [cache EXCEPT ![k] = cache[k]]
      BY <1>1, <1>6 DEF CountRows
  <2>3. asked[k] \in Asked /\ asked[k] # None
      BY <1>1, <1>6 DEF CountRows
  <2>4. a \in Asked /\ a.total = n /\ a.rows = asked[k].rows
      BY <2>1, <2>3 DEF Asked
  <2>5. writes = 0 => AskedTrue(k, a)
      BY <2>3, <2>4 DEF ListTrue, AskedTrue
  <2>. HIDE DEF a
  <2>6. cache[k] \in Cached \union {None} /\ (writes = 0 /\ cache[k] # None => CachedTrue(k, cache[k]))
      BY <1>1 DEF ListTrue
  <2>. QED BY <1>4, <2>2, <2>4, <2>5, <2>6
<1>7. CASE SelectRows(k)
  <2>1. PICK s \in Slices(k) : asked' = [asked EXCEPT ![k].rows = s]
      BY <1>7 DEF SelectRows
  <2>. DEFINE a == [asked[k] EXCEPT !.rows = s]
  <2>2. asked' = [asked EXCEPT ![k] = a] /\ cache' = [cache EXCEPT ![k] = cache[k]]
      BY <1>1, <1>7, <2>1 DEF SelectRows
  <2>3. asked[k] \in Asked /\ asked[k] # None /\ s \in Seq(Ids)
      BY <1>1, <1>7, SliceTypes DEF SelectRows
  <2>4. a \in Asked /\ a.rows = s /\ a.total = asked[k].total
      BY <2>3 DEF Asked
  <2>5. writes = 0 => AskedTrue(k, a)
      BY <2>3, <2>4 DEF ListTrue, AskedTrue
  <2>. HIDE DEF a
  <2>6. cache[k] \in Cached \union {None} /\ (writes = 0 /\ cache[k] # None => CachedTrue(k, cache[k]))
      BY <1>1 DEF ListTrue
  <2>. QED BY <1>4, <2>2, <2>4, <2>5, <2>6
<1>8. CASE Receive(k)
  <2>. DEFINE c == [filtered |-> k[1], page |-> k[2], total |-> asked[k].total, rows |-> asked[k].rows]
  <2>1. asked' = [asked EXCEPT ![k] = None] /\ cache' = [cache EXCEPT ![k] = c]
      BY <1>8 DEF Receive
  <2>2. /\ asked[k] \in Asked /\ asked[k] # None
        /\ asked[k].total # None /\ asked[k].rows # None
      BY <1>1, <1>8 DEF Receive
  <2>3. asked[k].total \in Nat /\ asked[k].rows \in Seq(Ids) /\ k[2] \in 1..MaxPage
        /\ k[1] \in BOOLEAN
      BY <2>2 DEF Asked, Keys
  <2>4. c \in Cached /\ c.filtered = k[1] /\ c.page = k[2] /\ c.total = asked[k].total /\ c.rows = asked[k].rows
      BY <2>3 DEF Cached
  <2>5. writes = 0 => CachedTrue(k, c)
      BY <2>2, <2>4 DEF ListTrue, AskedTrue, CachedTrue
  <2>. HIDE DEF c
  <2>. QED BY <1>4, <2>1, <2>4, <2>5
<1>. QED BY <1>5, <1>6, <1>7, <1>8 DEF KeyStep

LEMMA EmptyTells ==
    ASSUME Types, ListTrue
    PROVE  EmptyMeansNoMatch
<1>. DEFINE S == Matching(filtered)
            n == Cardinality(S)
<1>1. SUFFICES ASSUME writes = 0, ~hasty, Shown # None, Shown.rows = <<>>
               PROVE  Matching(Shown.filtered) = {}
    BY DEF EmptyMeansNoMatch
<1>2. CASE cache[Key] = None
    BY <1>1, <1>2 DEF Shown, ListTrue
<1>3. CASE cache[Key] # None
  <2>2. Key \in Keys /\ Key = <<filtered, page>> /\ page \in Nat \ {0}
      BY KeyTypes DEF Types, ListTypes, Key
  <2>3. Shown = cache[Key] /\ CachedTrue(Key, cache[Key]) /\ Key[1] = filtered
      BY <1>1, <1>3, <2>2 DEF Shown, ListTrue
  <2>4. Shown.rows \in Slices(<<filtered, page>>) /\ Shown.filtered = filtered
      BY <2>2, <2>3 DEF CachedTrue
  <2>5. n \in Nat /\ IsFiniteSet(S)
      BY RowTypes, FiniteSets
  <2>6. Len(Shown.rows) = 0
      BY <1>1
  <2>. HIDE DEF n, S
  <2>7. ASSUME Skip(page) < n PROVE FALSE
    <3>. DEFINE last == IF Skip(page) + PageSize <= n THEN Skip(page) + PageSize ELSE n
    <3>1. Len(Shown.rows) = IF Skip(page) < last THEN last - Skip(page) ELSE 0
        BY <2>2, <2>4, SliceRows DEF Types, n, S
    <3>2. Skip(page) \in Nat /\ PageSize \in Nat \ {0}
        BY <2>2, SkipTypes
    <3>3. last \in Nat /\ Skip(page) < last
        BY <2>5, <2>7, <3>2
    <3>. HIDE DEF last
    <3>. QED BY <2>6, <3>1, <3>2, <3>3
  <2>8. page = 1 => Skip(page) = 0
      BY TransactionsPageAssumption DEF Skip
  <2>9. page = 1 \/ page \in 1..PageCount(n)
    <3>1. page = 1 \/ page <= PageCount(n)
        BY <1>1 DEF ListTrue, OnList, n, S
    <3>2. PageCount(n) \in Nat
      <4>1. n + PageSize - 1 \in Nat /\ PageSize \in Nat \ {0}
          BY <2>5, TransactionsPageAssumption
      <4>. QED BY <4>1, Division DEF PageCount
    <3>. QED BY <2>2, <3>1, <3>2
  <2>10. n = 0
      BY <2>5, <2>7, <2>8, <2>9, PageIsInside
  <2>11. S = {}
      BY <2>5, <2>10, FS_EmptySet DEF n
  <2>. QED BY <2>4, <2>11 DEF S
<1>. QED BY <1>2, <1>3

\* The steps of the user.
LEMMA ViewStays ==
    ASSUME Types, ListTrue, UNCHANGED <<tableVars, cache, asked>>, ListTypes',
           writes = 0 /\ ~hasty' => OnList',
           hasty => hasty', previous' = previous \/ previous' = Shown
    PROVE  ListTrue'
<1>1. writes' = writes /\ \A f : Matching(f)' = Matching(f)
    BY SameRows DEF tableVars
<1>2. ASSUME writes = 0, ~hasty', previous' # None, previous'.rows = <<>>
      PROVE  Matching(previous'.filtered) = {}
    BY <1>2, EmptyTells DEF EmptyMeansNoMatch, ListTrue
<1>. QED BY <1>1, <1>2, SameList DEF ListTrue

LEMMA UserStays ==
    ASSUME Types, ListTrue, UNCHANGED tableVars,
           NextPage \/ PreviousPage \/ SetFilter \/ \E v \in {"list", "radar"} : SetView(v)
    PROVE  ListTypes' /\ ListTrue'
<1>1. /\ filtered \in BOOLEAN /\ page \in 1..MaxPage /\ hasty \in BOOLEAN /\ MaxPage \in Nat \ {0}
      /\ Key \in Keys /\ Key[1] = filtered /\ Key[2] = page
      /\ cache \in [Keys -> Cached \union {None}]
    BY KeyTypes, TransactionsPageAssumption DEF Types, ListTypes
<1>2. UNCHANGED <<cache, asked>>
    BY DEF NextPage, PreviousPage, SetFilter, SetView, GoTo
<1>3. ASSUME filtered' \in BOOLEAN, page' \in 1..MaxPage, hasty' \in BOOLEAN
      PROVE  ListTypes'
    BY <1>2, <1>3 DEF Types, ListTypes
<1>4. Matching(filtered)' = Matching(filtered) \/ filtered' # filtered
    BY SameRows
<1>5. CASE NextPage
  <2>1. /\ page' = page + 1 /\ page < MaxPage /\ filtered' = filtered
        /\ hasty' = (hasty \/ Placeholder) /\ previous' = Shown
        /\ Shown # None /\ Shown.page < TotalPages(Shown)
      BY <1>5 DEF NextPage, GoTo, Paginates
  <2>2. ListTypes'
    <3>1. page' \in 1..MaxPage
        BY <1>1, <2>1
    <3>2. hasty' \in BOOLEAN /\ filtered' \in BOOLEAN
        BY <1>1, <2>1, Zenon DEF Placeholder
    <3>. QED BY <1>3, <3>1, <3>2
  <2>3. ASSUME writes = 0, ~hasty' PROVE OnList'
    <3>1. cache[Key] # None /\ Shown = cache[Key]
        BY <2>1, <2>3 DEF Placeholder, Shown
    <3>2. /\ Shown.page = page /\ Shown.total = Cardinality(Matching(filtered))
        BY <1>1, <2>3, <3>1 DEF ListTrue, CachedTrue
    <3>3. page < PageCount(Cardinality(Matching(filtered)))
        BY <2>1, <3>2 DEF TotalPages, PageCount
    <3>. DEFINE m == PageCount(Cardinality(Matching(filtered)))
    <3>4. m \in Nat
      <4>1. Cardinality(Matching(filtered)) \in Nat /\ PageSize \in Nat \ {0}
          BY RowTypes, FiniteSets, TransactionsPageAssumption
      <4>2. Cardinality(Matching(filtered)) + PageSize - 1 \in Nat
          BY <4>1
      <4>. QED BY <4>1, <4>2, Division DEF PageCount
    <3>5. page' <= m
      <4>. HIDE DEF m
      <4>1. page < m
          BY <3>3 DEF m
      <4>. QED BY <1>1, <2>1, <3>4, <4>1
    <3>6. Matching(filtered)' = Matching(filtered)
        BY <1>4, <2>1
    <3>. QED BY <3>5, <3>6 DEF OnList, PageCount
  <2>. QED BY <1>2, <2>1, <2>2, <2>3, ViewStays
<1>6. CASE PreviousPage
  <2>1. /\ page' = (IF page > 1 THEN page - 1 ELSE 1) /\ filtered' = filtered
        /\ hasty' = (hasty \/ Placeholder) /\ previous' = Shown
      BY <1>6 DEF PreviousPage, GoTo
  <2>2. ListTypes' /\ page' <= page /\ page' \in Nat
      BY <1>1, <1>3, <2>1 DEF Placeholder
  <2>3. ASSUME writes = 0, ~hasty' PROVE OnList'
    <3>1. OnList /\ Matching(filtered)' = Matching(filtered)
        BY <1>4, <2>1, <2>3 DEF ListTrue
    <3>. DEFINE m == PageCount(Cardinality(Matching(filtered)))
    <3>2. m \in Nat
      <4>1. Cardinality(Matching(filtered)) \in Nat /\ PageSize \in Nat \ {0}
          BY RowTypes, FiniteSets, TransactionsPageAssumption
      <4>2. Cardinality(Matching(filtered)) + PageSize - 1 \in Nat
          BY <4>1
      <4>. QED BY <4>1, <4>2, Division DEF PageCount
    <3>3. page = 1 \/ page <= m
        BY <3>1 DEF OnList
    <3>4. page' = 1 \/ page' <= m
      <4>. HIDE DEF m
      <4>. QED BY <1>1, <2>1, <3>2, <3>3
    <3>. QED BY <3>1, <3>4 DEF OnList, PageCount
  <2>. QED BY <1>2, <2>1, <2>2, <2>3, ViewStays
<1>7. CASE SetFilter
  <2>1. filtered' = ~filtered /\ page' = 1 /\ hasty' = hasty /\ previous' = Shown
      BY <1>7 DEF SetFilter, FirstPage
  <2>2. ListTypes'
    <3>1. page' \in 1..MaxPage
        BY <1>1, <2>1
    <3>2. hasty' \in BOOLEAN /\ filtered' \in BOOLEAN
        BY <1>1, <2>1, Zenon
    <3>. QED BY <1>3, <3>1, <3>2
  <2>3. OnList'
      BY <2>1 DEF OnList
  <2>. QED BY <1>2, <2>1, <2>2, <2>3, ViewStays
<1>8. CASE \E v \in {"list", "radar"} : SetView(v)
  <2>1. UNCHANGED <<filtered, page, hasty, previous>>
      BY <1>8 DEF SetView
  <2>2. ListTypes'
      BY <1>1, <1>3, <2>1
  <2>3. writes = 0 /\ ~hasty' => OnList'
      BY <1>4, <2>1 DEF ListTrue, OnList
  <2>. QED BY <1>2, <2>1, <2>2, <2>3, ViewStays
<1>. QED BY <1>5, <1>6, <1>7, <1>8

LEMMA ListStays ==
    ASSUME Types, ListTrue, [Next]_vars
    PROVE  ListTypes' /\ ListTrue'
<1>1. CASE WriteStep
  <2>1. writes' > 0 /\ UNCHANGED listVars
      BY <1>1, WriteFacts DEF WriteStep
  <2>. QED BY <2>1 DEF Types, ListTypes, ListTrue, listVars
<1>2. CASE ListStep /\ UNCHANGED tableVars
    BY <1>2, AnswerStays, UserStays, KeyTypes DEF ListStep, Types
<1>3. CASE UNCHANGED <<tableVars, listVars>>
  <2>1. /\ UNCHANGED <<filtered, page, hasty, cache, asked, previous>>
        /\ Matching(filtered)' = Matching(filtered) /\ UNCHANGED tableVars
      BY <1>3, SameRows DEF listVars
  <2>2. ListTypes'
      BY <2>1 DEF Types, ListTypes
  <2>3. writes = 0 /\ ~hasty' => OnList'
      BY <2>1 DEF ListTrue, OnList
  <2>. QED BY <2>1, <2>2, <2>3, ViewStays
<1>. QED BY <1>1, <1>2, <1>3, Steps DEF vars, analyticsVars

-----------------------------------------------------------------------------
(* What the pages show.                                                    *)

LEMMA PagesTell ==
    ASSUME Types, ListTrue
    PROVE  PagesCover
<1>1. SUFFICES ASSUME OneOrder, writes = 0, NEW f \in BOOLEAN, Complete(f)
               PROVE  /\ SeenRows(f) = Matching(f)
                      /\ \A t \in Matching(f) :
                            Cardinality({p \in Seen(f) : t \in ToSet(cache[<<f, p>>].rows)}) = 1
    BY DEF PagesCover
<1>. DEFINE n == Cardinality(Matching(f))
            on(t, p) == t \in ToSet(cache[<<f, p>>].rows)
<1>2. MaxPage \in Nat \ {0} /\ Seen(f) \subseteq 1..MaxPage /\ TableTypes
    BY TransactionsPageAssumption DEF Seen, Types
<1>3. ASSUME NEW p \in Seen(f)
      PROVE  /\ p \in Nat \ {0} /\ cache[<<f, p>>].total = n
             /\ cache[<<f, p>>].rows \in Slices(<<f, p>>)
  <2>1. p \in 1..MaxPage /\ <<f, p>> \in Keys /\ cache[<<f, p>>] # None
      BY <1>3 DEF Seen, Keys
  <2>2. CachedTrue(<<f, p>>, cache[<<f, p>>])
      BY <1>1, <2>1 DEF ListTrue
  <2>. QED BY <1>2, <2>1, <2>2 DEF CachedTrue
<1>4. 1..PageCount(n) \subseteq Seen(f)
    BY <1>1, <1>3 DEF Complete, TotalPages, PageCount
<1>5. ASSUME NEW p \in Seen(f), NEW t
      PROVE  on(t, p) <=> /\ t \in Matching(f)
                          /\ Skip(p) <= Place(f, t) /\ Place(f, t) < Skip(p) + PageSize
    BY <1>1, <1>2, <1>3, PageRows
<1>6. ASSUME NEW t \in Matching(f) PROVE Place(f, t) \in 0..(n - 1)
  <2>1. Matching(f) \subseteq Ids /\ IsFiniteSet(Matching(f))
      BY RowTypes, FiniteSets
  <2>2. Later(f, t) \subseteq Matching(f) /\ t \notin Later(f, t)
    <3>1. txns[t] \in Txn
        BY <1>2, RowTypes DEF TableTypes, Tables, Live
    <3>2. txns[t].at \in Nat
        BY <3>1, AnalyticsAssumption DEF Txn
    <3>. QED BY <3>2 DEF Later
  <2>3. /\ Place(f, t) \in Nat /\ n \in Nat /\ Place(f, t) < n
      BY <1>6, <2>1, <2>2, SubsetSize DEF Place
  <2>. QED BY <2>3
<1>7. n \in Nat
    BY RowTypes, FiniteSets
<1>. HIDE DEF on, n
<1>8. ASSUME NEW t \in Matching(f)
      PROVE  \E p \in Seen(f) : {q \in Seen(f) : on(t, q)} = {p}
  <2>1. PICK p \in 1..PageCount(n) :
            Skip(p) <= Place(f, t) /\ Place(f, t) < Skip(p) + PageSize
      BY <1>6, <1>7, RowHasPage
  <2>2. p \in Seen(f) /\ on(t, p)
      BY <1>4, <1>5, <2>1
  <2>3. ASSUME NEW q \in Seen(f), on(t, q) PROVE q = p
    <3>1. Skip(q) <= Place(f, t) /\ Place(f, t) < Skip(q) + PageSize
        BY <1>5, <2>3
    <3>2. Place(f, t) \in Nat
        BY <1>6
    <3>. QED BY <1>3, <2>1, <2>2, <3>1, <3>2, RowHasOnePage
  <2>. QED BY <2>2, <2>3
<1>9. SeenRows(f) = Matching(f)
  <2>1. \A t : t \in SeenRows(f) <=> \E p \in Seen(f) : on(t, p)
      BY DEF SeenRows, on
  <2>. QED BY <1>5, <1>8, <2>1
<1>10. \A t \in Matching(f) : Cardinality({p \in Seen(f) : on(t, p)}) = 1
    BY <1>8, FS_Singleton
<1>. QED BY <1>9, <1>10 DEF on

-----------------------------------------------------------------------------
(* Sums. SumOf recurs on the groups of a report, one it chooses at a time; *)
(* a function that satisfies the same equation is the sum, by a smallest   *)
(* set of groups on which the two would differ.                            *)

AnyOf(s) == CHOOSE k \in s : TRUE

AddsUp(h, report, field) ==
    h = [s \in SUBSET DOMAIN report |->
            IF s = {} THEN 0 ELSE report[AnyOf(s)][field] + h[s \ {AnyOf(s)}]]

LEMMA SumIsRecursive ==
    ASSUME NEW report, NEW field
    PROVE  SumOf(report, field) = (CHOOSE h : AddsUp(h, report, field))[DOMAIN report]
BY DEF SumOf, MapThenSumSet, MapThenFoldSet, AddsUp, AnyOf

LEMMA AddsUpAt ==
    ASSUME NEW report, NEW field, NEW h, AddsUp(h, report, field), NEW s \in SUBSET DOMAIN report
    PROVE  /\ s = {} => h[s] = 0
           /\ s # {} => /\ AnyOf(s) \in s
                        /\ h[s] = report[AnyOf(s)][field] + h[s \ {AnyOf(s)}]
BY DEF AddsUp, AnyOf

LEMMA SumIs ==
    ASSUME NEW report, NEW field, IsFiniteSet(DOMAIN report), NEW g, AddsUp(g, report, field)
    PROVE  SumOf(report, field) = g[DOMAIN report]
<1>. DEFINE h   == CHOOSE x : AddsUp(x, report, field)
            K   == DOMAIN report
            Bad == {s \in SUBSET K : h[s] # g[s]}
<1>1. AddsUp(h, report, field)
    OBVIOUS
<1>2. SumOf(report, field) = h[K]
    BY SumIsRecursive
<1>. HIDE DEF h
<1>3. ASSUME Bad # {} PROVE FALSE
  <2>1. IsWellFoundedOn(StrictSubsetOrdering(K), SUBSET K)
      BY FS_FiniteSubsetsOfFinite, FS_StrictSubsetOrderingWellFounded
  <2>2. PICK T \in Bad : \A U \in Bad : <<U, T>> \notin StrictSubsetOrdering(K)
    <3>1. Bad \subseteq SUBSET K
        OBVIOUS
    <3>. HIDE DEF Bad, K
    <3>. QED BY <1>3, <2>1, <3>1, WFMin
  <2>. DEFINE x == AnyOf(T)
  <2>3. T \in SUBSET K /\ h[T] # g[T]
      OBVIOUS
  <2>4. T # {} /\ x \in T
      BY <1>1, <2>3, AddsUpAt
  <2>5. h[T \ {x}] # g[T \ {x}]
    <3>1. /\ h[T] = report[x][field] + h[T \ {x}]
          /\ g[T] = report[x][field] + g[T \ {x}]
        BY <1>1, <2>3, <2>4, AddsUpAt
    <3>. QED BY <2>3, <3>1
  <2>6. T \ {x} \in Bad
      BY <2>3, <2>5
  <2>7. <<T \ {x}, T>> \in StrictSubsetOrdering(K)
      BY <2>3, <2>4 DEF StrictSubsetOrdering
  <2>. QED BY <2>2, <2>6, <2>7
<1>4. h[K] = g[K]
    BY <1>3
<1>. QED BY <1>2, <1>4

\* The transactions of a key, of several keys, and the keys there are.
Group(S, key, k)    == {t \in S : key[t] = k}
Grouped(S, key, ks) == {t \in S : key[t] \in ks}
KeysOf(S, key)      == {key[t] : t \in S}

\* A report whose groups are counted by a key adds up to what has one of its keys.
LEMMA SumOfGroups ==
    ASSUME NEW report, NEW field, IsFiniteSet(DOMAIN report), NEW key, NEW S, IsFiniteSet(S),
           \A k \in DOMAIN report : report[k][field] = Cardinality(Group(S, key, k))
    PROVE  SumOf(report, field) = Cardinality(Grouped(S, key, DOMAIN report))
<1>. DEFINE K      == DOMAIN report
            In(s)  == Grouped(S, key, s)
            g      == [s \in SUBSET K |-> Cardinality(In(s))]
<1>1. ASSUME NEW s \in SUBSET K, s # {}
      PROVE  g[s] = report[AnyOf(s)][field] + g[s \ {AnyOf(s)}]
  <2>. DEFINE x == AnyOf(s)
  <2>1. x \in s
      BY <1>1 DEF AnyOf
  <2>. HIDE DEF x
  <2>2. In(s) = Group(S, key, x) \union In(s \ {x})
      BY <2>1 DEF Group, Grouped
  <2>3. Group(S, key, x) \intersect In(s \ {x}) = {}
      BY DEF Group, Grouped
  <2>4. \A T : T \subseteq S => IsFiniteSet(T) /\ Cardinality(T) \in Nat
      BY SubsetSize
  <2>5. Cardinality(In(s)) = Cardinality(Group(S, key, x)) + Cardinality(In(s \ {x}))
    <3>. DEFINE A == Group(S, key, x)
                B == In(s \ {x})
    <3>1. /\ A \subseteq S /\ B \subseteq S /\ In(s) = A \union B /\ A \intersect B = {}
        BY <2>2, <2>3 DEF Group, Grouped
    <3>. HIDE DEF A, B
    <3>2. /\ IsFiniteSet(A) /\ IsFiniteSet(B) /\ Cardinality(A) \in Nat /\ Cardinality(B) \in Nat
        BY <2>4, <3>1
    <3>3. Cardinality(A \union B) = Cardinality(A) + Cardinality(B) - Cardinality(A \intersect B)
        BY <3>2, FS_Union
    <3>4. Cardinality(A \intersect B) = 0
        BY <3>1, FS_EmptySet
    <3>5. Cardinality(In(s)) = Cardinality(A) + Cardinality(B)
      <4>. HIDE DEF In
      <4>. QED BY <3>1, <3>2, <3>3, <3>4
    <3>. QED BY <3>5 DEF A, B
  <2>6. x \in K
      BY <2>1
  <2>. QED BY <2>5, <2>6 DEF x
<1>2. g[{}] = 0
  <2>1. In({}) = {}
      BY DEF Grouped
  <2>. QED BY <2>1, FS_EmptySet
<1>3. AddsUp(g, report, field)
    BY <1>1, <1>2 DEF AddsUp
<1>4. SumOf(report, field) = g[K]
  <2>. HIDE DEF g
  <2>. QED BY <1>3, SumIs
<1>. QED BY <1>4

LEMMA ImageIsFinite ==
    ASSUME NEW S, IsFiniteSet(S), NEW key PROVE IsFiniteSet(KeysOf(S, key))
<1>. DEFINE T == KeysOf(S, key)
            g == [t \in S |-> key[t]]
<1>1. g \in Surjection(S, T)
    BY DEF Surjection, KeysOf
<1>. HIDE DEF g
<1>. QED BY <1>1, FS_Surjection

-----------------------------------------------------------------------------
(* What a figure of a report is of.                                        *)

Counters == {"transactions", "scored", "critical"}
Part(f) == CASE f = "transactions" -> Live [] f = "scored" -> Scored
             [] f = "critical" -> OfLevel("CRITICAL") [] f = "countries" -> Countries
Now(f)  == Cardinality(Part(f))

LEMMA LiveTypes ==
    ASSUME Types
    PROVE  /\ \A t \in Live : txns[t] \in Txn /\ txns[t].at \in Nat /\ Day(t) \in Int
           /\ \A S : S \subseteq Live => IsFiniteSet(S) /\ Cardinality(S) \in Nat
           /\ \A f \in Counters : Part(f) \subseteq Live
           /\ Scored \subseteq Live /\ \A l : OfLevel(l) \subseteq Live
<1>1. ASSUME NEW t \in Live PROVE txns[t] \in Txn /\ txns[t].at \in Nat /\ Day(t) \in Int
  <2>1. txns[t] \in Txn
      BY DEF Live, Types, TableTypes, Tables
  <2>2. txns[t].at \in Nat /\ HoursPerDay \in Nat \ {0}
      BY <2>1, AnalyticsAssumption DEF Txn
  <2>. QED BY <2>1, <2>2 DEF Day
<1>2. ASSUME NEW S, S \subseteq Live PROVE IsFiniteSet(S) /\ Cardinality(S) \in Nat
    BY <1>2, FiniteSets, RowTypes
<1>. QED BY <1>1, <1>2 DEF Part, Counters, Scored, OfLevel

LEMMA CountriesFinite ==
    ASSUME NEW S, IsFiniteSet(S), NEW key, NEW C, C = KeysOf(S, key) \ {None}
    PROVE  IsFiniteSet(C) /\ Cardinality(C) \in Nat
BY ImageIsFinite, SubsetSize

LEMMA NowTypes ==
    ASSUME Types
    PROVE  /\ IsFiniteSet(Countries)
           /\ \A f \in Fields : Now(f) \in Nat
<1>1. IsFiniteSet(Countries) /\ Cardinality(Countries) \in Nat
  <2>. DEFINE key == [t \in Live |-> Country(t)]
  <2>1. Countries = KeysOf(Live, key) \ {None}
      BY DEF Countries, KeysOf
  <2>2. IsFiniteSet(Live)
      BY LiveTypes
  <2>. HIDE DEF key
  <2>. QED BY <2>1, <2>2, CountriesFinite
<1>. QED BY <1>1, LiveTypes DEF Fields, Now, Part, Counters

\* A write moves a figure by one at most.
LEMMA PartsMove ==
    ASSUME Types, TableTypes', NEW t, NEW r, RowWrite(t, r), NEW f \in Fields
    PROVE  Now(f) \in Nat /\ Now(f)' \in Nat /\ Within(1, Now(f)', Now(f))
<1>1. /\ \A u \in Ids \ {t} : txns'[u] = txns[u]
      /\ txns'[t] = r
      /\ txns[t] # None => txns[t].sender = r.sender
    BY WriteFacts
<1>2. /\ Live' \ {t} = Live \ {t} /\ Scored' \ {t} = Scored \ {t}
      /\ \A l : OfLevel(l)' \ {t} = OfLevel(l) \ {t}
      /\ Live' \subseteq Ids /\ Scored' \subseteq Ids /\ \A l : OfLevel(l)' \subseteq Ids
      /\ Live \subseteq Ids /\ Scored \subseteq Ids /\ \A l : OfLevel(l) \subseteq Ids
    BY OneRowMoves, RowTypes, LiveTypes
<1>3. /\ Near(Live', Live, 1) /\ Near(Scored', Scored, 1)
      /\ Near(OfLevel("CRITICAL")', OfLevel("CRITICAL"), 1)
  <2>1. ASSUME NEW S, NEW T, S \ {t} = T \ {t}, S \subseteq Ids, T \subseteq Ids
        PROVE  Near(S, T, 1)
      BY <2>1, FiniteSets, NearByOne
  <2>. QED BY <1>2, <2>1
<1>4. Near(Countries', Countries, 1)
  <2>. DEFINE c == CountryOf[r.sender]
  <2>1. \A u \in Live : u # t => Country(u)' = Country(u)
      BY <1>1, <1>2 DEF Country
  <2>2. Country(t)' = c /\ (t \in Live => Country(t) = c)
      BY <1>1 DEF Country, Live
  <2>3. Countries' \ {c} = Countries \ {c}
      BY <1>2, <2>1, <2>2 DEF Countries
  <2>4. IsFiniteSet(Countries) /\ IsFiniteSet(Countries')
    <3>1. IsFiniteSet(Live')
        BY <1>2, FiniteSets
    <3>. DEFINE key == [u \in Live' |-> Country(u)']
    <3>2. Countries' = KeysOf(Live', key) \ {None}
        BY DEF Countries, KeysOf
    <3>. HIDE DEF key
    <3>3. IsFiniteSet(Countries')
        BY <3>1, <3>2, CountriesFinite
    <3>. QED BY <3>3, NowTypes
  <2>. QED BY <2>3, <2>4, NearByOne
<1>5. Near(Part(f)', Part(f), 1)
    BY <1>3, <1>4 DEF Part, Fields
<1>. QED BY <1>5 DEF Near, Now

-----------------------------------------------------------------------------
(* What the queries read.                                                  *)

\* No figure exceeds what there is, and those of everything are all there is.
IsRead(figures, whole) ==
    /\ DOMAIN figures \subseteq Fields /\ whole \subseteq DOMAIN figures
    /\ \A f \in DOMAIN figures : figures[f] \in Nat /\ figures[f] <= Now(f)
    /\ \A f \in whole : figures[f] = Now(f)

LEMMA CountsOf ==
    ASSUME NEW S, S \subseteq Live, NEW f \in Counters
    PROVE  Counts(S)[f] = Cardinality(S \intersect Part(f))
<1>1. S \intersect Live = S
    OBVIOUS
<1>2. CASE f = "transactions"
    BY <1>1, <1>2 DEF Counts, Part
<1>3. CASE f = "scored"
    BY <1>3 DEF Counts, Part
<1>4. CASE f = "critical"
    BY <1>4 DEF Counts, Part
<1>. QED BY <1>2, <1>3, <1>4 DEF Counters

LEMMA KeysFinite ==
    ASSUME Types, NEW key PROVE IsFiniteSet(KeysOf(Live, key))
BY LiveTypes, ImageIsFinite

\* Groups of the live transactions by a key add up to those of the groups' keys.
LEMMA GroupsAddUp ==
    ASSUME Types, NEW key, NEW K, K \subseteq KeysOf(Live, key), NEW f \in Counters,
           NEW report, report = [k \in K |-> Counts(Group(Live, key, k))]
    PROVE  SumOf(report, f) = Cardinality(Grouped(Part(f), key, K))
<1>1. IsFiniteSet(K)
    BY KeysFinite, FS_Subset
<1>2. DOMAIN report = K
    OBVIOUS
<1>3. ASSUME NEW k \in K PROVE report[k][f] = Cardinality(Group(Part(f), key, k))
  <2>1. /\ Group(Live, key, k) \intersect Part(f) = Group(Part(f), key, k)
        /\ Group(Live, key, k) \subseteq Live
      BY LiveTypes DEF Group
  <2>2. report[k] = Counts(Group(Live, key, k))
      OBVIOUS
  <2>. QED BY <2>1, <2>2, CountsOf
<1>4. IsFiniteSet(Part(f))
    BY LiveTypes
<1>. QED BY <1>1, <1>2, <1>3, <1>4, SumOfGroups

\* Groups of some of the keys count nothing twice; groups of all count everything.
LEMMA GroupsAreRead ==
    ASSUME Types, NEW key, NEW K, K \subseteq KeysOf(Live, key), NEW f \in Counters,
           NEW report, report = [k \in K |-> Counts(Group(Live, key, k))]
    PROVE  /\ SumOf(report, f) \in Nat /\ SumOf(report, f) <= Now(f)
           /\ K = KeysOf(Live, key) => SumOf(report, f) = Now(f)
<1>. DEFINE G == Grouped(Part(f), key, K)
<1>1. SumOf(report, f) = Cardinality(G)
    BY GroupsAddUp
<1>2. G \subseteq Part(f) /\ IsFiniteSet(Part(f)) /\ (K = KeysOf(Live, key) => G = Part(f))
    BY LiveTypes DEF Grouped, KeysOf
<1>3. Cardinality(G) \in Nat /\ Cardinality(G) <= Cardinality(Part(f))
    BY <1>2, SubsetSize
<1>. QED BY <1>1, <1>2, <1>3 DEF Now

\* The oldest days are asked for: all of them, when there are fewer.
LEMMA TrendIsRead ==
    ASSUME Types, NEW days \in Nat, NEW f \in Counters
    PROVE  /\ SumOf(getTrend(days), f) \in Nat /\ SumOf(getTrend(days), f) <= Now(f)
           /\ Cardinality(DOMAIN getTrend(days)) < days => SumOf(getTrend(days), f) = Now(f)
<1>. DEFINE key == [t \in Live |-> Day(t)]
            K   == KeysOf(Live, key)
<1>1. K = {Day(t) : t \in Live} /\ \A k : Group(Live, key, k) = {t \in Live : Day(t) = k}
    BY DEF KeysOf, Group
<1>. HIDE DEF key
<1>2. K \subseteq Int /\ IsFiniteSet(K)
    BY <1>1, LiveTypes, KeysFinite
<1>. DEFINE all    == [k \in K |-> Counts(Group(Live, key, k))]
            before == [b \in K |-> {e \in K : e < b}]
            D      == {b \in K : Cardinality(before[b]) < days}
            trend  == [k \in D |-> Counts(Group(Live, key, k))]
<1>3. GroupBy(Day) = all
    BY <1>1 DEF GroupBy
<1>4. Orderly(K, before)
    BY <1>2 DEF Orderly
<1>5. Cardinality(D) \in Nat /\ (Cardinality(D) = days \/ D = K)
  <2>1. D = {b \in K : Cardinality(before[b]) < days}
      OBVIOUS
  <2>. HIDE DEF D, before, K
  <2>. QED BY <1>2, <1>4, <2>1, FirstRanks
<1>6. getTrend(days) = trend
  <2>1. DOMAIN all = K /\ \A k \in K : all[k] = Counts(Group(Live, key, k))
      OBVIOUS
  <2>. QED BY <1>3, <2>1 DEF getTrend
<1>7. D \subseteq K /\ DOMAIN trend = D
    OBVIOUS
<1>. HIDE DEF D
<1>8. /\ SumOf(trend, f) \in Nat /\ SumOf(trend, f) <= Now(f)
      /\ D = K => SumOf(trend, f) = Now(f)
    BY <1>7, GroupsAreRead
<1>9. Cardinality(D) < days => D = K
    BY <1>5
<1>. QED BY <1>6, <1>7, <1>8, <1>9

LEMMA HoursAreRead ==
    ASSUME Types, NEW f \in Counters
    PROVE  SumOf(getHourlyRisk, f) \in Nat /\ SumOf(getHourlyRisk, f) = Now(f)
<1>. DEFINE key == [t \in Live |-> Hour(t)]
<1>1. /\ KeysOf(Live, key) = {Hour(t) : t \in Live}
      /\ \A k : Group(Live, key, k) = {t \in Live : Hour(t) = k}
    BY DEF KeysOf, Group
<1>. HIDE DEF key
<1>2. getHourlyRisk = [k \in KeysOf(Live, key) |-> Counts(Group(Live, key, k))]
    BY <1>1 DEF getHourlyRisk, GroupBy
<1>. QED BY <1>2, GroupsAreRead

\* What the map leaves out is what has no location.
LEMMA CountriesAreRead ==
    ASSUME Types
    PROVE  /\ \A f \in Counters : SumOf(getGeoRisk, f) \in Nat /\ SumOf(getGeoRisk, f) <= Now(f)
           /\ DOMAIN getGeoRisk = Countries
<1>. DEFINE key == [t \in Live |-> Country(t)]
            K   == KeysOf(Live, key) \ {None}
<1>1. /\ KeysOf(Live, key) = {Country(t) : t \in Live}
      /\ \A k : Group(Live, key, k) = {t \in Live : Country(t) = k}
    BY DEF KeysOf, Group
<1>. HIDE DEF key
<1>2. getGeoRisk = [k \in K |-> Counts(Group(Live, key, k))]
    BY <1>1 DEF getGeoRisk, GroupBy
<1>3. K \subseteq KeysOf(Live, key)
    OBVIOUS
<1>4. ASSUME NEW f \in Counters PROVE SumOf(getGeoRisk, f) \in Nat /\ SumOf(getGeoRisk, f) <= Now(f)
  <2>. HIDE DEF K
  <2>. QED BY <1>2, <1>3, GroupsAreRead
<1>5. DOMAIN getGeoRisk = Countries
    BY <1>1, <1>2 DEF Countries
<1>. QED BY <1>4, <1>5

LEMMA ReportsAreRead ==
    ASSUME Types
    PROVE  /\ \A days \in Nat :
                 LET trend == getTrend(days)
                 IN  IsRead(Added(trend, Counters),
                            IF Cardinality(DOMAIN trend) < days THEN Counters ELSE {})
           /\ IsRead(Added(getHourlyRisk, {"transactions", "critical"}),
                     {"transactions", "critical"})
           /\ IsRead([f \in Fields |-> IF f = "countries" THEN Cardinality(DOMAIN getGeoRisk)
                                       ELSE SumOf(getGeoRisk, f)], {"countries"})
           /\ IsRead(getDistribution, {"scored", "critical"})
           /\ IsRead(getPublicStats, Fields)
           /\ IsRead(Counts(Live), Counters)
<1>1. /\ Counters \subseteq Fields /\ \A f \in Fields : f = "countries" \/ f \in Counters
      /\ {"transactions", "critical"} \subseteq Counters /\ "countries" \in Fields
      /\ {"scored", "critical"} \subseteq Counters
      /\ "countries" \notin Counters
    BY DEF Counters, Fields
<1>2. \A f \in Fields : Now(f) \in Nat
    BY NowTypes
<1>3. /\ Now("transactions") = Cardinality(Live) /\ Now("scored") = Cardinality(Scored)
      /\ Now("critical") = Cardinality(OfLevel("CRITICAL"))
      /\ Now("countries") = Cardinality(Countries)
    BY DEF Now, Part
<1>4. ASSUME NEW days \in Nat
      PROVE  IsRead(Added(getTrend(days), Counters),
                    IF Cardinality(DOMAIN getTrend(days)) < days THEN Counters ELSE {})
    BY <1>1, TrendIsRead DEF IsRead, Added
<1>5. IsRead(Added(getHourlyRisk, {"transactions", "critical"}), {"transactions", "critical"})
  <2>. DEFINE F == {"transactions", "critical"}
  <2>1. F \subseteq Counters /\ F \subseteq Fields
      BY <1>1
  <2>. HIDE DEF F
  <2>2. IsRead(Added(getHourlyRisk, F), F)
      BY <1>1, <1>2, <2>1, HoursAreRead DEF IsRead, Added
  <2>. QED BY <2>2 DEF F
<1>6. IsRead([f \in Fields |-> IF f = "countries" THEN Cardinality(DOMAIN getGeoRisk)
                               ELSE SumOf(getGeoRisk, f)], {"countries"})
    BY <1>1, <1>2, <1>3, CountriesAreRead DEF IsRead
<1>7. IsRead(getDistribution, {"scored", "critical"})
  <2>1. {t \in Scored : txns[t].level = "CRITICAL"} = OfLevel("CRITICAL")
    <3>1. None # "CRITICAL"
        BY AnalyticsAssumption DEF Levels
    <3>. QED BY <3>1 DEF Scored, OfLevel
  <2>2. /\ DOMAIN getDistribution = {"scored", "critical"}
        /\ getDistribution["scored"] = Now("scored")
        /\ getDistribution["critical"] = Now("critical")
      BY <1>3, <2>1 DEF getDistribution, Predicted
  <2>. QED BY <1>1, <1>2, <2>2 DEF IsRead
<1>8. IsRead(getPublicStats, Fields)
  <2>1. /\ DOMAIN getPublicStats = Fields
        /\ \A f \in Fields : getPublicStats[f] = Now(f)
      BY <1>3 DEF getPublicStats, Fields
  <2>. QED BY <1>2, <2>1 DEF IsRead
<1>9. IsRead(Counts(Live), Counters)
  <2>1. /\ DOMAIN Counts(Live) = Counters
        /\ \A f \in Counters : Counts(Live)[f] = Now(f)
    <3>1. DOMAIN Counts(Live) = Counters
        BY DEF Counts, Counters
    <3>2. ASSUME NEW f \in Counters PROVE Counts(Live)[f] = Now(f)
      <4>1. Live \intersect Part(f) = Part(f)
          BY LiveTypes
      <4>. QED BY <4>1, CountsOf DEF Now
    <3>. QED BY <3>1, <3>2
  <2>. QED BY <1>1, <1>2, <2>1 DEF IsRead
<1>. QED BY <1>4, <1>5, <1>6, <1>7, <1>8, <1>9

\* The two windows, which no transaction is in both of.
LEMMA WindowsAreRead ==
    ASSUME Types, NEW anchor, anchor \subseteq Nat, \A m, n \in anchor : m = n,
           NEW current, current = Counts(Current(anchor, HoursPerDay)),
           NEW before, before = Counts(Previous(anchor, HoursPerDay))
    PROVE  /\ IsRead([f \in {"transactions", "critical"} |-> current[f] + before[f]], {})
           /\ current.transactions = Cardinality(Current(anchor, HoursPerDay))
           /\ current.transactions \in Nat
<1>. DEFINE w == HoursPerDay
            A == Current(anchor, w)
            B == Previous(anchor, w)
<1>1. w \in Nat \ {0} /\ \A t \in Live : txns[t].at \in Nat
    BY LiveTypes, AnalyticsAssumption
<1>2. A \subseteq Live /\ B \subseteq Live /\ A \intersect B = {}
  <2>1. A \subseteq Live /\ B \subseteq Live
      BY DEF Current, Previous
  <2>2. ASSUME NEW t \in A, t \in B PROVE FALSE
    <3>1. PICK m \in anchor : txns[t].at > m - w
        BY DEF Current
    <3>2. PICK n \in anchor : txns[t].at <= n - w
        BY <2>2 DEF Previous
    <3>3. m = n /\ m \in Nat /\ txns[t].at \in Nat
        BY <1>1, <2>1, <3>1, <3>2
    <3>. HIDE DEF w
    <3>. QED BY <1>1, <3>1, <3>2, <3>3
  <2>. QED BY <2>1, <2>2
<1>. HIDE DEF A, B
<1>3. ASSUME NEW f \in Counters
      PROVE  /\ current[f] \in Nat /\ before[f] \in Nat
             /\ current[f] + before[f] <= Now(f)
  <2>. DEFINE X == A \intersect Part(f)
              Y == B \intersect Part(f)
  <2>1. current[f] = Cardinality(X) /\ before[f] = Cardinality(Y)
      BY <1>2, CountsOf DEF A, B
  <2>2. X \intersect Y = {} /\ X \union Y \subseteq Part(f) /\ IsFiniteSet(Part(f))
        /\ X \subseteq Live /\ Y \subseteq Live
      BY <1>2, LiveTypes
  <2>. HIDE DEF X, Y
  <2>3. IsFiniteSet(X) /\ IsFiniteSet(Y)
      BY <2>2, LiveTypes
  <2>4. /\ Cardinality(X) \in Nat /\ Cardinality(Y) \in Nat
        /\ Cardinality(X \union Y) = Cardinality(X) + Cardinality(Y)
        /\ Cardinality(X \union Y) <= Cardinality(Part(f))
      BY <2>2, <2>3, DisjointSizes, SubsetSize
  <2>. QED BY <2>1, <2>4 DEF Now
<1>4. {"transactions", "critical"} \subseteq Counters /\ {"transactions", "critical"} \subseteq Fields
    BY DEF Counters, Fields
<1>5. IsRead([f \in {"transactions", "critical"} |-> current[f] + before[f]], {})
  <2>. DEFINE F == {"transactions", "critical"}
  <2>1. F \subseteq Counters /\ F \subseteq Fields
      BY <1>4
  <2>. HIDE DEF F
  <2>2. IsRead([f \in F |-> current[f] + before[f]], {})
      BY <1>3, <2>1 DEF IsRead
  <2>. QED BY <2>2 DEF F
<1>6. current.transactions = Cardinality(A)
    BY DEF Counts, A
<1>7. Cardinality(A) \in Nat
    BY <1>2, LiveTypes
<1>. QED BY <1>5, <1>6, <1>7 DEF A

-----------------------------------------------------------------------------
(* The reports.                                                            *)

\* A figure is of what there is now, but for a row for each write since.
AnswerTrue(x) ==
    /\ x.at \in Nat /\ x.at <= writes
    /\ DOMAIN x.figures \subseteq Fields /\ x.whole \subseteq DOMAIN x.figures
    /\ \A f \in DOMAIN x.figures :
          x.figures[f] \in Nat /\ x.figures[f] <= Now(f) + (writes - x.at)
    /\ \A f \in x.whole : Now(f) <= x.figures[f] + (writes - x.at)

Apart(x, y) == IF x.at > y.at THEN x.at - y.at ELSE y.at - x.at
AgreeOn(x, y) ==
    \A f \in DOMAIN x.figures \intersect y.whole : x.figures[f] <= y.figures[f] + Apart(x, y)

AnswersTrue ==
    /\ DOMAIN answers = Queries
    /\ \A q \in Queries : answers[q] # None => AnswerTrue(answers[q])
    /\ \A p, q \in Queries :
          answers[p] # None /\ answers[q] # None => AgreeOn(answers[p], answers[q])

\* The anchor is the newest transaction's time, if nobody has written since.
Newest ==
    LET times == {txns[t].at : t \in Live}
    IN  {n \in times : \A m \in times : m <= n}

SummaryTrue ==
    summary # None =>
        /\ \A m, n \in summary.anchor : m = n
        /\ summary.pc = "periods" =>
              summary.at <= writes /\ (summary.at = writes => summary.anchor = Newest)
        /\ summary.pc = "answered" /\ summary.late = 0 =>
              (summary.current = 0 <=> summary.anchor = {})

\* Of two answers that are true of what there is now, one of them read now.
LEMMA FreshAgrees ==
    ASSUME Types, NEW x, NEW y, AnswerTrue(x), AnswerTrue(y), x.at = writes \/ y.at = writes
    PROVE  AgreeOn(x, y)
<1>1. SUFFICES ASSUME NEW f \in DOMAIN x.figures, f \in y.whole
               PROVE  x.figures[f] <= y.figures[f] + Apart(x, y)
    BY DEF AgreeOn
<1>2. /\ x.figures[f] \in Nat /\ x.figures[f] <= Now(f) + (writes - x.at)
      /\ y.figures[f] \in Nat /\ Now(f) <= y.figures[f] + (writes - y.at)
      /\ x.at \in Nat /\ x.at <= writes /\ y.at \in Nat /\ y.at <= writes
    BY <1>1 DEF AnswerTrue
<1>3. Now(f) \in Nat /\ writes \in Nat
    BY <1>1, NowTypes DEF Types, TableTypes, AnswerTrue
<1>. QED BY <1>2, <1>3 DEF Apart

LEMMA SameNow ==
    ASSUME UNCHANGED tableVars
    PROVE  /\ writes' = writes /\ \A f : Now(f)' = Now(f)
           /\ Newest' = Newest
           /\ \A x : AnswerTrue(x)' <=> AnswerTrue(x)
<1>1. /\ UNCHANGED txns /\ writes' = writes /\ Live' = Live /\ Scored' = Scored
      /\ Countries' = Countries /\ \A l : OfLevel(l)' = OfLevel(l)
    BY SameRows DEF tableVars, Countries, Country, OfLevel
<1>2. ASSUME NEW f PROVE Now(f)' = Now(f)
    BY <1>1 DEF Now, Part
<1>. QED BY <1>1, <1>2 DEF AnswerTrue, Newest

LEMMA AnswerIsTrue ==
    ASSUME Types, AnswersTrue, UNCHANGED tableVars, NEW q \in Queries,
           NEW figures, NEW whole, IsRead(figures, whole), Answers(q, figures, whole)
    PROVE  AnswersTrue'
<1>. DEFINE z == [figures |-> figures, whole |-> whole, at |-> writes]
<1>1. writes \in Nat /\ \A f \in Fields : Now(f) \in Nat
    BY NowTypes DEF Types, TableTypes
<1>2. z.figures = figures /\ z.whole = whole /\ z.at = writes
    OBVIOUS
<1>3. answers' = [answers EXCEPT ![q] = z] /\ DOMAIN answers = Queries
    BY DEF Answers, AnswersTrue
<1>. HIDE DEF z
<1>4. AnswerTrue(z)
    BY <1>1, <1>2 DEF AnswerTrue, IsRead
<1>5. ASSUME NEW p \in Queries, answers'[p] # None
      PROVE  AnswerTrue(answers'[p]) /\ (p = q => answers'[p] = z)
             /\ (p # q => answers'[p] = answers[p])
    BY <1>3, <1>4, <1>5 DEF AnswersTrue
<1>6. ASSUME NEW p \in Queries, NEW o \in Queries, answers'[p] # None, answers'[o] # None
      PROVE  AgreeOn(answers'[p], answers'[o])
  <2>1. CASE p = q \/ o = q
      BY <1>2, <1>5, <1>6, <2>1, FreshAgrees
  <2>2. CASE p # q /\ o # q
      BY <1>5, <1>6, <2>2 DEF AnswersTrue
  <2>. QED BY <2>1, <2>2
<1>7. \A x, y : AgreeOn(x, y)' <=> AgreeOn(x, y)
    BY DEF AgreeOn, Apart
<1>. QED BY <1>3, <1>5, <1>6, <1>7, SameNow DEF AnswersTrue

LEMMA ReportsWritten ==
    ASSUME Types, TableTypes', AnswersTrue, SummaryTrue, WriteStep
    PROVE  (summary \in Summary \union {None})' /\ AnswersTrue' /\ SummaryTrue'
<1>1. PICK t, r : RowWrite(t, r)
    BY DEF WriteStep
<1>2. answers' = answers /\ summary' = summary /\ writes' = writes + 1 /\ writes \in Nat
    BY <1>1, WriteFacts DEF reportVars
<1>3. \A f \in Fields : Now(f) \in Nat /\ Now(f)' \in Nat /\ Within(1, Now(f)', Now(f))
    BY <1>1, PartsMove
<1>4. ASSUME NEW q \in Queries, answers[q] # None PROVE AnswerTrue(answers[q])'
  <2>. DEFINE x == answers[q]
  <2>1. AnswerTrue(x)
      BY <1>4 DEF AnswersTrue
  <2>2. x' = x
      BY <1>2
  <2>. HIDE DEF x
  <2>3. x.at \in Nat /\ x.at <= writes
      BY <2>1 DEF AnswerTrue
  <2>4. ASSUME NEW f \in DOMAIN x.figures
        PROVE  f \in Fields /\ x.figures[f] \in Nat /\ x.figures[f] <= Now(f)' + (writes' - x.at)
    <3>1. f \in Fields /\ x.figures[f] \in Nat /\ x.figures[f] <= Now(f) + (writes - x.at)
        BY <2>1 DEF AnswerTrue
    <3>. QED BY <1>2, <1>3, <2>3, <3>1 DEF Within
  <2>5. ASSUME NEW f \in x.whole PROVE Now(f)' <= x.figures[f] + (writes' - x.at)
    <3>1. f \in DOMAIN x.figures /\ Now(f) <= x.figures[f] + (writes - x.at)
        BY <2>1 DEF AnswerTrue
    <3>2. f \in Fields /\ x.figures[f] \in Nat
        BY <2>4, <3>1
    <3>. QED BY <1>2, <1>3, <2>3, <3>1, <3>2 DEF Within
  <2>6. x.at <= writes' /\ DOMAIN x.figures \subseteq Fields /\ x.whole \subseteq DOMAIN x.figures
      BY <1>2, <2>1, <2>3 DEF AnswerTrue
  <2>7. AnswerTrue(x)'
      BY <2>2, <2>3, <2>4, <2>5, <2>6 DEF AnswerTrue
  <2>. QED BY <2>7 DEF x
<1>5. AnswersTrue'
    BY <1>2, <1>4 DEF AnswersTrue, AgreeOn, Apart
<1>6. summary' \in Summary \union {None}
    BY <1>2 DEF Types, AnswerTypes
<1>7. summary # None => summary.at \in Nat
    BY DEF Types, AnswerTypes, Summary
<1>8. SummaryTrue'
    BY <1>2, <1>7 DEF SummaryTrue
<1>. QED BY <1>5, <1>6, <1>8

LEMMA PeriodsRead ==
    ASSUME Types, AnswersTrue, SummaryTrue, SelectPeriods
    PROVE  (summary \in Summary)' /\ AnswersTrue' /\ SummaryTrue'
<1>. DEFINE anchor   == summary.anchor
            current  == Counts(Current(anchor, HoursPerDay))
            before   == Counts(Previous(anchor, HoursPerDay))
            n        == current.transactions
            d        == writes - summary.at
<1>1. /\ summary # None /\ summary.pc = "periods" /\ UNCHANGED tableVars
      /\ Answers("periods", [f \in {"transactions", "critical"} |-> current[f] + before[f]], {})
      /\ summary' = [summary EXCEPT !.pc = "answered", !.late = d, !.current = n]
    BY DEF SelectPeriods
<1>2. /\ summary \in Summary /\ anchor \subseteq Nat /\ \A k, m \in anchor : k = m
      /\ summary.at <= writes /\ (summary.at = writes => anchor = Newest)
      /\ summary.at \in Nat /\ writes \in Nat
    BY <1>1 DEF Types, TableTypes, AnswerTypes, Summary, SummaryTrue
<1>3. /\ IsRead([f \in {"transactions", "critical"} |-> current[f] + before[f]], {})
      /\ n = Cardinality(Current(anchor, HoursPerDay)) /\ n \in Nat
    BY <1>2, WindowsAreRead
<1>4. AnswersTrue'
  <2>1. "periods" \in Queries
      BY DEF Queries
  <2>. QED BY <1>1, <1>3, <2>1, AnswerIsTrue
<1>5. ASSUME d = 0 PROVE n = 0 <=> anchor = {}
  <2>. DEFINE C == Current(anchor, HoursPerDay)
  <2>1. anchor = Newest
      BY <1>2, <1>5
  <2>2. IsFiniteSet(C)
      BY LiveTypes DEF Current
  <2>3. n = 0 <=> C = {}
      BY <1>3, <2>2, FS_EmptySet
  <2>4. anchor = {} => C = {}
      BY DEF Current
  <2>5. ASSUME NEW k \in anchor PROVE C # {}
    <3>1. PICK t \in Live : txns[t].at = k
        BY <2>1 DEF Newest
    <3>2. k > k - HoursPerDay
        BY <1>2, AnalyticsAssumption
    <3>. QED BY <3>1, <3>2 DEF Current
  <2>. QED BY <2>3, <2>4, <2>5
<1>6. d \in Nat
    BY <1>2
<1>. HIDE DEF n, d
<1>7. /\ summary' \in Summary /\ summary'.pc = "answered" /\ summary'.anchor = anchor
      /\ summary'.current = n /\ summary'.late = d
    BY <1>1, <1>2, <1>3, <1>6 DEF Summary
<1>8. SummaryTrue'
    BY <1>2, <1>5, <1>7 DEF SummaryTrue
<1>. QED BY <1>4, <1>7, <1>8

LEMMA ReportsRead ==
    ASSUME Types, AnswersTrue, SummaryTrue, ReportStep
    PROVE  (summary \in Summary \union {None})' /\ AnswersTrue' /\ SummaryTrue'
<1>1. CASE AskReport
  <2>1. /\ UNCHANGED <<tableVars, summary>>
        /\ \/ \E days \in {1, Cardinality(Ids) + 1} : AskTrend(days)
           \/ AskHours \/ AskCountries \/ AskDistribution \/ AskPublicStats
      BY <1>1 DEF AskReport
  <2>2. {"totals", "periods", "distribution", "trend", "hours", "countries", "public"} \subseteq Queries
      BY DEF Queries
  <2>3. ASSUME NEW days \in {1, Cardinality(Ids) + 1}, AskTrend(days) PROVE AnswersTrue'
    <3>1. days \in Nat
        BY FiniteSets
    <3>2. Answers("trend", Added(getTrend(days), Counters),
                  IF Cardinality(DOMAIN getTrend(days)) < days THEN Counters ELSE {})
      <4>1. DOMAIN Added(getTrend(days), Counters) = Counters
          BY DEF Added
      <4>. QED BY <2>3, <4>1 DEF AskTrend, Counters
    <3>. QED BY <2>1, <2>2, <3>1, <3>2, ReportsAreRead, AnswerIsTrue
  <2>4. ASSUME AskHours PROVE AnswersTrue'
      BY <2>1, <2>2, <2>4, ReportsAreRead, AnswerIsTrue DEF AskHours
  <2>5. ASSUME AskCountries PROVE AnswersTrue'
      BY <2>1, <2>2, <2>5, ReportsAreRead, AnswerIsTrue DEF AskCountries
  <2>6. ASSUME AskDistribution PROVE AnswersTrue'
      BY <2>1, <2>2, <2>6, ReportsAreRead, AnswerIsTrue DEF AskDistribution
  <2>7. ASSUME AskPublicStats PROVE AnswersTrue'
      BY <2>1, <2>2, <2>7, ReportsAreRead, AnswerIsTrue DEF AskPublicStats
  <2>8. AnswersTrue'
      BY <2>1, <2>3, <2>4, <2>5, <2>6, <2>7
  <2>9. SummaryTrue' /\ (summary \in Summary \union {None})'
      BY <2>1, SameNow DEF SummaryTrue, Types, AnswerTypes
  <2>. QED BY <2>8, <2>9
<1>2. CASE SelectTotals
  <2>1. /\ UNCHANGED tableVars /\ Answers("totals", Counts(Live), Counters)
        /\ summary' = [pc |-> "anchor", anchor |-> {}, at |-> 0, current |-> 0, late |-> 0]
      BY <1>2 DEF SelectTotals, Counters
  <2>2. AnswersTrue'
    <3>1. "totals" \in Queries
        BY DEF Queries
    <3>. QED BY <2>1, <3>1, ReportsAreRead, AnswerIsTrue
  <2>3. summary' \in Summary /\ summary'.pc = "anchor" /\ summary'.anchor = {}
      BY <2>1 DEF Summary
  <2>4. SummaryTrue'
      BY <2>3 DEF SummaryTrue
  <2>. QED BY <2>2, <2>3, <2>4
<1>3. CASE SelectAnchor
  <2>1. /\ summary # None /\ UNCHANGED <<tableVars, answers>>
        /\ summary' = [summary EXCEPT !.pc = "periods", !.at = writes, !.anchor = Newest]
      BY <1>3 DEF SelectAnchor, Newest
  <2>2. Newest \subseteq Nat /\ \A m, n \in Newest : m = n
    <3>1. \A t \in Live : txns[t].at \in Nat
        BY LiveTypes
    <3>2. Newest \subseteq Nat /\ \A m, n \in Newest : m <= n
        BY <3>1 DEF Newest
    <3>. QED BY <3>2
  <2>3. summary \in Summary /\ writes \in Nat
      BY <2>1 DEF Types, TableTypes, AnswerTypes
  <2>4. /\ summary' \in Summary /\ summary'.pc = "periods" /\ summary'.at = writes
        /\ summary'.anchor = Newest
      BY <2>1, <2>2, <2>3 DEF Summary
  <2>5. SummaryTrue'
      BY <2>1, <2>2, <2>3, <2>4, SameNow DEF SummaryTrue
  <2>6. AnswersTrue'
      BY <2>1, SameNow DEF AnswersTrue, AgreeOn, Apart
  <2>. QED BY <2>4, <2>5, <2>6
<1>4. CASE SelectPeriods
    BY <1>4, PeriodsRead
<1>. QED BY <1>1, <1>2, <1>3, <1>4 DEF ReportStep

LEMMA ReportsStay ==
    ASSUME Types, TableTypes', AnswersTrue, SummaryTrue, [Next]_vars
    PROVE  (summary \in Summary \union {None})' /\ AnswersTrue' /\ SummaryTrue'
<1>1. CASE UNCHANGED <<tableVars, reportVars>>
  <2>1. answers' = answers /\ summary' = summary
      BY <1>1 DEF reportVars
  <2>2. AnswersTrue' /\ SummaryTrue'
      BY <1>1, <2>1, SameNow DEF AnswersTrue, AgreeOn, Apart, SummaryTrue
  <2>. QED BY <2>1, <2>2 DEF Types, AnswerTypes
<1>. QED BY <1>1, ReportsWritten, ReportsRead, Steps DEF vars, analyticsVars

LEMMA ReportsTell ==
    ASSUME Types, AnswersTrue, SummaryTrue
    PROVE  ReportsDriftByWrites
BY DEF AnswersTrue, AgreeOn, Apart, SummaryTrue, ReportsDriftByWrites

-----------------------------------------------------------------------------
(* The theorems.                                                           *)

Truthful == Types /\ RadarTrue /\ ExportTrue /\ NetworkTrue /\ ListTrue /\ AnswersTrue /\ SummaryTrue

LEMMA InitTruthful == Init => Truthful
<1>. SUFFICES ASSUME Init PROVE Truthful
    OBVIOUS
<1>1. /\ txns \in Tables /\ network = None /\ radar = None /\ export = None /\ writes = 0
      /\ answers = [q \in Queries |-> None] /\ summary = None
      /\ filtered = FALSE /\ page = 1 /\ hasty = FALSE /\ previous = None
      /\ cache = [k \in Keys |-> None] /\ asked = [k \in Keys |-> None]
    BY AnalyticsAssumption DEF Init, AnalyticsInit, Tables
<1>2. 1 \in 1..MaxPage
    BY TransactionsPageAssumption
<1>3. Types
    BY <1>1, <1>2 DEF Types, TableTypes, AnswerTypes, ListTypes
<1>4. RadarTrue /\ ExportTrue /\ NetworkTrue /\ AnswersTrue /\ SummaryTrue
    BY <1>1 DEF RadarTrue, ExportTrue, NetworkTrue, AnswersTrue, SummaryTrue
<1>5. ListTrue
    BY <1>1 DEF ListTrue, OnList
<1>. QED BY <1>3, <1>4, <1>5 DEF Truthful

\* Whatever is awaited or shown is of the tables as they are, but for as much as
\* was written since it was read, and an export is whole whoever writes: in every
\* state of every run.
THEOREM AnswersStayTrue == Spec => []Truthful
<1>1. Truthful /\ [Next]_vars => Truthful'
  <2>1. SUFFICES ASSUME Truthful, [Next]_vars PROVE Truthful'
      OBVIOUS
  <2>2. Types /\ RadarTrue /\ ExportTrue /\ NetworkTrue /\ ListTrue /\ AnswersTrue /\ SummaryTrue
      BY <2>1 DEF Truthful
  <2>3. TableTypes'
      BY <2>1, <2>2, TablesStay
  <2>4. (radar \in Radar \union {None})' /\ RadarTrue'
      BY <2>1, <2>2, RadarStays
  <2>5. (export \in Export \union {None})' /\ ExportTrue'
      BY <2>1, <2>2, ExportStays
  <2>6. (network \in Network \union {None})' /\ NetworkTrue'
      BY <2>1, <2>2, <2>3, NetworkStays
  <2>7. ListTypes' /\ ListTrue'
      BY <2>1, <2>2, ListStays
  <2>8. (summary \in Summary \union {None})' /\ AnswersTrue' /\ SummaryTrue'
      BY <2>1, <2>2, <2>3, ReportsStay
  <2>. QED BY <2>3, <2>4, <2>5, <2>6, <2>7, <2>8 DEF Truthful, Types, AnswerTypes
<1>. QED BY <1>1, InitTruthful, PTL DEF Spec

\* getScatter: its count and its sample are two queries, and a radar that does not
\* call itself a sample leaves out no more than were written between them.
THEOREM SamplesAreMarked == Spec => []SampleIsMarked
<1>1. Truthful => SampleIsMarked
    BY RadarTells DEF Truthful
<1>. QED BY <1>1, AnswersStayTrue, PTL

\* streamPredictionsForExport: batches by cursor with skip 1 repeat no row, and
\* pass over none that matches throughout unless the cursor's own row is lost.
THEOREM ExportsAreWhole == Spec => []ExportIsWhole
<1>1. Truthful => ExportIsWhole
    BY ExportTells DEF Truthful
<1>. QED BY <1>1, AnswersStayTrue, PTL

\* getNetwork: its three queries agree on hubs, degrees, edges and total, but for
\* two ends or two hubs for each row written between them.
THEOREM NetworksAgree == Spec => []NetworkIsConsistent
<1>1. Truthful => NetworkIsConsistent
    BY NetworkTells DEF Truthful
<1>. QED BY <1>1, AnswersStayTrue, PTL

\* listTransactions: the pages are a partition of what matches, where no two
\* rows share a time and nobody writes.
THEOREM PagesCoverList == Spec => []PagesCover
<1>1. Truthful => PagesCover
    BY PagesTell DEF Truthful
<1>. QED BY <1>1, AnswersStayTrue, PTL

\* Transactions.jsx: an answer without rows, shown for its own filters or standing
\* in for the next one, is of filters that nothing matches, for a user who waits
\* for a page before turning it: Next stops at the last page of the count.
THEOREM EmptyIsEmpty == Spec => []EmptyMeansNoMatch
<1>1. Truthful => EmptyMeansNoMatch
    BY EmptyTells DEF Truthful
<1>. QED BY <1>1, AnswersStayTrue, PTL

\* The analytics service's reports, each query of them at its own moment and in any
\* number of groups, days, hours and countries: no two figures differ by more rows
\* than were written between their reading.
THEOREM ReportsDrift == Spec => []ReportsDriftByWrites
<1>1. Truthful => ReportsDriftByWrites
    BY ReportsTell DEF Truthful
<1>. QED BY <1>1, AnswersStayTrue, PTL

=============================================================================
