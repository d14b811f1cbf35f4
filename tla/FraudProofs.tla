----------------------------- MODULE FraudProofs -----------------------------
(***************************************************************************)
(* The score and its explanation, for any amounts and balances: what the   *)
(* explanation lists accounts for the score, and the balances push one way.*)
(***************************************************************************)
EXTENDS FraudScore, FiniteSetTheorems, FunctionTheorems, WellFoundedInduction, TLAPS

-----------------------------------------------------------------------------
(* Sums over a sequence of factors without repetition. FoldSeq recurs on   *)
(* the positions, one it chooses at a time; the sum of what each factor    *)
(* adds, if it is there, satisfies the same equation and is the sum, by a  *)
(* smallest set of positions on which the two would differ.                *)

Names == {"amount_anomaly", "balance_drain", "destination_anomaly", "txn_type_risk",
          "round_amount_bias"}

\* The sequences that are folded.
Distinct(c) ==
    /\ \E n \in Nat : DOMAIN c = 1..n
    /\ \A i \in DOMAIN c : c[i] \in Names
    /\ \A i, j \in DOMAIN c : c[i] = c[j] => i = j

AnyOf(s) == CHOOSE x \in s : TRUE

AddsUp(h, c, w) ==
    h = [s \in SUBSET DOMAIN c |->
            IF s = {} THEN 0 ELSE h[s \ {AnyOf(s)}] + w[c[AnyOf(s)]]]

\* What one factor, and what all five, add at some positions.
Share(c, w, s, f) == IF \E i \in s : c[i] = f THEN w[f] ELSE 0
Shares(c, w, s) ==
    Share(c, w, s, "amount_anomaly") + Share(c, w, s, "balance_drain")
    + Share(c, w, s, "destination_anomaly") + Share(c, w, s, "txn_type_risk")
    + Share(c, w, s, "round_amount_bias")

LEMMA AddsUpAt ==
    ASSUME NEW c, NEW w, NEW h, AddsUp(h, c, w), NEW s \in SUBSET DOMAIN c
    PROVE  /\ s = {} => h[s] = 0
           /\ s # {} => AnyOf(s) \in s /\ h[s] = h[s \ {AnyOf(s)}] + w[c[AnyOf(s)]]
BY DEF AddsUp, AnyOf

\* The equation has one solution.
LEMMA OneSum ==
    ASSUME NEW c, Distinct(c), NEW w, NEW g, AddsUp(g, c, w), NEW h, AddsUp(h, c, w)
    PROVE  h[DOMAIN c] = g[DOMAIN c]
<1>. DEFINE K   == DOMAIN c
            Bad == {s \in SUBSET K : h[s] # g[s]}
<1>1. IsFiniteSet(K)
    BY FS_Interval DEF Distinct
<1>2. ASSUME Bad # {} PROVE FALSE
  <2>1. IsWellFoundedOn(StrictSubsetOrdering(K), SUBSET K)
      BY <1>1, FS_FiniteSubsetsOfFinite, FS_StrictSubsetOrderingWellFounded
  <2>2. PICK T \in Bad : \A U \in Bad : <<U, T>> \notin StrictSubsetOrdering(K)
    <3>1. Bad \subseteq SUBSET K
        OBVIOUS
    <3>. HIDE DEF Bad, K
    <3>. QED BY <1>2, <2>1, <3>1, WFMin
  <2>. DEFINE x == AnyOf(T)
  <2>3. T \in SUBSET K /\ h[T] # g[T]
      OBVIOUS
  <2>4. T # {} /\ x \in T
      BY <2>3, AddsUpAt
  <2>5. h[T \ {x}] # g[T \ {x}]
    <3>1. h[T] = h[T \ {x}] + w[c[x]] /\ g[T] = g[T \ {x}] + w[c[x]]
        BY <2>3, <2>4, AddsUpAt
    <3>. QED BY <2>3, <3>1
  <2>6. T \ {x} \in Bad
      BY <2>3, <2>5
  <2>7. <<T \ {x}, T>> \in StrictSubsetOrdering(K)
      BY <2>3, <2>4 DEF StrictSubsetOrdering
  <2>. QED BY <2>2, <2>6, <2>7
<1>. QED BY <1>2

\* The shares are one.
LEMMA SharesAddUp ==
    ASSUME NEW c, Distinct(c), NEW w, \A f \in Names : w[f] \in Int
    PROVE  AddsUp([s \in SUBSET DOMAIN c |-> Shares(c, w, s)], c, w)
<1>. DEFINE g == [s \in SUBSET DOMAIN c |-> Shares(c, w, s)]
<1>1. Shares(c, w, {}) = 0
    BY DEF Shares, Share
<1>2. ASSUME NEW s \in SUBSET DOMAIN c, s # {}
      PROVE  Shares(c, w, s) = Shares(c, w, s \ {AnyOf(s)}) + w[c[AnyOf(s)]]
  <2>. DEFINE x == AnyOf(s)
              r == s \ {x}
  <2>1. x \in s /\ c[x] \in Names
      BY <1>2 DEF AnyOf, Distinct
  <2>. HIDE DEF x
  <2>2. ASSUME NEW f \in Names
        PROVE  /\ Share(c, w, s, f) \in Int /\ Share(c, w, r, f) \in Int
               /\ f # c[x] => Share(c, w, s, f) = Share(c, w, r, f)
               /\ f = c[x] => Share(c, w, s, f) = w[f] /\ Share(c, w, r, f) = 0
    <3>1. f = c[x] => \A i \in r : c[i] # f
        BY <2>1 DEF Distinct
    <3>2. f # c[x] => ((\E i \in s : c[i] = f) <=> (\E i \in r : c[i] = f))
        OBVIOUS
    <3>. QED BY <2>1, <3>1, <3>2 DEF Share
  <2>. HIDE DEF r
  <2>3. Shares(c, w, s) = Shares(c, w, r) + w[c[x]]
    <3>1. CASE c[x] = "amount_anomaly"
        BY <2>2, <3>1 DEF Shares, Names
    <3>2. CASE c[x] = "balance_drain"
        BY <2>2, <3>2 DEF Shares, Names
    <3>3. CASE c[x] = "destination_anomaly"
        BY <2>2, <3>3 DEF Shares, Names
    <3>4. CASE c[x] = "txn_type_risk"
        BY <2>2, <3>4 DEF Shares, Names
    <3>5. CASE c[x] = "round_amount_bias"
        BY <2>2, <3>5 DEF Shares, Names
    <3>. QED BY <2>1, <3>1, <3>2, <3>3, <3>4, <3>5 DEF Names
  <2>. QED BY <2>3 DEF r, x
<1>3. \A s \in SUBSET DOMAIN c : g[s] = Shares(c, w, s) /\ s \ {AnyOf(s)} \in SUBSET DOMAIN c
    OBVIOUS
<1>4. g = [s \in SUBSET DOMAIN c |->
              IF s = {} THEN 0 ELSE g[s \ {AnyOf(s)}] + w[c[AnyOf(s)]]]
    BY <1>1, <1>2, <1>3
<1>. QED BY <1>4 DEF AddsUp

\* The two folds of the model.
AddsPoints(h, t, c) ==
    h = [s \in SUBSET DOMAIN c |->
            IF s = {} THEN 0 ELSE h[s \ {AnyOf(s)}] + Points(t, c[AnyOf(s)])]
AddsContributions(h, t, c) ==
    h = [s \in SUBSET DOMAIN c |->
            IF s = {} THEN 0 ELSE h[s \ {AnyOf(s)}] + Contribution(t, c[AnyOf(s)])]

PointsOf(t)        == [f \in Names |-> Points(t, f)]
ContributionsOf(t) == [f \in Names |-> Contribution(t, f)]
Reported(t, c)     == FoldSeq(LAMBDA f, sum : sum + Contribution(t, f), 0, c)

LEMMA TotalIs ==
    ASSUME NEW t, \A f \in Names : Points(t, f) \in Int
    PROVE  Total(t) = Points(t, "amount_anomaly") + Points(t, "balance_drain")
                      + Points(t, "destination_anomaly") + Points(t, "txn_type_risk")
                      + Points(t, "round_amount_bias")
<1>. DEFINE c == FACTORS
            w == PointsOf(t)
            h == CHOOSE x : AddsPoints(x, t, c)
            g == [s \in SUBSET DOMAIN c |-> Shares(c, w, s)]
<1>1. Distinct(c) /\ DOMAIN c = 1..5
    BY DEF FACTORS, Distinct, Names
<1>2. Total(t) = h[DOMAIN c]
    BY DEF Total, FoldSeq, FoldFunction, FoldFunctionOnSet, MapThenFoldSet, AddsPoints, AnyOf
<1>3. AddsUp(g, c, w)
    BY <1>1, SharesAddUp DEF PointsOf
<1>4. \A i \in DOMAIN c : Points(t, c[i]) = w[c[i]]
    BY <1>1 DEF PointsOf, Distinct
<1>5. \A s \in SUBSET DOMAIN c : s # {} => AnyOf(s) \in DOMAIN c
    BY DEF AnyOf
<1>. HIDE DEF g, w, c
<1>6. \A x : AddsPoints(x, t, c) <=> AddsUp(x, c, w)
    BY <1>4, <1>5 DEF AddsPoints, AddsUp
<1>7. AddsUp(h, c, w)
    BY <1>3, <1>6
<1>. HIDE DEF h
<1>8. Total(t) = g[DOMAIN c]
    BY <1>1, <1>2, <1>3, <1>7, OneSum
<1>9. Total(t) = Shares(c, w, DOMAIN c)
    BY <1>8 DEF g
<1>10. ASSUME NEW f \in Names PROVE Share(c, w, DOMAIN c, f) = Points(t, f)
  <2>1. \E i \in DOMAIN c : c[i] = f
      BY <1>1 DEF c, FACTORS, Names
  <2>. QED BY <2>1 DEF Share, w, PointsOf
<1>. QED BY <1>9, <1>10 DEF Shares, Names

LEMMA ReportedIs ==
    ASSUME NEW t, \A f \in Names : Contribution(t, f) \in Int, NEW c, Distinct(c)
    PROVE  Reported(t, c) = Shares(c, ContributionsOf(t), DOMAIN c)
<1>. DEFINE w == ContributionsOf(t)
            h == CHOOSE x : AddsContributions(x, t, c)
            g == [s \in SUBSET DOMAIN c |-> Shares(c, w, s)]
<1>1. Reported(t, c) = h[DOMAIN c]
    BY DEF Reported, FoldSeq, FoldFunction, FoldFunctionOnSet, MapThenFoldSet,
           AddsContributions, AnyOf
<1>2. AddsUp(g, c, w)
    BY SharesAddUp DEF ContributionsOf
<1>3. \A i \in DOMAIN c : Contribution(t, c[i]) = w[c[i]]
    BY DEF ContributionsOf, Distinct
<1>4. \A s \in SUBSET DOMAIN c : s # {} => AnyOf(s) \in DOMAIN c
    BY DEF AnyOf
<1>. HIDE DEF g, w
<1>5. \A x : AddsContributions(x, t, c) <=> AddsUp(x, c, w)
    BY <1>3, <1>4 DEF AddsContributions, AddsUp
<1>6. AddsUp(h, c, w)
    BY <1>2, <1>5
<1>. HIDE DEF h
<1>7. Reported(t, c) = g[DOMAIN c]
    BY <1>1, <1>2, <1>6, OneSum
<1>. QED BY <1>7 DEF g, w

-----------------------------------------------------------------------------
(* The factors. Every magnitude is between 0 and One.                      *)

\* A transaction that is scored: all its balances are known.
Known(t) == t \in Txn /\ t.dest_balance_before # None

LEMMA FactorIs ==
    ASSUME NEW t
    PROVE  /\ DOMAIN Factor(t) = Names
           /\ Factor(t)["amount_anomaly"] = amount_anomaly(t)
           /\ Factor(t)["balance_drain"] = balance_drain(t)
           /\ Factor(t)["destination_anomaly"] = destination_anomaly(t)
           /\ Factor(t)["txn_type_risk"] = txn_type_risk(t)
           /\ Factor(t)["round_amount_bias"] = round_amount_bias(t)
<1>1. {FACTORS[n] : n \in 1..5} = Names
    BY DEF FACTORS, Names
<1>. QED BY <1>1 DEF Factor, Names

LEMMA KnownTypes ==
    ASSUME NEW t, Known(t)
    PROVE  /\ t.txn_type \in Types /\ t.amount \in Nat
           /\ t.orig_balance_before \in Nat /\ t.orig_balance_after \in Nat
           /\ t.dest_balance_before \in Nat /\ t.dest_balance_after \in Nat
BY FraudScoreAssumption DEF Known, Txn

LEMMA Division ==
    ASSUME NEW m \in Nat, NEW s \in Nat \ {0}
    PROVE  m \div s \in Nat /\ (m \div s) * s <= m /\ m < (m \div s) * s + s
OBVIOUS

LEMMA OneIs == One = 4000
BY DEF One

Upto(n, m) == m \in Nat /\ m <= n

LEMMA LeastTypes ==
    ASSUME NEW x \in Nat PROVE Upto(4000, Least(x, One))
BY OneIs DEF Least, Upto

LEMMA MismatchTypes ==
    ASSUME NEW t, Known(t)
    PROVE  Upto(4000, Mismatch(t))
<1>1. Discrepancy(t) \in Nat
    BY KnownTypes DEF Discrepancy, Abs
<1>2. CASE t.amount # 0
  <2>1. One * Discrepancy(t) \in Nat /\ t.amount \in Nat \ {0}
      BY <1>1, <1>2, KnownTypes DEF One
  <2>. DEFINE q == (One * Discrepancy(t)) \div t.amount
  <2>2. q \in Nat
      BY <2>1, Division
  <2>3. Mismatch(t) = IF Discrepancy(t) = 0 THEN 0 ELSE Least(q, One)
      BY <1>2 DEF Mismatch
  <2>. HIDE DEF q
  <2>4. Upto(4000, 0)
      BY DEF Upto
  <2>. QED BY <2>2, <2>3, <2>4, LeastTypes
<1>3. CASE t.amount = 0
    BY <1>3 DEF Mismatch, One, Upto
<1>. QED BY <1>2, <1>3

LEMMA MagnitudeTypes ==
    ASSUME NEW t, Known(t), NEW f \in Names
    PROVE  Upto(4000, Factor(t)[f].magnitude)
<1>. DEFINE a == Least(t.amount, One)
<1>1. Upto(4000, a)
    BY KnownTypes, LeastTypes
<1>2. Upto(4000, amount_anomaly(t).magnitude)
    BY <1>1 DEF amount_anomaly
<1>3. Upto(4000, balance_drain(t).magnitude)
    BY MismatchTypes DEF balance_drain, One, Upto
<1>4. Upto(4000, destination_anomaly(t).magnitude)
  <2>1. Upto(4000, (6 * 4000 + 4 * a) \div 10)
    <3>. HIDE DEF a
    <3>. QED BY <1>1 DEF Upto
  <2>2. /\ destination_anomaly(t).magnitude
                \in {0, 4000, (6 * 4000 + 4 * a) \div 10}
    <3>. HIDE DEF a
    <3>1. a = Least(t.amount, 4000)
        BY DEF a, One
    <3>. QED BY <3>1 DEF destination_anomaly, One
  <2>3. Upto(4000, 0) /\ Upto(4000, 4000)
      BY DEF Upto
  <2>. QED BY <2>1, <2>2, <2>3
<1>5. Upto(4000, txn_type_risk(t).magnitude)
    BY KnownTypes DEF txn_type_risk, TXN_TYPE_RISK, Types, One, Upto
<1>6. Upto(4000, round_amount_bias(t).magnitude)
    BY KnownTypes DEF round_amount_bias, One, Upto
<1>. QED BY <1>2, <1>3, <1>4, <1>5, <1>6, FactorIs DEF Names

LEMMA Weights ==
    /\ FACTOR_WEIGHTS("amount_anomaly") = 35 /\ FACTOR_WEIGHTS("balance_drain") = 25
    /\ FACTOR_WEIGHTS("destination_anomaly") = 20 /\ FACTOR_WEIGHTS("txn_type_risk") = 10
    /\ FACTOR_WEIGHTS("round_amount_bias") = 10
BY DEF FACTOR_WEIGHTS

\* A factor's points, and what of them is shown: to half a hundredth.
LEMMA PointTypes ==
    ASSUME NEW t, Known(t), NEW f \in Names
    PROVE  /\ Points(t, f) \in Nat /\ Points(t, f) <= FACTOR_WEIGHTS(f) * 4000
           /\ Factor(t)[f].magnitude < MIN_REPORTED => Points(t, f) <= FACTOR_WEIGHTS(f) * 199
           /\ Contribution(t, f) \in Nat
           /\ 40 * Contribution(t, f) <= Points(t, f) + 20
           /\ Points(t, f) < 40 * Contribution(t, f) + 20
<1>. DEFINE m == Factor(t)[f].magnitude
            w == FACTOR_WEIGHTS(f)
            p == Points(t, f)
<1>1. m \in Nat /\ m <= 4000
    BY MagnitudeTypes DEF Upto
<1>2. w \in {10, 20, 25, 35}
    BY Weights DEF Names
<1>3. p = w * m
    BY DEF Points
<1>4. MIN_REPORTED = 200
    BY DEF MIN_REPORTED, One
<1>. HIDE DEF m, w
<1>5. p \in Nat /\ p <= w * 4000 /\ (m < 200 => p <= w * 199)
  <2>. HIDE DEF p
  <2>. QED BY <1>1, <1>2, <1>3
<1>6. Contribution(t, f) = (200 * p + 4000) \div 8000
    BY DEF Contribution, One
<1>. HIDE DEF p
<1>7. /\ Contribution(t, f) \in Nat
      /\ 40 * Contribution(t, f) <= p + 20 /\ p < 40 * Contribution(t, f) + 20
    BY <1>5, <1>6
<1>. QED BY <1>4, <1>5, <1>7 DEF m, w, p

\* The score is the total, to half a point.
LEMMA ScoreIs ==
    ASSUME NEW t, Known(t), NEW s \in Roundings(Total(t))
    PROVE  /\ s \in 0..100 /\ Total(t) \in Nat
           /\ 4000 * s <= Total(t) + 2000 /\ Total(t) <= 4000 * s + 2000
           /\ Total(t) = Points(t, "amount_anomaly") + Points(t, "balance_drain")
                         + Points(t, "destination_anomaly") + Points(t, "txn_type_risk")
                         + Points(t, "round_amount_bias")
<1>1. Total(t) = Points(t, "amount_anomaly") + Points(t, "balance_drain")
                         + Points(t, "destination_anomaly") + Points(t, "txn_type_risk")
                         + Points(t, "round_amount_bias")
    BY PointTypes, TotalIs
<1>2. Total(t) \in Nat
    BY <1>1, PointTypes DEF Names
<1>3. s \in 0..100 /\ 2 * Abs(Total(t) - s * 4000) <= 4000
    BY DEF Roundings, One
<1>. QED BY <1>1, <1>2, <1>3 DEF Abs

-----------------------------------------------------------------------------
(* The explanation. A finite set in a total order, given by what comes     *)
(* before each element: how many come before is a bijection onto an        *)
(* initial segment, and so every place of the list is taken once.          *)

Orderly(S, before) ==
    /\ before \in [S -> SUBSET S]
    /\ \A x \in S : x \notin before[x]
    /\ \A x, y \in S : x # y => x \in before[y] \/ y \in before[x]
    /\ \A x, y \in S : x \in before[y] => before[x] \subseteq before[y]

Rank(S, before) == [x \in S |-> Cardinality(before[x])]

LEMMA SubsetSize ==
    ASSUME NEW S, IsFiniteSet(S), NEW T, T \subseteq S
    PROVE  /\ IsFiniteSet(T) /\ Cardinality(T) \in Nat /\ Cardinality(S) \in Nat
           /\ Cardinality(T) <= Cardinality(S)
           /\ T # S => Cardinality(T) < Cardinality(S)
<1>1. T \in SUBSET S
    OBVIOUS
<1>2. /\ IsFiniteSet(T) /\ Cardinality(T) <= Cardinality(S)
      /\ Cardinality(S) = Cardinality(T) => S = T
    BY <1>1, FS_Subset
<1>3. Cardinality(T) \in Nat /\ Cardinality(S) \in Nat
    BY <1>2, FS_CardinalityType
<1>. QED BY <1>2, <1>3

\* The ranks are 0, 1, and so on, each once.
LEMMA RankIsBijection ==
    ASSUME NEW S, IsFiniteSet(S), NEW before, Orderly(S, before)
    PROVE  /\ Rank(S, before) \in Bijection(S, 0..(Cardinality(S) - 1))
           /\ \A x, y \in S : x \in before[y] <=> Rank(S, before)[x] < Rank(S, before)[y]
<1>. DEFINE r == Rank(S, before)
            n == Cardinality(S)
            T == 0..(n - 1)
<1>1. n \in Nat
    BY FS_CardinalityType
<1>2. ASSUME NEW x \in S
      PROVE  before[x] \subseteq S /\ before[x] # S /\ IsFiniteSet(before[x])
    <2>1. before[x] \subseteq S /\ before[x] # S
        BY DEF Orderly
    <2>. QED BY <2>1, SubsetSize
<1>3. ASSUME NEW x \in S PROVE r[x] = Cardinality(before[x]) /\ r[x] \in T
  <2>1. Cardinality(before[x]) \in Nat /\ Cardinality(before[x]) < n
      BY <1>2, SubsetSize
  <2>. QED BY <1>1, <2>1 DEF Rank
<1>4. ASSUME NEW x \in S, NEW y \in S, x \in before[y] PROVE r[x] < r[y]
  <2>1. before[x] \subseteq before[y] /\ before[x] # before[y]
      BY <1>4 DEF Orderly
  <2>. QED BY <1>2, <1>3, <2>1, SubsetSize
<1>5. \A x, y \in S : x \in before[y] <=> r[x] < r[y]
  <2>1. SUFFICES ASSUME NEW x \in S, NEW y \in S, r[x] < r[y] PROVE x \in before[y]
      BY <1>4
  <2>2. r[x] \in Int /\ r[y] \in Int /\ x # y
      BY <1>1, <1>3, <2>1
  <2>3. CASE y \in before[x]
      BY <1>4, <2>1, <2>2, <2>3
  <2>. QED BY <2>2, <2>3 DEF Orderly
<1>6. ASSUME NEW x \in S, NEW y \in S, r[x] = r[y] PROVE x = y
  <2>1. ~(r[x] < r[y]) /\ ~(r[y] < r[x])
      BY <1>1, <1>3, <1>6
  <2>. QED BY <1>5, <2>1 DEF Orderly
<1>7. r \in Injection(S, T)
  <2>1. r \in [S -> T] /\ DOMAIN r = S
      BY <1>3 DEF Rank
  <2>. QED BY <1>6, <2>1 DEF Injection, IsInjective
<1>8. IsFiniteSet(T) /\ Cardinality(T) = n
    BY <1>1, FS_Interval
<1>9. r \in Surjection(S, T)
    BY <1>7, <1>8, FS_Injection
<1>. QED BY <1>5, <1>7, <1>9 DEF Bijection

\* What the LETs of contributions stand for.
Strong(t)       == {n \in 1..5 : Factor(t)[FACTORS[n]].magnitude >= MIN_REPORTED}
Earlier(t, p)   ==
    [n \in Strong(t) |-> {m \in Strong(t) : p[m] > p[n] \/ (p[m] = p[n] /\ m < n)}]
Listed(t)       == [n \in Strong(t) |-> Contribution(t, FACTORS[n])]
Taken(t, b, k)  == CHOOSE n \in Strong(t) : Cardinality(b[n]) = k - 1

LEMMA ContributionsUnfold ==
    ASSUME NEW t
    PROVE  contributions(t) = [k \in 1..Cardinality(Strong(t)) |->
                                  FACTORS[Taken(t, Earlier(t, Listed(t)), k)]]
<1>. DEFINE p == Listed(t)
            b == Earlier(t, p)
<1>1. \A n \in Strong(t) :
          b[n] = {m \in Strong(t) : p[m] > p[n] \/ (p[m] = p[n] /\ m < n)}
    BY DEF Earlier
<1>. HIDE DEF b
<1>2. contributions(t) = [k \in 1..Cardinality(Strong(t)) |->
          FACTORS[CHOOSE n \in Strong(t) :
              Cardinality({m \in Strong(t) : p[m] > p[n] \/ (p[m] = p[n] /\ m < n)}) = k - 1]]
    BY DEF contributions, Listed, Strong
<1>3. \A k : (CHOOSE n \in Strong(t) :
              Cardinality({m \in Strong(t) : p[m] > p[n] \/ (p[m] = p[n] /\ m < n)}) = k - 1)
            = Taken(t, b, k)
    BY <1>1 DEF Taken
<1>. QED BY <1>2, <1>3 DEF b

LEMMA StrongOrderly ==
    ASSUME NEW t, Known(t)
    PROVE  /\ IsFiniteSet(Strong(t)) /\ Cardinality(Strong(t)) \in Nat
           /\ Strong(t) \subseteq 1..5
           /\ \A n \in Strong(t) : Listed(t)[n] \in Nat
           /\ Orderly(Strong(t), Earlier(t, Listed(t)))
<1>. DEFINE S == Strong(t)
            p == Listed(t)
<1>1. S \subseteq 1..5 /\ IsFiniteSet(1..5)
  <2>1. S \subseteq 1..5
      BY DEF Strong
  <2>2. 1 \in Int /\ 5 \in Int
      OBVIOUS
  <2>3. IsFiniteSet(1..5)
    <3>. HIDE DEF S
    <3>. QED BY <2>2, FS_Interval
  <2>. QED BY <2>1, <2>3
<1>2. \A n \in 1..5 : FACTORS[n] \in Names
    BY DEF FACTORS, Names
<1>3. \A n \in S : p[n] \in Nat /\ n \in Nat
    BY <1>1, <1>2, PointTypes DEF Listed
<1>4. IsFiniteSet(S) /\ Cardinality(S) \in Nat
    BY <1>1, SubsetSize
<1>. HIDE DEF S, p
<1>5. Orderly(S, [n \in S |-> {m \in S : p[m] > p[n] \/ (p[m] = p[n] /\ m < n)}])
    BY <1>3 DEF Orderly
<1>. QED BY <1>1, <1>3, <1>4, <1>5 DEF S, p, Earlier

\* contributions lists each factor that is strong enough, once, by what it shows.
LEMMA ContributionsAre ==
    ASSUME NEW t, Known(t), NEW c, c = contributions(t)
    PROVE  /\ Distinct(c) /\ c \in Seq(Names)
           /\ \A f \in Names :
                 (\E i \in DOMAIN c : c[i] = f) <=> Factor(t)[f].magnitude >= MIN_REPORTED
           /\ \A i, j \in DOMAIN c : i < j => Contribution(t, c[i]) >= Contribution(t, c[j])
<1>. DEFINE S == Strong(t)
            n == Cardinality(S)
            p == Listed(t)
            b == Earlier(t, p)
            at(k) == Taken(t, b, k)
<1>1. c = [k \in 1..n |-> FACTORS[at(k)]]
    BY ContributionsUnfold
<1>2. /\ n \in Nat /\ S \subseteq 1..5 /\ IsFiniteSet(S) /\ Orderly(S, b)
      /\ \A x \in S : p[x] \in Nat
    BY StrongOrderly
<1>3. /\ Rank(S, b) \in Bijection(S, 0..(n - 1))
      /\ \A x, y \in S : x \in b[y] <=> Rank(S, b)[x] < Rank(S, b)[y]
    BY <1>2, RankIsBijection
<1>4. \A x \in S : Rank(S, b)[x] = Cardinality(b[x])
    BY DEF Rank
<1>5. /\ \A x \in S : Cardinality(b[x]) \in 0..(n - 1)
      /\ \A x, y \in S : Cardinality(b[x]) = Cardinality(b[y]) => x = y
      /\ \A i \in 0..(n - 1) : \E x \in S : Cardinality(b[x]) = i
    BY <1>3, <1>4 DEF Bijection, Injection, Surjection, IsInjective
<1>6. ASSUME NEW k \in 1..n
      PROVE  at(k) \in S /\ Cardinality(b[at(k)]) = k - 1
  <2>1. k - 1 \in 0..(n - 1)
      BY <1>2
  <2>2. PICK x \in S : Cardinality(b[x]) = k - 1
      BY <1>5, <2>1
  <2>. HIDE DEF b, n
  <2>. QED BY <2>2 DEF Taken
<1>7. /\ \A x \in 1..5 : FACTORS[x] \in Names
      /\ \A x, y \in 1..5 : FACTORS[x] = FACTORS[y] => x = y
      /\ \A f \in Names : \E x \in 1..5 : FACTORS[x] = f
    BY DEF FACTORS, Names
<1>8. \A x \in 1..5 : x \in S <=> Factor(t)[FACTORS[x]].magnitude >= MIN_REPORTED
    BY DEF Strong
<1>9. \A x, y \in S : x \in b[y] <=> p[x] > p[y] \/ (p[x] = p[y] /\ x < y)
    BY DEF Earlier
<1>10. \A x \in S : p[x] = Contribution(t, FACTORS[x])
    BY DEF Listed
<1>. HIDE DEF S, p, b, at, n
<1>11. DOMAIN c = 1..n /\ \A k \in 1..n : c[k] = FACTORS[at(k)] /\ at(k) \in 1..5 /\ c[k] \in Names
    BY <1>1, <1>2, <1>6, <1>7
<1>12. c \in Seq(Names)
  <2>1. c \in [1..n -> Names]
      BY <1>1, <1>11
  <2>. QED BY <1>2, <2>1
<1>13. Distinct(c)
  <2>1. ASSUME NEW i \in 1..n, NEW j \in 1..n, c[i] = c[j] PROVE i = j
    <3>1. at(i) = at(j)
        BY <1>7, <1>11, <2>1
    <3>2. i - 1 = j - 1
        BY <1>6, <3>1
    <3>. QED BY <1>2, <3>2
  <2>. QED BY <1>2, <1>11, <2>1 DEF Distinct
<1>14. ASSUME NEW f \in Names
       PROVE  (\E i \in 1..n : c[i] = f) <=> Factor(t)[f].magnitude >= MIN_REPORTED
  <2>1. PICK x \in 1..5 : FACTORS[x] = f
      BY <1>7
  <2>2. x \in S <=> Factor(t)[f].magnitude >= MIN_REPORTED
      BY <1>8, <2>1
  <2>3. ASSUME NEW i \in 1..n, c[i] = f PROVE x \in S
      BY <1>6, <1>7, <1>11, <2>1, <2>3
  <2>4. ASSUME x \in S PROVE \E i \in 1..n : c[i] = f
    <3>1. Cardinality(b[x]) \in 0..(n - 1)
        BY <1>5, <2>4
    <3>. DEFINE i == Cardinality(b[x]) + 1
    <3>2. i \in 1..n /\ i - 1 = Cardinality(b[x])
        BY <1>2, <3>1
    <3>. HIDE DEF i
    <3>3. at(i) = x
        BY <1>5, <1>6, <2>4, <3>2
    <3>. QED BY <1>11, <2>1, <3>2, <3>3
  <2>. QED BY <2>2, <2>3, <2>4
<1>15. ASSUME NEW i \in 1..n, NEW j \in 1..n, i < j
       PROVE  Contribution(t, c[i]) >= Contribution(t, c[j])
  <2>1. at(i) \in S /\ at(j) \in S /\ Cardinality(b[at(i)]) = i - 1 /\ Cardinality(b[at(j)]) = j - 1
      BY <1>6
  <2>2. Cardinality(b[at(i)]) < Cardinality(b[at(j)])
      BY <1>2, <1>15, <2>1
  <2>3. at(i) \in b[at(j)]
      BY <1>3, <1>4, <2>1, <2>2
  <2>4. p[at(i)] >= p[at(j)]
    <3>1. p[at(i)] > p[at(j)] \/ p[at(i)] = p[at(j)]
        BY <1>9, <2>1, <2>3
    <3>2. p[at(i)] \in Nat /\ p[at(j)] \in Nat
        BY <1>2, <2>1
    <3>. QED BY <3>1, <3>2
  <2>. QED BY <1>10, <1>11, <2>1, <2>4
<1>. QED BY <1>11, <1>12, <1>13, <1>14, <1>15

-----------------------------------------------------------------------------
(* What the explanation says of the score.                                 *)

LEMMA VerdictIs ==
    ASSUME NEW t, NEW v \in score_transaction(t)
    PROVE  /\ v.score \in Roundings(Total(t)) /\ v.level = risk_level(v.score)
           /\ v.contributions = contributions(t) /\ v.summary = Summary(t, contributions(t))
BY DEF score_transaction

\* What is not listed is less than a twentieth of its weight; what is listed is
\* shown to half a hundredth of a point.
LEMMA ReportedFits ==
    ASSUME NEW t, Known(t), NEW s \in Roundings(Total(t)), NEW c, c = contributions(t)
    PROVE  Abs(100 * s - Reported(t, c)) <= 555
<1>. DEFINE w == ContributionsOf(t)
            d(f) == Share(c, w, DOMAIN c, f)
            p(f) == Points(t, f)
<1>1. Reported(t, c) = Shares(c, w, DOMAIN c)
    BY ContributionsAre, PointTypes, ReportedIs
<1>2. Reported(t, c) = d("amount_anomaly") + d("balance_drain") + d("destination_anomaly")
                       + d("txn_type_risk") + d("round_amount_bias")
    BY <1>1 DEF Shares
<1>3. ASSUME NEW f \in Names
      PROVE  /\ d(f) \in Nat /\ p(f) \in Nat
             /\ p(f) + 20 >= 40 * d(f) /\ p(f) <= 40 * d(f) + FACTOR_WEIGHTS(f) * 199
  <2>1. w[f] = Contribution(t, f)
      BY DEF ContributionsOf
  <2>2. (\E i \in DOMAIN c : c[i] = f) <=> Factor(t)[f].magnitude >= MIN_REPORTED
      BY ContributionsAre
  <2>3. FACTOR_WEIGHTS(f) \in Nat /\ FACTOR_WEIGHTS(f) * 199 \in Nat /\ FACTOR_WEIGHTS(f) * 199 >= 20
      BY Weights DEF Names
  <2>4. MIN_REPORTED \in Nat /\ Factor(t)[f].magnitude \in Nat
      BY MagnitudeTypes DEF MIN_REPORTED, One, Upto
  <2>5. CASE Factor(t)[f].magnitude >= MIN_REPORTED
    <3>1. d(f) = Contribution(t, f)
        BY <2>1, <2>2, <2>5 DEF Share
    <3>. DEFINE q == FACTOR_WEIGHTS(f) * 199
    <3>2. /\ p(f) \in Nat /\ Contribution(t, f) \in Nat
          /\ 40 * Contribution(t, f) <= p(f) + 20 /\ p(f) < 40 * Contribution(t, f) + 20
        BY PointTypes
    <3>3. q \in Nat /\ q >= 20
        BY <2>3
    <3>. HIDE DEF d, p, q
    <3>4. d(f) \in Nat /\ p(f) + 20 >= 40 * d(f) /\ p(f) <= 40 * d(f) + q
        BY <3>1, <3>2, <3>3
    <3>. QED BY <3>2, <3>4 DEF q
  <2>6. CASE Factor(t)[f].magnitude < MIN_REPORTED
    <3>1. d(f) = 0
        BY <2>2, <2>4, <2>6 DEF Share
    <3>. DEFINE q == FACTOR_WEIGHTS(f) * 199
    <3>2. p(f) \in Nat /\ p(f) <= q /\ q \in Nat
        BY <2>3, <2>6, PointTypes
    <3>. HIDE DEF d, p, q
    <3>3. d(f) \in Nat /\ p(f) + 20 >= 40 * d(f) /\ p(f) <= 40 * d(f) + q
        BY <3>1, <3>2
    <3>. QED BY <3>2, <3>3 DEF q
  <2>. QED BY <2>4, <2>5, <2>6
<1>4. /\ s \in 0..100 /\ Total(t) \in Nat
      /\ 4000 * s <= Total(t) + 2000 /\ Total(t) <= 4000 * s + 2000
      /\ Total(t) = p("amount_anomaly") + p("balance_drain") + p("destination_anomaly")
                    + p("txn_type_risk") + p("round_amount_bias")
    BY ScoreIs
<1>. DEFINE R == Reported(t, c)
<1>5. R \in Nat /\ 40 * R <= Total(t) + 100 /\ Total(t) <= 40 * R + 19900
  <2>. HIDE DEF d, p
  <2>. QED BY <1>2, <1>3, <1>4, Weights DEF Names
<1>. HIDE DEF R
<1>6. 100 * s - R <= 555 /\ R - 100 * s <= 555
    BY <1>4, <1>5
<1>7. Abs(100 * s - R) <= 555
    BY <1>4, <1>5, <1>6 DEF Abs
<1>. QED BY <1>7 DEF R

\* The biggest contribution comes first, up to its rounding.
LEMMA ReportedSorted ==
    ASSUME NEW t, Known(t), NEW c, c = contributions(t),
           NEW i \in DOMAIN c, NEW j \in DOMAIN c, i < j
    PROVE  Points(t, c[i]) + One \div 100 > Points(t, c[j])
<1>1. c[i] \in Names /\ c[j] \in Names /\ Contribution(t, c[i]) >= Contribution(t, c[j])
    BY ContributionsAre DEF Distinct
<1>2. One \div 100 = 40
    BY DEF One
<1>. QED BY <1>1, <1>2, PointTypes

LEMMA ClauseOf ==
    ASSUME NEW m, NEW r, r = [magnitude |-> m, clause |-> m > 0]
    PROVE  r.clause <=> r.magnitude > 0
OBVIOUS

\* Every factor but the type has a clause when it is listed.
LEMMA Clauses ==
    ASSUME NEW t, Known(t), NEW f \in Names, ~Factor(t)[f].clause,
           Factor(t)[f].magnitude >= MIN_REPORTED
    PROVE  f = "txn_type_risk" /\ Points(t, f) <= 20000
<1>1. MIN_REPORTED = 200
    BY DEF MIN_REPORTED, One
<1>2. CASE f = "amount_anomaly"
  <2>1. Factor(t)[f] = amount_anomaly(t)
      BY <1>2, FactorIs
  <2>2. amount_anomaly(t).clause
      BY Zenon DEF amount_anomaly
  <2>. QED BY <2>1, <2>2
<1>3. CASE f = "balance_drain"
  <2>1. Factor(t)[f] = balance_drain(t) /\ Upto(4000, Factor(t)[f].magnitude)
      BY <1>3, FactorIs, MagnitudeTypes
  <2>2. balance_drain(t).clause <=> balance_drain(t).magnitude > 0
      BY DEF balance_drain
  <2>. QED BY <1>1, <2>1, <2>2 DEF Upto
<1>4. CASE f = "destination_anomaly"
  <2>1. Factor(t)[f] = destination_anomaly(t) /\ Upto(4000, Factor(t)[f].magnitude)
      BY <1>4, FactorIs, MagnitudeTypes
  <2>2. destination_anomaly(t).clause <=> destination_anomaly(t).magnitude > 0
      BY DEF destination_anomaly
  <2>. QED BY <1>1, <2>1, <2>2 DEF Upto
<1>5. CASE f = "round_amount_bias"
  <2>1. Factor(t)[f] = round_amount_bias(t) /\ Upto(4000, Factor(t)[f].magnitude)
      BY <1>5, FactorIs, MagnitudeTypes
  <2>2. round_amount_bias(t).clause <=> round_amount_bias(t).magnitude > 0
    <3>. DEFINE of(dollars) == t.amount % (dollars \div 50) = 0
                m == CASE t.amount = 0 -> 0
                       [] of(10000) -> One [] of(5000) -> (8 * One) \div 10
                       [] of(1000) -> (6 * One) \div 10 [] of(100) -> (3 * One) \div 10
                       [] OTHER -> 0
    <3>1. round_amount_bias(t) = [magnitude |-> m, clause |-> m > 0]
        BY DEF round_amount_bias
    <3>. HIDE DEF m
    <3>. QED BY <3>1, ClauseOf
  <2>. QED BY <1>1, <2>1, <2>2 DEF Upto
<1>6. CASE f = "txn_type_risk"
  <2>. DEFINE m == Factor(t)[f].magnitude
  <2>1. Factor(t)[f] = txn_type_risk(t) /\ m \in Nat /\ m <= 4000
      BY <1>6, FactorIs, MagnitudeTypes DEF Upto
  <2>2. txn_type_risk(t).clause <=> 2 * txn_type_risk(t).magnitude >= 4000
    <3>1. txn_type_risk(t).clause <=> 2 * txn_type_risk(t).magnitude >= One
        BY Zenon DEF txn_type_risk
    <3>. QED BY <3>1, OneIs
  <2>3. 2 * m < 4000
      BY <2>1, <2>2
  <2>4. Points(t, f) = 10 * m
      BY <1>6, Weights DEF Points
  <2>. HIDE DEF m
  <2>. QED BY <1>6, <2>1, <2>3, <2>4
<1>. QED BY <1>2, <1>3, <1>4, <1>5, <1>6 DEF Names

\* A summary without clauses lists the type at most, and that too weakly.
LEMMA NothingOfNote ==
    ASSUME NEW t, Known(t), NEW s \in Roundings(Total(t)), Summary(t, contributions(t)) = {}
    PROVE  risk_level(s) = "CLEAR"
<1>. DEFINE c == contributions(t)
            first == Least(3, Len(c))
<1>1. /\ Distinct(c) /\ c \in Seq(Names)
      /\ \A f \in Names :
            (\E i \in DOMAIN c : c[i] = f) <=> Factor(t)[f].magnitude >= MIN_REPORTED
    BY ContributionsAre
<1>. HIDE DEF c
<1>2. Len(c) \in Nat /\ DOMAIN c = 1..Len(c)
    BY <1>1
<1>3. first \in Nat /\ first <= Len(c) /\ (Len(c) >= 1 => first >= 1) /\ (Len(c) >= 2 => first >= 2)
    BY <1>2 DEF Least
<1>. HIDE DEF first
<1>4. ASSUME NEW i \in 1..first PROVE c[i] = "txn_type_risk" /\ Points(t, c[i]) <= 20000
  <2>1. i \in DOMAIN c /\ c[i] \in Names
      BY <1>1, <1>2, <1>3
  <2>2. c[i] \in ToSet(SubSeq(c, 1, first))
    <3>1. DOMAIN SubSeq(c, 1, first) = 1..first /\ SubSeq(c, 1, first)[i] = c[i]
        BY <1>1, <1>2, <1>3
    <3>. QED BY <3>1 DEF ToSet
  <2>3. ~Factor(t)[c[i]].clause
      BY <2>2 DEF Summary, c, first
  <2>4. Factor(t)[c[i]].magnitude >= MIN_REPORTED
      BY <1>1, <2>1
  <2>. QED BY <2>1, <2>3, <2>4, Clauses
<1>5. Len(c) < 2
  <2>1. SUFFICES ASSUME Len(c) >= 2 PROVE FALSE
      BY <1>2
  <2>2. 1 \in 1..first /\ 2 \in 1..first /\ 1 \in DOMAIN c /\ 2 \in DOMAIN c
      BY <1>2, <1>3, <2>1
  <2>. QED BY <1>1, <1>4, <2>2 DEF Distinct
<1>6. ASSUME NEW f \in Names
      PROVE  IF f = "txn_type_risk" THEN Points(t, f) <= 20000
             ELSE Points(t, f) <= FACTOR_WEIGHTS(f) * 199
  <2>1. CASE \E i \in DOMAIN c : c[i] = f
    <3>1. 1 \in DOMAIN c /\ c[1] = f /\ 1 \in 1..first
        BY <1>2, <1>3, <1>5, <2>1
    <3>. QED BY <1>4, <3>1
  <2>2. CASE ~\E i \in DOMAIN c : c[i] = f
    <3>1. Factor(t)[f].magnitude < MIN_REPORTED
      <4>1. Factor(t)[f].magnitude \in Nat /\ MIN_REPORTED \in Nat
          BY MagnitudeTypes DEF MIN_REPORTED, One, Upto
      <4>. QED BY <1>1, <2>2, <4>1
    <3>2. Points(t, f) <= FACTOR_WEIGHTS(f) * 199
        BY <3>1, PointTypes
    <3>3. f = "txn_type_risk" => FACTOR_WEIGHTS(f) * 199 = 1990 /\ Points(t, f) \in Nat
        BY Weights, PointTypes
    <3>. QED BY <3>2, <3>3
  <2>. QED BY <2>1, <2>2
<1>7. Total(t) <= 90 * 199 + 20000
    BY <1>6, ScoreIs, Weights, PointTypes DEF Names
<1>8. s \in 0..100 /\ 4000 * s <= Total(t) + 2000 /\ Total(t) \in Nat
    BY ScoreIs
<1>9. s <= 40
    BY <1>7, <1>8
<1>. QED BY <1>9 DEF risk_level

\* The other four factors make 75 points at most.
LEMMA CriticalIsDrained ==
    ASSUME NEW t, Known(t), NEW s \in Roundings(Total(t)), risk_level(s) = "CRITICAL"
    PROVE  Points(t, "balance_drain") > 0
<1>1. s \in 0..100 /\ s > 75
    BY ScoreIs DEF risk_level
<1>2. /\ Total(t) \in Nat /\ 4000 * s <= Total(t) + 2000
      /\ Total(t) = Points(t, "amount_anomaly") + Points(t, "balance_drain")
                    + Points(t, "destination_anomaly") + Points(t, "txn_type_risk")
                    + Points(t, "round_amount_bias")
    BY ScoreIs
<1>3. /\ Points(t, "amount_anomaly") <= 140000 /\ Points(t, "destination_anomaly") <= 80000
      /\ Points(t, "txn_type_risk") <= 40000 /\ Points(t, "round_amount_bias") <= 40000
      /\ \A f \in Names : Points(t, f) \in Nat
    BY PointTypes, Weights DEF Names
<1>. QED BY <1>1, <1>2, <1>3 DEF Names

-----------------------------------------------------------------------------
(* Two scorings that differ in one balance.                                *)

LEMMA OtherFields ==
    ASSUME NEW t, Known(t), NEW b \in Balances, NEW u,
           \/ u = [t EXCEPT !.orig_balance_after = b]
           \/ u = [t EXCEPT !.dest_balance_before = b]
    PROVE  /\ Known(u) /\ u.amount = t.amount /\ u.txn_type = t.txn_type
           /\ u.orig_balance_before = t.orig_balance_before
           /\ u.dest_balance_after = t.dest_balance_after
BY FraudScoreAssumption DEF Known, Txn

\* Neither balance is part of the amount, the type or the roundness.
LEMMA OtherPoints ==
    ASSUME NEW t, NEW u, u.amount = t.amount, u.txn_type = t.txn_type
    PROVE  /\ Points(u, "amount_anomaly") = Points(t, "amount_anomaly")
           /\ Points(u, "txn_type_risk") = Points(t, "txn_type_risk")
           /\ Points(u, "round_amount_bias") = Points(t, "round_amount_bias")
<1>1. amount_anomaly(u) = amount_anomaly(t) /\ txn_type_risk(u) = txn_type_risk(t)
    BY DEF amount_anomaly, txn_type_risk
<1>2. round_amount_bias(u) = round_amount_bias(t)
    BY DEF round_amount_bias
<1>. QED BY <1>1, <1>2, FactorIs DEF Points

LEMMA SumsOf ==
    ASSUME NEW t, Known(t), NEW u, Known(u),
           Points(u, "amount_anomaly") = Points(t, "amount_anomaly"),
           Points(u, "txn_type_risk") = Points(t, "txn_type_risk"),
           Points(u, "round_amount_bias") = Points(t, "round_amount_bias")
    PROVE  Total(u) - Total(t)
              = Points(u, "balance_drain") - Points(t, "balance_drain")
                + Points(u, "destination_anomaly") - Points(t, "destination_anomaly")
<1>1. \A f \in Names : Points(t, f) \in Int /\ Points(u, f) \in Int
    BY PointTypes
<1>2. Total(t) = Points(t, "amount_anomaly") + Points(t, "balance_drain")
                 + Points(t, "destination_anomaly") + Points(t, "txn_type_risk")
                 + Points(t, "round_amount_bias")
    BY <1>1, TotalIs
<1>3. Total(u) = Points(u, "amount_anomaly") + Points(u, "balance_drain")
                 + Points(u, "destination_anomaly") + Points(u, "txn_type_risk")
                 + Points(u, "round_amount_bias")
    BY <1>1, TotalIs
<1>. QED BY <1>1, <1>2, <1>3 DEF Names

\* A drained account has the whole weight of its factor.
LEMMA DrainingPushesUp ==
    ASSUME NEW t, Known(t), NEW b \in Balances, NEW u, u = [t EXCEPT !.orig_balance_after = b],
           t.orig_balance_before > 0, u.orig_balance_after = 0,
           NEW r \in Roundings(Total(t)), NEW s \in Roundings(Total(u))
    PROVE  s >= r - 1
<1>1. /\ Known(u) /\ u.amount = t.amount /\ u.txn_type = t.txn_type
      /\ u.orig_balance_before = t.orig_balance_before
      /\ u.dest_balance_after = t.dest_balance_after
    BY OtherFields
<1>2. u.dest_balance_before = t.dest_balance_before
    BY DEF Known, Txn
<1>3. destination_anomaly(u) = destination_anomaly(t)
    BY <1>1, <1>2 DEF destination_anomaly
<1>4. Points(u, "destination_anomaly") = Points(t, "destination_anomaly")
    BY <1>3, FactorIs DEF Points
<1>5. Points(u, "balance_drain") = 100000 /\ Points(t, "balance_drain") <= 100000
  <2>1. balance_drain(u).magnitude = 4000
      BY <1>1, KnownTypes DEF balance_drain, Drained, One
  <2>2. Points(u, "balance_drain") = 100000
      BY <2>1, FactorIs, Weights DEF Points
  <2>. QED BY <2>2, PointTypes, Weights DEF Names
<1>6. \A f \in Names : Points(t, f) \in Nat /\ Points(u, f) \in Nat
    BY <1>1, PointTypes
<1>7. Total(u) >= Total(t)
  <2>1. Total(u) - Total(t) = Points(u, "balance_drain") - Points(t, "balance_drain")
           + Points(u, "destination_anomaly") - Points(t, "destination_anomaly")
      BY <1>1, OtherPoints, SumsOf
  <2>2. Total(u) \in Nat /\ Total(t) \in Nat
      BY <1>1, ScoreIs
  <2>. QED BY <1>4, <1>5, <1>6, <2>1, <2>2 DEF Names
<1>8. /\ r \in 0..100 /\ Total(t) \in Nat /\ 4000 * r <= Total(t) + 2000
      /\ s \in 0..100 /\ Total(u) \in Nat /\ Total(u) <= 4000 * s + 2000
    BY <1>1, ScoreIs
<1>. QED BY <1>7, <1>8

\* An account that was empty weighs 0.6 of its factor at least, one that held
\* something nothing.
LEMMA KnowingPushesDown ==
    ASSUME NEW t, Known(t), NEW b \in Balances, NEW u, u = [t EXCEPT !.dest_balance_before = b],
           t.dest_balance_before = 0, u.dest_balance_before > 0,
           NEW r \in Roundings(Total(t)), NEW s \in Roundings(Total(u))
    PROVE  s <= r - 11
<1>1. /\ Known(u) /\ u.amount = t.amount /\ u.txn_type = t.txn_type
      /\ u.orig_balance_before = t.orig_balance_before
      /\ u.dest_balance_after = t.dest_balance_after
    BY OtherFields
<1>2. u.orig_balance_after = t.orig_balance_after
    BY DEF Known, Txn
<1>3. balance_drain(u) = balance_drain(t)
    BY <1>1, <1>2 DEF balance_drain, Drained, Mismatch, Discrepancy
<1>4. Points(u, "balance_drain") = Points(t, "balance_drain")
    BY <1>3, FactorIs DEF Points
<1>5. Points(u, "destination_anomaly") = 0
  <2>1. destination_anomaly(u).magnitude = 0
      BY DEF destination_anomaly
  <2>. QED BY <2>1, FactorIs, Weights DEF Points
<1>6. Points(t, "destination_anomaly") >= 48000
  <2>. DEFINE a == Least(t.amount, 4000)
              m == destination_anomaly(t).magnitude
  <2>1. a \in Nat
      BY KnownTypes, LeastTypes, OneIs DEF Upto
  <2>2. m \in {4000, (6 * 4000 + 4 * a) \div 10}
    <3>. HIDE DEF a
    <3>1. a = Least(t.amount, 4000)
        BY DEF a
    <3>. QED BY <3>1 DEF destination_anomaly, One
  <2>. HIDE DEF a
  <2>3. m >= 2400 /\ m \in Nat
    <3>. HIDE DEF m
    <3>. QED BY <2>1, <2>2
  <2>4. Points(t, "destination_anomaly") = 20 * m
      BY FactorIs, Weights DEF Points
  <2>. HIDE DEF m
  <2>. QED BY <2>3, <2>4
<1>7. \A f \in Names : Points(t, f) \in Nat /\ Points(u, f) \in Nat
    BY <1>1, PointTypes
<1>8. Total(u) + 48000 <= Total(t)
  <2>1. Total(u) - Total(t) = Points(u, "balance_drain") - Points(t, "balance_drain")
           + Points(u, "destination_anomaly") - Points(t, "destination_anomaly")
      BY <1>1, OtherPoints, SumsOf
  <2>2. Total(u) \in Nat /\ Total(t) \in Nat
      BY <1>1, ScoreIs
  <2>. QED BY <1>4, <1>5, <1>6, <1>7, <2>1, <2>2 DEF Names
<1>9. /\ r \in 0..100 /\ Total(t) \in Nat /\ Total(t) <= 4000 * r + 2000
      /\ s \in 0..100 /\ Total(u) \in Nat /\ 4000 * s <= Total(u) + 2000
    BY <1>1, ScoreIs
<1>. QED BY <1>8, <1>9

LEMMA LevelsFollow ==
    ASSUME NEW r \in 0..100, NEW s \in 0..100, s >= r
    PROVE  Ranks[risk_level(s)] >= Ranks[risk_level(r)]
BY DEF Ranks, risk_level

-----------------------------------------------------------------------------
(* The theorems.                                                           *)

\* The verdict is one of those of the transaction; without balances there is none.
IInv ==
    /\ txn \in Txn
    /\ IF txn.dest_balance_before = None THEN verdict = None
       ELSE verdict \in score_transaction(txn)

LEMMA NextKeeps ==
    ASSUME IInv, [Next]_vars PROVE IInv'
<1>1. ASSUME NEW t \in Txn, Scored(t) PROVE IInv'
    BY <1>1 DEF Scored, IInv
<1>2. ASSUME NEW b \in Balances, Receiver(b) \/ Sender(b) PROVE IInv'
  <2>1. /\ [txn EXCEPT !.dest_balance_before = b] \in Txn
        /\ [txn EXCEPT !.orig_balance_after = b] \in Txn
      BY DEF IInv, Txn
  <2>. QED BY <1>1, <1>2, <2>1 DEF Receiver, Sender
<1>3. CASE UNCHANGED vars
    BY <1>3 DEF vars, IInv
<1>. QED BY <1>2, <1>3 DEF Next

\* TransactionInput and score_transaction: what is stored with a transaction is
\* its score, level and explanation, after any number of calls.
THEOREM VerdictBelongs == Spec => []IInv
<1>1. Init => IInv
    BY DEF Init, IInv
<1>. QED BY <1>1, NextKeeps, PTL DEF Spec

LEMMA InvKnown ==
    ASSUME IInv, verdict # None
    PROVE  Known(txn) /\ verdict \in score_transaction(txn)
BY DEF IInv, Known

\* score_transaction: whatever the amounts and balances, the listed factors
\* account for the score, in order; the summary goes with the level, and none is
\* CRITICAL on the other four factors alone.
THEOREM ExplanationsFit == Spec => []ExplanationFitsScore
<1>1. IInv => ExplanationFitsScore
  <2>. SUFFICES ASSUME IInv, verdict # None PROVE ExplanationFitsScore
      BY DEF ExplanationFitsScore
  <2>. DEFINE c == verdict.contributions
              s == verdict.score
  <2>1. Known(txn)
      BY InvKnown
  <2>2. /\ s \in Roundings(Total(txn)) /\ verdict.level = risk_level(s)
        /\ c = contributions(txn) /\ verdict.summary = Summary(txn, contributions(txn))
      BY InvKnown, VerdictIs
  <2>. HIDE DEF c, s
  <2>3. Abs(100 * s - FoldSeq(LAMBDA f, sum : sum + Contribution(txn, f), 0, c)) <= 555
    <3>1. Abs(100 * s - Reported(txn, c)) <= 555
        BY <2>1, <2>2, ReportedFits
    <3>. QED BY <3>1 DEF Reported
  <2>4. \A m, n \in DOMAIN c : m < n => Points(txn, c[m]) + One \div 100 > Points(txn, c[n])
      BY <2>1, <2>2, ReportedSorted
  <2>5. verdict.summary = {} => verdict.level = "CLEAR"
      BY <2>1, <2>2, NothingOfNote
  <2>6. verdict.level = "CRITICAL" => Points(txn, "balance_drain") > 0
      BY <2>1, <2>2, CriticalIsDrained
  <2>. QED BY <2>3, <2>4, <2>5, <2>6 DEF ExplanationFitsScore, c, s
<1>. QED BY <1>1, VerdictBelongs, PTL

\* The five factors only add: knowing more of one balance moves the score, and
\* with it the level, in one direction, for every amount and balance.
THEOREM BalancesPush == Spec => BalancesPushOneWay
<1>1. ASSUME IInv, [Next]_vars, IInv', verdict # None, verdict' # None, ~UNCHANGED vars
      PROVE  /\ txn.orig_balance_before > 0 /\ txn'.orig_balance_after = 0
                /\ txn'.dest_balance_before = txn.dest_balance_before =>
                      verdict'.score >= verdict.score - 1
             /\ txn.dest_balance_before = 0 /\ txn'.dest_balance_before > 0 =>
                      verdict'.score <= verdict.score - 11
             /\ verdict'.score >= verdict.score => Ranks[verdict'.level] >= Ranks[verdict.level]
  <2>. DEFINE r == verdict.score
              s == verdict'.score
  <2>1. Known(txn) /\ verdict \in score_transaction(txn)
      BY <1>1, InvKnown
  <2>2. Known(txn') /\ verdict' \in score_transaction(txn')
      BY <1>1 DEF IInv, Known
  <2>3. /\ r \in Roundings(Total(txn)) /\ verdict.level = risk_level(r)
        /\ s \in Roundings(Total(txn')) /\ verdict'.level = risk_level(s)
      BY <2>1, <2>2, VerdictIs
  <2>4. r \in 0..100 /\ s \in 0..100
      BY <2>1, <2>2, <2>3, ScoreIs
  <2>5. PICK b \in Balances :
            \/ b # txn.dest_balance_before /\ txn' = [txn EXCEPT !.dest_balance_before = b]
            \/ txn' = [txn EXCEPT !.orig_balance_after = b]
      BY <1>1 DEF Next, Receiver, Sender, Scored
  <2>. HIDE DEF r, s
  <2>6. CASE txn' = [txn EXCEPT !.orig_balance_after = b]
    <3>1. txn'.dest_balance_before = txn.dest_balance_before
        BY <2>1, <2>6 DEF Known, Txn
    <3>2. txn.orig_balance_before > 0 /\ txn'.orig_balance_after = 0 => s >= r - 1
        BY <2>1, <2>3, <2>6, DrainingPushesUp
    <3>3. ~(txn.dest_balance_before = 0 /\ txn'.dest_balance_before > 0)
        BY <3>1
    <3>. QED BY <2>3, <2>4, <3>2, <3>3, LevelsFollow DEF r, s
  <2>7. CASE b # txn.dest_balance_before /\ txn' = [txn EXCEPT !.dest_balance_before = b]
    <3>1. txn'.dest_balance_before # txn.dest_balance_before
        BY <2>1, <2>7 DEF Known, Txn
    <3>2. txn.dest_balance_before = 0 /\ txn'.dest_balance_before > 0 => s <= r - 11
        BY <2>1, <2>3, <2>7, KnowingPushesDown
    <3>. QED BY <2>3, <2>4, <3>1, <3>2, LevelsFollow DEF r, s
  <2>. QED BY <2>5, <2>6, <2>7
<1>. QED BY <1>1, VerdictBelongs, PTL DEF Spec, BalancesPushOneWay
=============================================================================
