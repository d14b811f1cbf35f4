----------------------------- MODULE FraudScore -----------------------------
(***************************************************************************)
(* The rule-based scorer: five weighted factors, a score, a level and the  *)
(* explanation that is stored with it. The service keeps nothing between   *)
(* two calls: here it is called again and again, each time with a balance  *)
(* that differs, so that two of its answers can be compared.               *)
(*                                                                         *)
(*   ml_service/app/models/fraud_engine.py                                 *)
(*   ml_service/app/schemas/prediction.py        TransactionInput          *)
(*   backend/src/modules/predictions/mlClient.js toMlRequest               *)
(*   frontend/src/components/EvidenceLedger.jsx  what is made of the result*)
(*                                                                         *)
(* Money is in Units of 50 dollars and magnitudes are in Units'ths of      *)
(* HIGH_AMOUNT_THRESHOLD, so that everything up to the final rounding is   *)
(* exact; a score that ends in one half is rounded either way, as floats   *)
(* may make it.                                                            *)
(***************************************************************************)
EXTENDS Integers, Sequences, FiniteSets, SequencesExt

CONSTANTS
    Amounts,  \* amounts there are
    Balances, \* balances there are
    None      \* a balance that is not known

One == 4000 \* HIGH_AMOUNT_THRESHOLD, in units; also the magnitude 1.0

ASSUME FraudScoreAssumption ==
    /\ Amounts \subseteq Nat /\ Balances \subseteq Nat /\ {0, One} \subseteq Balances
    /\ None \notin Nat

Types == {"TRANSFER", "CASH_OUT", "PAYMENT", "CASH_IN", "DEBIT"}

\* TransactionInput, before toMlRequest has refused what is missing.
Txn == [txn_type : Types, amount : Amounts,
        orig_balance_before : Balances, orig_balance_after : Balances,
        dest_balance_before : Balances \union {None}, dest_balance_after : Balances]

VARIABLES txn, verdict

vars == <<txn, verdict>>

-----------------------------------------------------------------------------
(* Factors. A factor has a magnitude and may have a clause for the summary.*)

FACTORS == <<"amount_anomaly", "balance_drain", "destination_anomaly", "txn_type_risk",
             "round_amount_bias">>

FACTOR_WEIGHTS(f) ==
    CASE f = "amount_anomaly" -> 35 [] f = "balance_drain" -> 25
      [] f = "destination_anomaly" -> 20 [] OTHER -> 10

Least(a, b) == IF a < b THEN a ELSE b
Abs(a) == IF a < 0 THEN -a ELSE a

amount_anomaly(t) == [magnitude |-> Least(t.amount, One), clause |-> TRUE]

\* A tolerance of one dollar is less than a unit, and so is max(amount, 1.0).
Discrepancy(t) ==
    Abs(IF t.txn_type = "CASH_IN" THEN t.orig_balance_before + t.amount - t.orig_balance_after
        ELSE t.orig_balance_before - t.amount - t.orig_balance_after)

Mismatch(t) ==
    IF Discrepancy(t) = 0 THEN 0
    ELSE IF t.amount = 0 THEN One
    ELSE Least((One * Discrepancy(t)) \div t.amount, One)

\* Mutant: only books that do not balance count.
Drained_Never(t) == FALSE

Drained(t) == t.orig_balance_before > 0 /\ t.orig_balance_after = 0

balance_drain(t) ==
    LET m == IF Drained(t) THEN One ELSE Mismatch(t)
    IN  [magnitude |-> m, clause |-> m > 0]

\* 0.6 for an account that was empty, and up to 0.4 for what it is sent
destination_anomaly(t) ==
    LET m == IF t.dest_balance_before > 0 THEN 0
             ELSE IF t.amount > 0 /\ t.dest_balance_after = 0 THEN One
             ELSE (6 * One + 4 * Least(t.amount, One)) \div 10
    IN  [magnitude |-> m, clause |-> m > 0]

TXN_TYPE_RISK(type) ==
    CASE type = "TRANSFER" -> One [] type = "CASH_OUT" -> (9 * One) \div 10
      [] type = "DEBIT" -> (3 * One) \div 10 [] type = "PAYMENT" -> One \div 5
      [] type = "CASH_IN" -> One \div 10

\* "only the genuinely risky ones earn a mention"
txn_type_risk(t) ==
    LET m == TXN_TYPE_RISK(t.txn_type) IN [magnitude |-> m, clause |-> 2 * m >= One]

\* multiples of 10000, 5000, 1000 and 100 dollars
round_amount_bias(t) ==
    LET of(dollars) == t.amount % (dollars \div 50) = 0
        m == CASE t.amount = 0 -> 0
               [] of(10000) -> One [] of(5000) -> (8 * One) \div 10
               [] of(1000) -> (6 * One) \div 10 [] of(100) -> (3 * One) \div 10
               [] OTHER -> 0
    IN  [magnitude |-> m, clause |-> m > 0]

Factor(t) == [f \in {FACTORS[n] : n \in 1..5} |->
    CASE f = "amount_anomaly" -> amount_anomaly(t)
      [] f = "balance_drain" -> balance_drain(t)
      [] f = "destination_anomaly" -> destination_anomaly(t)
      [] f = "txn_type_risk" -> txn_type_risk(t)
      [] f = "round_amount_bias" -> round_amount_bias(t)]

-----------------------------------------------------------------------------
(* The score and its explanation.                                          *)

Points(t, f) == FACTOR_WEIGHTS(f) * Factor(t)[f].magnitude

Total(t) == FoldSeq(LAMBDA f, sum : sum + Points(t, f), 0, FACTORS)

\* round(total * 100), a half either way
Roundings(total) ==
    {s \in 0..100 : 2 * Abs(total - s * One) <= One}

risk_level(s) ==
    IF s <= 40 THEN "CLEAR" ELSE IF s <= 75 THEN "SUSPICIOUS" ELSE "CRITICAL"

\* Mutant: a factor is reported from half its strength.
MIN_REPORTED_Half == One \div 2

MIN_REPORTED == One \div 20

\* round(contribution * 100, 2), in hundredths of a point
Contribution(t, f) == (200 * Points(t, f) + One) \div (2 * One)

\* The factors that are reported, by points; a stable sort: the n-th has n - 1
\* before it.
contributions(t) ==
    LET reported     == {n \in 1..5 : Factor(t)[FACTORS[n]].magnitude >= MIN_REPORTED}
        points       == [n \in reported |-> Contribution(t, FACTORS[n])]
        before(m, n) == points[m] > points[n] \/ (points[m] = points[n] /\ m < n)
    IN  [k \in 1..Cardinality(reported) |->
            FACTORS[CHOOSE n \in reported : Cardinality({m \in reported : before(m, n)}) = k - 1]]

\* The factors the summary is made of: those of the first three that have a
\* clause; without any it says that there are no risk factors of note.
Summary(t, c) ==
    {f \in ToSet(SubSeq(c, 1, Least(3, Len(c)))) : Factor(t)[f].clause}

score_transaction(t) ==
    LET c == contributions(t)
    IN  {[score |-> s, level |-> risk_level(s), contributions |-> c, summary |-> Summary(t, c)] :
           s \in Roundings(Total(t))}

-----------------------------------------------------------------------------
(* One call after another.                                                 *)

\* toMlRequest refuses a transaction without balances: there is no call.
Scored(t) ==
    /\ txn' = t
    /\ IF t.dest_balance_before = None THEN verdict' = None
       ELSE verdict' \in score_transaction(t)

Init ==
    /\ txn \in {t \in Txn : t.dest_balance_before = None}
    /\ verdict = None

\* The next call's transaction has another balance of the receiver's, or of the
\* sender's.
Receiver(b) == Scored([txn EXCEPT !.dest_balance_before = b])
Sender(b)   == Scored([txn EXCEPT !.orig_balance_after = b])

Next == \E b \in Balances : \/ b # txn.dest_balance_before /\ Receiver(b)
                            \/ b # txn.orig_balance_after /\ Sender(b)

Spec == Init /\ [][Next]_vars

-----------------------------------------------------------------------------
(* Properties.                                                             *)

\* "array is sorted by, so the first entry is genuinely the biggest driver", and
\* the summary goes with the level: what is reported accounts for all of the
\* score but five points, in order of weight; "no risk factors of note" is said
\* of CLEAR transactions only; and none is CRITICAL whose sender's balance is as
\* it should be.
ExplanationFitsScore ==
    verdict # None =>
        LET c == verdict.contributions
            reported == FoldSeq(LAMBDA f, sum : sum + Contribution(txn, f), 0, c)
        IN  /\ Abs(100 * verdict.score - reported) <= 555
            /\ \A m, n \in DOMAIN c : m < n => Points(txn, c[m]) + One \div 100 > Points(txn, c[n])
            /\ verdict.summary = {} => verdict.level = "CLEAR"
            /\ verdict.level = "CRITICAL" => Points(txn, "balance_drain") > 0

Ranks == [CLEAR |-> 1, SUSPICIOUS |-> 2, CRITICAL |-> 3]

\* The factors only ever push one way: nothing that is known of the other
\* balances makes it less risky to have emptied the sender's account, or riskier
\* to pay an account that held something. Both scorings are the code's, up to a
\* point of rounding.
BalancesPushOneWay ==
    [][verdict # None /\ verdict' # None =>
          /\ txn.orig_balance_before > 0 /\ txn'.orig_balance_after = 0
             /\ txn'.dest_balance_before = txn.dest_balance_before =>
                   verdict'.score >= verdict.score - 1
          /\ txn.dest_balance_before = 0 /\ txn'.dest_balance_before > 0 =>
                   verdict'.score <= verdict.score - 11
          /\ verdict'.score >= verdict.score => Ranks[verdict'.level] >= Ranks[verdict.level]]_vars

=============================================================================
