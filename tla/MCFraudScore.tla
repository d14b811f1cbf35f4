---------------------------- MODULE MCFraudScore ----------------------------
(***************************************************************************)
(* Amounts and balances for TLC: every magnitude they lead to is exact.    *)
(***************************************************************************)
EXTENDS FraudScore

\* $0, $250, $500, $1000, $5000, $10 000, $50 000, $100 000, $200 000, $250 000
TheAmounts  == {0, 5, 10, 20, 100, 200, 1000, 2000, 4000, 5000}
TheBalances == {0, 5, 200, 4000, 5000}
=============================================================================
