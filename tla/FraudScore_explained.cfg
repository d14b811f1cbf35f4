\* Every type, amounts on both sides of each threshold, balances that reconcile,
\* do not, and are drained.
SPECIFICATION Spec
CONSTANTS
    Amounts <- TheAmounts
    Balances <- TheBalances
    None = None
INVARIANTS
    ExplanationFitsScore
PROPERTIES
    BalancesPushOneWay
