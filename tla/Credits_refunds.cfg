\* One request paid from two buckets, three refunds, room for one bonus bucket; prices
\* and modes change between quote, confirmation, acceptance and settlement.
CONSTANTS
    Buckets = {1, 2, 3}
    Tasks = {t1}
    Holds = {h1}
    Requests = {r1}
    Refunds = {f1, f2, f3}
    Capabilities = {"match_columns"}
    Granted <- LastingPair
    InitialPrices <- TwoCredits
    NewPrices <- CallOrFree
    CallCounts = {1}
    Totals = {2, 3}
    LegacyAmounts = {}
    RefundAmounts = {1, 2}
    Grants <- None
    Extensions = {1}
    Revocable = {1, 2}
    MaxBudget = 10
    QuoteTTL = 1
    HoldTTL = 2
    PriceTTL = 1
    CacheTTL = 2
    BonusTTL = 3
    MaxNow = 3
    MaxVersion = 2
SPECIFICATION Spec
SYMMETRY Symmetric
\* Clock, rows and price versions are bounded, so a run may end.
CHECK_DEADLOCK FALSE
INVARIANTS RefundedWithinDebit UsedMatchesLedger ChargedExactly
PROPERTY SpendingIsFinal
