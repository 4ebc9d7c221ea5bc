\* Two tasks with an authorization or a legacy hold each and two requests; a second
\* bucket, which ends first, may be granted and revoked.
CONSTANTS
    Buckets = {1, 2}
    Tasks = {t1, t2}
    Holds = {h1, h2}
    Requests = {r1, r2}
    Refunds = {}
    Capabilities = {"match_columns"}
    Granted <- OneOfTwo
    InitialPrices <- OneCredit
    NewPrices <- None
    CallCounts = {1}
    Totals = {2}
    LegacyAmounts = {1}
    RefundAmounts = {}
    Grants <- GrantBase
    Extensions = {}
    Revocable = {2}
    MaxBudget = 10
    QuoteTTL = 1
    HoldTTL = 2
    PriceTTL = 3
    CacheTTL = 2
    BonusTTL = 3
    MaxNow = 2
    MaxVersion = 1
SPECIFICATION Spec
SYMMETRY Symmetric
\* Clock, rows and price versions are bounded, so a run may end.
CHECK_DEADLOCK FALSE
INVARIANTS TypeOK NoOvercommit AcceptedIsPayable WithinAuthorization OneOpenHoldPerTask
PROPERTY LegacyStaysCovered
