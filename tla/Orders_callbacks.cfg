\* Two orders, two callbacks at a time, two of which fail.
CONSTANTS
    OrderIds = {o1, o2}
    Callbacks = {c1, c2}
    MaxFailures = 2
    BonusPlan = TRUE
SPECIFICATION FairSpec
INVARIANTS BucketPerPaidOrder FirstPurchaseRewarded
PROPERTY PaymentConfirmed
