\* The expiry job between a callback's read and its UPDATE.
CONSTANTS
    OrderIds = {o1, o2}
    Callbacks = {c1, c2}
    MaxFailures = 0
    BonusPlan = TRUE
SPECIFICATION Spec
INVARIANT ConfirmedIsPaid
