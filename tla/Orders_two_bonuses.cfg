\* Two first orders completed at the same time.
CONSTANTS
    OrderIds = {o1, o2}
    Callbacks = {c1, c2}
    MaxFailures = 0
    BonusPlan = TRUE
SPECIFICATION Spec
INVARIANT BonusOnce
