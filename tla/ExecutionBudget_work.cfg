\* Two requests of a work, each its own recovery group; two clients extend the budget.
CONSTANTS
    Requests = {r1, r2}
    Groups = {g1, g2}
    GroupOf <- OwnGroups
    Executions = {1, 2}
    Extensions = {x1, x2}
    MaxAttempts = 2
    MaxTokens = 1
    MaxWait = 1
    RecoveryMaxAttempts = 1
    MaxExtensions = 2
    Offer <- OneMore
    CallTimeout = 1
    Reserves = {1}
    Overrun = 1
    MaxRecord = 2
SPECIFICATION Spec
SYMMETRY Symmetry
\* Requests end and the budget runs out.
CHECK_DEADLOCK FALSE
INVARIANTS TypeOK CallsCounted ReservationsBacked SpendingWithinLimits ExtendedOnce
PROPERTY EndedUsageIsFinal
