\* Two handlers race each other, recovery and cancellation; one process may die.
\* With liveness under the fairness of running processes, so no symmetry.
CONSTANTS
    Handlers = {h1, h2}
    MaxExecutions = 2
    MaxCalls = 2
    MaxCrashes = 1
SPECIFICATION FairSpec
INVARIANTS TypeOK ChargedOnce OneCallAtATime CancelledStaysOut
PROPERTIES EndedIsFinal UnknownIsNotRerun ImplementsFunds AcceptedEnds
\* A request that ended with nothing left to do.
CHECK_DEADLOCK FALSE
