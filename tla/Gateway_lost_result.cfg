\* A stored result is overwritten by a transaction that read the row before.
CONSTANTS
    Handlers = {h1, h2}
    MaxExecutions = 2
    MaxCalls = 1
    MaxCrashes = 0
SPECIFICATION Spec
PROPERTY StoredResultIsKept
CHECK_DEADLOCK FALSE
