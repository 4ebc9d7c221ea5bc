\* Users who share an address, two handlers and two upstreams; two failures in a row
\* cool an upstream for two ticks.
CONSTANTS
    Keys <- AllKeys
    Limit <- Limits
    Window <- Windows
    KeepFor = 3
    Lag = 1
    Upstreams = {1, 2}
    Handlers = {h1, h2}
    Orders = {0, 1}
    CoolAfterFails = 2
    CoolDuration = 2
    Users = {u1, u2}
    MinuteKey <- Minute
    DayKey <- Day
    TrialKey <- Trial
    IPKey <- Shared
    MaxWork = 3
    MaxNow = 4
SPECIFICATION Spec
SYMMETRY Symmetric
\* Requests, updates and the clock are bounded, so a run ends.
CHECK_DEADLOCK FALSE
INVARIANTS LimitHolds CoolingIsDeserved PassedOverRightly
PROPERTY RefusedRightly
