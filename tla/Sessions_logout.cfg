\* A logout while a refresh of the same session is under way.
CONSTANTS
    Handlers = {h1, h2}
    Tokens = {t1, t2}
    MailCodes = {m1}
    SsoCodes = {}
    RefreshTTL = 0
    RotationGrace = 0
    CodeTTL = 1
    SsoTTL = 1
    CodeMaxAttempts = 1
    SendMinInterval = 1
    Day = 2
    SendDailyPerMail = 2
    MaxBans = 1
    MaxNow = 2
SPECIFICATION HistorySpec
\* Rows and time are bounded.
CHECK_DEADLOCK FALSE
INVARIANT LogoutEndsSession
