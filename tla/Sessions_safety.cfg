\* Two handlers, two token rows, two codes out of two mail codes and one sign-on code, two
\* administrators.
CONSTANTS
    Handlers = {h1, h2}
    Tokens = {t1, t2}
    MailCodes = {m1, m2}
    SsoCodes = {s1}
    RefreshTTL = 0
    RotationGrace = 0
    CodeTTL = 1
    SsoTTL = 1
    CodeMaxAttempts = 1
    SendMinInterval = 1
    Day = 2
    SendDailyPerMail = 2
    MaxBans = 2
    MaxNow = 2
SPECIFICATION Spec
CONSTRAINT FewCodes
SYMMETRY Symmetry
\* Rows and time are bounded.
CHECK_DEADLOCK FALSE
INVARIANTS TypeOK OneTokenPerSession CodeOpensOneSession
PROPERTIES EndedSessionStaysEnded BannedGainsNothing
