------------------------------ MODULE Sessions ------------------------------
(***************************************************************************)
(* Signing in and staying signed in, for one user: one-time codes sent by  *)
(* mail or made for single sign-on, refresh tokens that are rotated, logout *)
(* and the administrator's ban.                                            *)
(*                                                                         *)
(* Only IssueCode's write and the sign-up use a transaction; everything    *)
(* else is a row of separate statements, so a handler takes one step per   *)
(* statement and the steps of all handlers interleave.                     *)
(***************************************************************************)
EXTENDS Naturals, FiniteSets

CONSTANTS
    Handlers,        \* processes that serve requests
    Tokens,          \* bound: rows of refresh_tokens
    MailCodes,       \* bound: rows of email_codes
    SsoCodes,        \* bound: rows of sso_codes
    RefreshTTL, RotationGrace, CodeTTL, SsoTTL,
    CodeMaxAttempts, SendMinInterval, Day, SendDailyPerMail,
    MaxBans,         \* bound: bans under way at a time
    MaxNow           \* bound: the clock

ASSUME SessionsAssumption ==
    /\ {RefreshTTL, RotationGrace, CodeTTL, SsoTTL, CodeMaxAttempts, SendMinInterval,
        Day, SendDailyPerMail, MaxBans, MaxNow} \subseteq Nat
    /\ MaxNow # 0 /\ IsFiniteSet(Handlers)
    /\ MailCodes \cap SsoCodes = {} /\ "password" \notin MailCodes \cup SsoCodes

VARIABLES
    now,      \* the clock; 0 is no time at all
    user,     \* status of the user's row, "none" before the sign-up
    mail,     \* [MailCodes -> row or NoRow]
    sso,      \* [SsoCodes -> row or NoRow]
    tokens,   \* [Tokens -> row or NoRow]; a family is named after its first token
    at,       \* [Handlers -> the next statement and what the handler has read]
    bans,     \* requests of administrators between the two statements of a ban
    opened    \* [codes -> sessions opened with it]  (history)

vars == <<now, user, mail, sso, tokens, at, bans, opened>>

NoRow == [made |-> 0]
Rows(table) == {x \in DOMAIN table : table[x] # NoRow}
Idle == [pc |-> "idle"]
Goto(h, step) == at' = [at EXCEPT ![h] = step]

Init ==
    /\ now = 1 /\ user = "none" /\ bans = 0
    /\ mail = [c \in MailCodes |-> NoRow]
    /\ sso = [c \in SsoCodes |-> NoRow]
    /\ tokens = [t \in Tokens |-> NoRow]
    /\ at = [h \in Handlers |-> Idle]
    /\ opened = [c \in MailCodes \cup SsoCodes |-> 0]

-----------------------------------------------------------------------------
\* IssueCode

Since(time) == {c \in Rows(mail) : mail[c].made + time > now}
MayBeSent == Since(SendMinInterval) = {} /\ Cardinality(Since(Day)) < SendDailyPerMail
UnusedMail == {c \in Rows(mail) : ~mail[c].used}

\* The two counts.
CheckRate(h) ==
    /\ at[h] = Idle /\ MayBeSent
    /\ Goto(h, [pc |-> "void", now |-> now])
    /\ UNCHANGED <<now, user, mail, sso, tokens, bans, opened>>

\* The transaction's UPDATE: the rows it sees are locked until the commit, so that it
\* takes effect then; a code committed meanwhile is not among them.
VoidOld(h) ==
    /\ at[h].pc = "void"
    /\ Goto(h, [pc |-> "create", now |-> at[h].now, old |-> UnusedMail])
    /\ UNCHANGED <<now, user, mail, sso, tokens, bans, opened>>

CreateCode(h) ==
    /\ at[h].pc = "create"
    /\ \E c \in MailCodes \ Rows(mail) :
         mail' = [d \in MailCodes |->
                    IF d = c THEN [made |-> at[h].now, used |-> FALSE, attempts |-> 0]
                    ELSE IF d \in at[h].old THEN [mail[d] EXCEPT !.used = TRUE]
                    ELSE mail[d]]
    /\ Goto(h, Idle)
    /\ UNCHANGED <<now, user, sso, tokens, bans, opened>>

-----------------------------------------------------------------------------
\* Login: consumeCode, the sign-up, issueTokens

Valid_AnyAttempts(c) == ~mail[c].used /\ mail[c].made + CodeTTL > now   \* mutant: no lock-out
Valid(c) ==
    /\ ~mail[c].used /\ mail[c].made + CodeTTL > now
    /\ mail[c].attempts < CodeMaxAttempts
\* Order("created_at desc").First
Newest(c) == Valid(c) /\ \A d \in Rows(mail) : Valid(d) => mail[d].made <= mail[c].made

\* What the user typed is right or wrong.
ReadCode(h) ==
    /\ at[h] = Idle
    /\ \E c \in Rows(mail) : Newest(c) /\ \E next \in {"wrong", "consume"} :
         Goto(h, [pc |-> next, code |-> c])
    /\ UNCHANGED <<now, user, mail, sso, tokens, bans, opened>>

CountAttempt(h) ==
    /\ at[h].pc = "wrong"
    /\ mail' = [mail EXCEPT ![at[h].code].attempts = @ + 1]
    /\ Goto(h, Idle)
    /\ UNCHANGED <<now, user, sso, tokens, bans, opened>>

Unused_Unguarded(row) == TRUE   \* mutant: the UPDATE has no "used_at IS NULL"
Unused(row) == ~row.used

ConsumeCode(h) ==
    /\ at[h].pc = "consume" /\ at[h].code \in MailCodes
    /\ LET c == at[h].code
       IN  IF Unused(mail[c])
           THEN /\ mail' = [mail EXCEPT ![c].used = TRUE]
                /\ Goto(h, [pc |-> "find", code |-> c])
           ELSE Goto(h, Idle) /\ UNCHANGED mail
    /\ UNCHANGED <<now, user, sso, tokens, bans, opened>>

MayEnter_Anyone == TRUE   \* mutant: the status is not looked at
MayEnter == user # "banned"

\* The transaction finds the user or signs it up; a second sign-up fails on the unique
\* e-mail (Fail).  A banned user has used up the code.
FindUser(h) ==
    /\ at[h].pc = "find"
    /\ user' = IF user = "none" /\ at[h].code \in MailCodes THEN "active" ELSE user
    /\ Goto(h, IF MayEnter THEN [pc |-> "enter", code |-> at[h].code] ELSE Idle)
    /\ UNCHANGED <<now, mail, sso, tokens, bans, opened>>

NewToken(family) == [made |-> now, family |-> family, revoked |-> 0]

\* issueTokens with a new family
Enter(h) ==
    /\ at[h].pc = "enter"
    /\ \E t \in Tokens \ Rows(tokens) : tokens' = [tokens EXCEPT ![t] = NewToken(t)]
    /\ opened' = IF at[h].code \in DOMAIN opened
                 THEN [opened EXCEPT ![at[h].code] = @ + 1] ELSE opened
    /\ Goto(h, Idle)
    /\ UNCHANGED <<now, user, mail, sso, bans>>

\* LoginPassword with the right password: no code is used.
ReadPassword(h) ==
    /\ at[h] = Idle /\ user # "none" /\ MayEnter
    /\ Goto(h, [pc |-> "enter", code |-> "password"])
    /\ UNCHANGED <<now, user, mail, sso, tokens, bans, opened>>

-----------------------------------------------------------------------------
\* Single sign-on

\* authRequired has let the user in; what follows does not look at the status again.
AskSsoCode(h) ==
    /\ at[h] = Idle /\ user = "active"
    /\ Goto(h, [pc |-> "issue"])
    /\ UNCHANGED <<now, user, mail, sso, tokens, bans, opened>>

IssueSsoCode(h) ==
    /\ at[h].pc = "issue"
    /\ \E c \in SsoCodes \ Rows(sso) :
         sso' = [sso EXCEPT ![c] = [made |-> now, used |-> FALSE]]
    /\ Goto(h, Idle)
    /\ UNCHANGED <<now, user, mail, tokens, bans, opened>>

ReadSsoCode(h) ==
    /\ at[h] = Idle
    /\ \E c \in Rows(sso) :
         /\ ~sso[c].used /\ sso[c].made + SsoTTL > now
         /\ Goto(h, [pc |-> "consume", code |-> c])
    /\ UNCHANGED <<now, user, mail, sso, tokens, bans, opened>>

ConsumeSsoCode(h) ==
    /\ at[h].pc = "consume" /\ at[h].code \in SsoCodes
    /\ LET c == at[h].code
       IN  IF Unused(sso[c])
           THEN /\ sso' = [sso EXCEPT ![c].used = TRUE]
                /\ Goto(h, [pc |-> "find", code |-> c])
           ELSE Goto(h, Idle) /\ UNCHANGED sso
    /\ UNCHANGED <<now, user, mail, tokens, bans, opened>>

-----------------------------------------------------------------------------
\* Refresh

Unrevoked == {t \in Rows(tokens) : tokens[t].revoked = 0}
Family(f) == {t \in Rows(tokens) : tokens[t].family = f}
Revoked(these, time) ==
    [t \in Tokens |-> IF t \in these \cap Unrevoked
                      THEN [tokens[t] EXCEPT !.revoked = time] ELSE tokens[t]]

\* A revoked token is only refused within the grace period, and is a sign of a leak
\* after it.
ReadToken(h) ==
    /\ at[h] = Idle
    /\ \E t \in Rows(tokens) :
         \/ /\ t \in Unrevoked /\ now <= tokens[t].made + RefreshTTL
            /\ Goto(h, [pc |-> "rotate", token |-> t, now |-> now])
         \/ /\ t \notin Unrevoked /\ now > tokens[t].revoked + RotationGrace
            /\ Goto(h, [pc |-> "leak", family |-> tokens[t].family, now |-> now])
    /\ UNCHANGED <<now, user, mail, sso, tokens, bans, opened>>

RevokeLeaked(h) ==
    /\ at[h].pc = "leak"
    /\ tokens' = Revoked(Family(at[h].family), at[h].now)
    /\ Goto(h, Idle)
    /\ UNCHANGED <<now, user, mail, sso, bans, opened>>

Rotatable_Always(t) == TRUE   \* mutant: the UPDATE has no "revoked_at IS NULL"
Rotatable(t) == t \in Unrevoked

\* Of concurrent refreshes of one token a single one gets past this UPDATE.
Rotate(h) ==
    /\ at[h].pc = "rotate"
    /\ LET t == at[h].token
       IN  IF Rotatable(t)
           THEN /\ tokens' = [tokens EXCEPT ![t].revoked = at[h].now]
                /\ Goto(h, [pc |-> "insert", token |-> t])
           ELSE Goto(h, Idle) /\ UNCHANGED tokens
    /\ UNCHANGED <<now, user, mail, sso, bans, opened>>

\* replaced_by, which is written for audits and never read, is left out.
Insert(h) ==
    /\ at[h].pc = "insert"
    /\ \E t \in Tokens \ Rows(tokens) :
         tokens' = [tokens EXCEPT ![t] = NewToken(tokens[at[h].token].family)]
    /\ Goto(h, Idle)
    /\ UNCHANGED <<now, user, mail, sso, bans, opened>>

-----------------------------------------------------------------------------
\* Logout, the bans, and what may go wrong

ReadForLogout(h) ==
    /\ at[h] = Idle
    /\ \E t \in Rows(tokens) : Goto(h, [pc |-> "logout", family |-> tokens[t].family])
    /\ UNCHANGED <<now, user, mail, sso, tokens, bans, opened>>

Logout(h) ==
    /\ at[h].pc = "logout"
    /\ tokens' = Revoked(Family(at[h].family), now)
    /\ Goto(h, Idle)
    /\ UNCHANGED <<now, user, mail, sso, bans, opened>>

\* adminUpdateUser.  Several administrators may be at it, one lifting what another is
\* about to complete.
SetStatus(status) ==
    /\ user # "none"
    /\ status = "banned" => bans < MaxBans
    /\ user' = status
    /\ bans' = IF status = "banned" THEN bans + 1 ELSE bans
    /\ UNCHANGED <<now, mail, sso, tokens, at, opened>>

RevokeAll ==
    /\ bans > 0
    /\ tokens' = Revoked(Tokens, now)
    /\ bans' = bans - 1
    /\ UNCHANGED <<now, user, mail, sso, at, opened>>

\* The statement fails or the process dies; the handler's earlier statements stay.
Fail(h) ==
    /\ at[h] # Idle
    /\ Goto(h, Idle)
    /\ UNCHANGED <<now, user, mail, sso, tokens, bans, opened>>

\* The error of the second statement of a ban is ignored.
RevokeAllFails ==
    /\ bans > 0
    /\ bans' = bans - 1
    /\ UNCHANGED <<now, user, mail, sso, tokens, at, opened>>

Tick ==
    /\ now < MaxNow
    /\ now' = now + 1
    /\ UNCHANGED <<user, mail, sso, tokens, at, bans, opened>>

-----------------------------------------------------------------------------
CodeStep(h) ==
    \/ CheckRate(h) \/ VoidOld(h) \/ CreateCode(h)
    \/ ReadCode(h) \/ CountAttempt(h) \/ ConsumeCode(h)
    \/ AskSsoCode(h) \/ IssueSsoCode(h) \/ ReadSsoCode(h) \/ ConsumeSsoCode(h)
TokenStep(h) ==
    \/ FindUser(h) \/ Enter(h) \/ ReadPassword(h)
    \/ ReadToken(h) \/ RevokeLeaked(h) \/ Rotate(h) \/ Insert(h)
    \/ ReadForLogout(h) \/ Logout(h)
AdminStep == (\E status \in {"active", "banned"} : SetStatus(status)) \/ RevokeAll \/ RevokeAllFails

Next ==
    \/ \E h \in Handlers : CodeStep(h) \/ TokenStep(h) \/ Fail(h)
    \/ AdminStep \/ Tick

Spec == Init /\ [][Next]_vars

-----------------------------------------------------------------------------
Times == 1 .. MaxNow
Steps ==
    [pc : {"idle", "issue"}] \cup [pc : {"void"}, now : Times]
      \cup [pc : {"create"}, now : Times, old : SUBSET MailCodes]
      \cup [pc : {"wrong"}, code : MailCodes]
      \cup [pc : {"consume", "find"}, code : MailCodes \cup SsoCodes]
      \cup [pc : {"enter"}, code : MailCodes \cup SsoCodes \cup {"password"}]
      \cup [pc : {"rotate"}, token : Tokens, now : Times]
      \cup [pc : {"insert"}, token : Tokens]
      \cup [pc : {"leak"}, family : Tokens, now : Times]
      \cup [pc : {"logout"}, family : Tokens]

\* Type invariant; a code is guessed at most once more by each handler that read it
\* before the last attempt it has ("同码验错 5 次作废" up to requests under way).
TypeOK ==
    /\ now \in Times /\ user \in {"none", "active", "banned"} /\ bans \in 0 .. MaxBans
    /\ mail \in [MailCodes -> {NoRow} \cup [made : Times, used : BOOLEAN,
                   attempts : 0 .. CodeMaxAttempts + Cardinality(Handlers) - 1]]
    /\ sso \in [SsoCodes -> {NoRow} \cup [made : Times, used : BOOLEAN]]
    /\ tokens \in [Tokens -> {NoRow} \cup [made : Times, family : Tokens,
                     revoked : Times \cup {0}]]
    /\ at \in [Handlers -> Steps]
    /\ opened \in [MailCodes \cup SsoCodes -> Nat]

InFlight(f) ==
    \E h \in Handlers : at[h].pc = "insert" /\ tokens[at[h].token].family = f

\* A session has one token that can be refreshed, or one refresh that is about to store
\* the next, never two ("并发刷新只有一个赢家").
OneTokenPerSession ==
    \A f \in Rows(tokens) :
      Cardinality(Unrevoked \cap Family(f))
        + Cardinality({h \in Handlers : at[h].pc = "insert" /\ tokens[at[h].token].family = f}) <= 1

\* A one-time code opens one session at most, mail or single sign-on, however many
\* requests present it at the same time ("并发消费,只认第一个").
CodeOpensOneSession == \A c \in DOMAIN opened : opened[c] <= 1

Open(f) == Unrevoked \cap Family(f) # {} \/ InFlight(f)
\* A session that was ended, by logout, by a leak or by a refresh that failed half-way,
\* never comes back: requests that read its token before find it revoked.
EndedSessionStaysEnded ==
    [][\A f \in Rows(tokens) : ~Open(f) => ~Open(f)']_vars

\* Requests that will store a token without another look at the status: a sign-in that
\* has read it, and a refresh, which never does, that has revoked its token.
PastCheck == {h \in Handlers : at[h].pc \in {"enter", "insert"}}
\* "封禁同时撤销全部 refresh token(全端登出)": while the user is banned, tokens and requests
\* past the check together only dwindle.  No way of signing in adds to them, a refresh and
\* a request past the check leave one token for the one they stand for, so that a ban
\* whose second statement has run is survived by no more sessions than such requests.
BannedGainsNothing ==
    [][user = "banned" /\ user' = "banned" =>
         Cardinality(Unrevoked') + Cardinality(PastCheck')
           <= Cardinality(Unrevoked) + Cardinality(PastCheck)]_vars

=============================================================================
