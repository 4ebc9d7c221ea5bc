-------------------------- MODULE Sessions_proofs --------------------------
(***************************************************************************)
(* The safety of a user's sessions for any number of handlers, codes and   *)
(* tokens: types and the bound on guesses, one token per session, one      *)
(* session per code, ended sessions stay ended, nothing gained in a ban.   *)
(*                                                                         *)
(* Handlers act on what they read several statements ago.  What carries    *)
(* the proofs is what such a reading is still worth: rows are never        *)
(* deleted, a used code and a revoked token stay so, and whoever got past  *)
(* a guarded UPDATE was the only one to do so.                             *)
(***************************************************************************)
EXTENDS Sessions, FiniteSetTheorems, TLAPS

Codes == MailCodes \cup SsoCodes
MailRow == [made : Times, used : BOOLEAN, attempts : Nat]
SsoRow == [made : Times, used : BOOLEAN]
TokenRow == [made : Times, family : Tokens, revoked : Times \cup {0}]

\* TypeOK but for the bound on guesses.
Typed ==
    /\ now \in Times /\ user \in {"none", "active", "banned"} /\ bans \in 0 .. MaxBans
    /\ mail \in [MailCodes -> {NoRow} \cup MailRow]
    /\ sso \in [SsoCodes -> {NoRow} \cup SsoRow]
    /\ tokens \in [Tokens -> {NoRow} \cup TokenRow]
    /\ at \in [Handlers -> Steps]
    /\ opened \in [Codes -> Nat]

-----------------------------------------------------------------------------
\* What a handler has read, by the statement it is at.
LEMMA StepFields ==
    ASSUME NEW s \in Steps
    PROVE  /\ s.pc \in {"idle", "void", "create", "wrong", "consume", "find", "enter",
                        "rotate", "insert", "leak", "logout", "issue"}
           /\ s.pc = "idle" => s = Idle
           /\ s.pc \in {"void", "create", "rotate", "leak"} => s.now \in Times
           /\ s.pc = "wrong" => s.code \in MailCodes
           /\ s.pc \in {"consume", "find"} => s.code \in Codes
           /\ s.pc = "enter" => s.code \in Codes \cup {"password"}
           /\ s.pc \in {"rotate", "insert"} => s.token \in Tokens
           /\ s.pc \in {"leak", "logout"} => s.family \in Tokens
PROOF
  BY DEF Steps, Idle, Codes

\* The statements a handler may go on to.
LEMMA StepsTyped ==
    /\ Idle \in Steps /\ [pc |-> "issue"] \in Steps
    /\ \A time \in Times : [pc |-> "void", now |-> time] \in Steps
    /\ \A time \in Times, old \in SUBSET MailCodes :
         [pc |-> "create", now |-> time, old |-> old] \in Steps
    /\ \A c \in MailCodes : [pc |-> "wrong", code |-> c] \in Steps
    /\ \A c \in Codes : /\ [pc |-> "consume", code |-> c] \in Steps
                        /\ [pc |-> "find", code |-> c] \in Steps
    /\ \A c \in Codes \cup {"password"} : [pc |-> "enter", code |-> c] \in Steps
    /\ \A t \in Tokens, time \in Times : [pc |-> "rotate", token |-> t, now |-> time] \in Steps
    /\ \A t \in Tokens : [pc |-> "insert", token |-> t] \in Steps
    /\ \A f \in Tokens, time \in Times : [pc |-> "leak", family |-> f, now |-> time] \in Steps
    /\ \A f \in Tokens : [pc |-> "logout", family |-> f] \in Steps
PROOF
  BY DEF Steps, Idle, Codes

\* Rows that exist have their columns.
LEMMA RowFacts ==
    ASSUME Typed
    PROVE  /\ Rows(mail) \subseteq MailCodes /\ \A c \in Rows(mail) : mail[c] \in MailRow
           /\ Rows(sso) \subseteq SsoCodes /\ \A c \in Rows(sso) : sso[c] \in SsoRow
           /\ Rows(tokens) \subseteq Tokens /\ \A t \in Rows(tokens) : tokens[t] \in TokenRow
           /\ MailRow \cap {NoRow} = {} /\ SsoRow \cap {NoRow} = {} /\ TokenRow \cap {NoRow} = {}
PROOF
<1>1. \A r \in MailRow : r.made # 0
  BY SessionsAssumption DEF MailRow, Times
<1>2. \A r \in SsoRow : r.made # 0
  BY SessionsAssumption DEF SsoRow, Times
<1>3. \A r \in TokenRow : r.made # 0
  BY SessionsAssumption DEF TokenRow, Times
<1>4. /\ MailRow \cap {NoRow} = {} /\ SsoRow \cap {NoRow} = {} /\ TokenRow \cap {NoRow} = {}
  BY <1>1, <1>2, <1>3 DEF NoRow
<1>5. /\ Rows(mail) \subseteq MailCodes /\ \A c \in Rows(mail) : mail[c] \in MailRow
  BY DEF Typed, Rows
<1>6. /\ Rows(sso) \subseteq SsoCodes /\ \A c \in Rows(sso) : sso[c] \in SsoRow
  BY DEF Typed, Rows
<1>7. /\ Rows(tokens) \subseteq Tokens /\ \A t \in Rows(tokens) : tokens[t] \in TokenRow
  BY DEF Typed, Rows
<1> QED
  BY <1>4, <1>5, <1>6, <1>7

\* A handler goes on and the others stay where they are.
LEMMA GotoFacts ==
    ASSUME NEW h \in Handlers, NEW s \in Steps, Typed, Goto(h, s)
    PROVE  /\ at' \in [Handlers -> Steps] /\ at'[h] = s
           /\ \A g \in Handlers \ {h} : at'[g] = at[g]
PROOF
  BY DEF Goto, Typed

\* Revoking tokens changes nothing but when they were revoked.
LEMMA RevokedFacts ==
    ASSUME Typed, NEW these, NEW time \in Times, tokens' = Revoked(these, time)
    PROVE  /\ tokens' \in [Tokens -> {NoRow} \cup TokenRow]
           /\ Rows(tokens)' = Rows(tokens)
           /\ \A t \in Rows(tokens) : tokens'[t].family = tokens[t].family
           /\ Unrevoked' = Unrevoked \ these
PROOF
<1>1. time # 0
  BY SessionsAssumption DEF Times
<1>2. \A t \in Tokens :
        tokens'[t] = IF t \in these \cap Unrevoked
                     THEN [tokens[t] EXCEPT !.revoked = time] ELSE tokens[t]
  BY DEF Revoked
<1>3. DOMAIN tokens' = Tokens /\ DOMAIN tokens = Tokens
  BY DEF Revoked, Typed
<1>4. \A t \in these \cap Unrevoked :
        /\ t \in Tokens /\ tokens'[t] \in TokenRow /\ tokens'[t].family = tokens[t].family
        /\ tokens'[t].revoked = time
  <2> SUFFICES ASSUME NEW t \in these \cap Unrevoked
               PROVE  /\ t \in Tokens /\ tokens'[t] \in TokenRow
                      /\ tokens'[t].family = tokens[t].family /\ tokens'[t].revoked = time
    OBVIOUS
  <2>1. t \in Tokens /\ tokens[t] \in TokenRow
    BY RowFacts DEF Unrevoked
  <2>2. tokens'[t] = [tokens[t] EXCEPT !.revoked = time]
    BY <1>2, <2>1
  <2> QED
    BY <2>1, <2>2 DEF TokenRow
<1>5. \A t \in Tokens \ (these \cap Unrevoked) : tokens'[t] = tokens[t]
  BY <1>2
<1>6. tokens' \in [Tokens -> {NoRow} \cup TokenRow]
  BY <1>4, <1>5 DEF Typed, Revoked
<1>7. Rows(tokens)' = Rows(tokens)
  BY <1>3, <1>4, <1>5, RowFacts DEF Rows, Unrevoked
<1> QED
  BY <1>1, <1>3, <1>4, <1>5, <1>6, <1>7, RowFacts DEF Unrevoked

-----------------------------------------------------------------------------
\* A handler presents a token that exists.
PresentedExist ==
    \A h \in Handlers : at[h].pc \in {"rotate", "insert"} => at[h].token \in Rows(tokens)

\* Every step keeps the types, one statement of a handler after the other.
LEMMA TypesKept ==
    ASSUME Typed, PresentedExist, [Next]_vars
    PROVE  Typed'
PROOF
<1>1. ASSUME NEW h \in Handlers, CodeStep(h)
      PROVE  Typed'
  <2>1. CASE CheckRate(h)
    <3>1. [pc |-> "void", now |-> now] \in Steps
      BY StepsTyped DEF Typed
    <3> QED
      BY <2>1, <3>1, GotoFacts DEF CheckRate, Typed
  <2>2. CASE VoidOld(h)
    <3>1. at[h] \in Steps /\ at[h].pc = "void" /\ UnusedMail \in SUBSET MailCodes
      BY <2>2, RowFacts DEF VoidOld, UnusedMail, Typed
    <3>2. [pc |-> "create", now |-> at[h].now, old |-> UnusedMail] \in Steps
      BY <3>1, StepFields, StepsTyped
    <3> QED
      BY <2>2, <3>2, GotoFacts DEF VoidOld, Typed
  <2>3. CASE CreateCode(h)
    <3>1. at[h] \in Steps /\ at[h].pc = "create"
      BY <2>3 DEF CreateCode, Typed
    <3>2. at[h].now \in Times /\ at[h].old \in SUBSET MailCodes
      <4>1. at[h].now \in Times
        BY <3>1, StepFields
      <4>2. at[h].old \in SUBSET MailCodes
        BY <3>1 DEF Steps
      <4> QED
        BY <4>1, <4>2
    <3>3. [made |-> at[h].now, used |-> FALSE, attempts |-> 0] \in MailRow
      BY <3>2 DEF MailRow
    <3>4. \A r \in {NoRow} \cup MailRow :
            r \in MailRow => [r EXCEPT !.used = TRUE] \in MailRow
      BY DEF MailRow
    <3>5. mail' \in [MailCodes -> {NoRow} \cup MailRow]
      <4>1. PICK c \in MailCodes \ Rows(mail) :
              mail' = [d \in MailCodes |->
                         IF d = c THEN [made |-> at[h].now, used |-> FALSE, attempts |-> 0]
                         ELSE IF d \in at[h].old THEN [mail[d] EXCEPT !.used = TRUE]
                         ELSE mail[d]]
        BY <2>3 DEF CreateCode
      <4>2. ASSUME NEW d \in MailCodes
            PROVE  [mail[d] EXCEPT !.used = TRUE] \in {NoRow} \cup MailRow
        <5>1. CASE mail[d] \in MailRow
          BY <3>4, <5>1
        <5>2. CASE mail[d] = NoRow
          BY <5>2 DEF NoRow
        <5> QED
          BY <5>1, <5>2 DEF Typed
      <4> QED
        BY <3>3, <4>1, <4>2 DEF Typed
    <3> QED
      BY <2>3, <3>5, StepsTyped, GotoFacts DEF CreateCode, Typed
  <2>4. CASE ReadCode(h)
    <3>1. PICK c \in Rows(mail), next \in {"wrong", "consume"} :
            Goto(h, [pc |-> next, code |-> c])
      BY <2>4 DEF ReadCode
    <3>2. [pc |-> next, code |-> c] \in Steps
      BY <3>1, StepsTyped, RowFacts DEF Codes
    <3> QED
      BY <2>4, <3>1, <3>2, GotoFacts DEF ReadCode, Typed
  <2>5. CASE CountAttempt(h)
    <3>1. mail' \in [MailCodes -> {NoRow} \cup MailRow]
      <4>1. \A r \in MailRow : [r EXCEPT !.attempts = @ + 1] \in MailRow
        BY DEF MailRow
      <4>2. [NoRow EXCEPT !.attempts = @ + 1] = NoRow
        BY DEF NoRow
      <4> QED
        BY <2>5, <4>1, <4>2 DEF CountAttempt, Typed
    <3> QED
      BY <2>5, <3>1, StepsTyped, GotoFacts DEF CountAttempt, Typed
  <2>6. CASE ConsumeCode(h)
    <3>1. [pc |-> "find", code |-> at[h].code] \in Steps
      BY <2>6, StepsTyped DEF ConsumeCode, Codes
    <3>2. mail' \in [MailCodes -> {NoRow} \cup MailRow]
      <4>1. \A r \in MailRow : [r EXCEPT !.used = TRUE] \in MailRow
        BY DEF MailRow
      <4>2. [NoRow EXCEPT !.used = TRUE] = NoRow
        BY DEF NoRow
      <4>3. [mail EXCEPT ![at[h].code].used = TRUE] \in [MailCodes -> {NoRow} \cup MailRow]
        BY <2>6, <4>1, <4>2 DEF ConsumeCode, Typed
      <4> QED
        BY <2>6, <4>3 DEF ConsumeCode, Typed
    <3> QED
      BY <2>6, <3>1, <3>2, StepsTyped, GotoFacts DEF ConsumeCode, Typed
  <2>7. CASE ReadSsoCode(h)
    <3>1. PICK c \in Rows(sso) : Goto(h, [pc |-> "consume", code |-> c])
      BY <2>7 DEF ReadSsoCode
    <3>2. [pc |-> "consume", code |-> c] \in Steps
      BY <3>1, StepsTyped, RowFacts DEF Codes
    <3> QED
      BY <2>7, <3>1, <3>2, GotoFacts DEF ReadSsoCode, Typed
  <2>8. CASE ConsumeSsoCode(h)
    <3>1. [pc |-> "find", code |-> at[h].code] \in Steps
      BY <2>8, StepsTyped DEF ConsumeSsoCode, Codes
    <3>2. sso' \in [SsoCodes -> {NoRow} \cup SsoRow]
      <4>1. \A r \in SsoRow : [r EXCEPT !.used = TRUE] \in SsoRow
        BY DEF SsoRow
      <4>2. [NoRow EXCEPT !.used = TRUE] = NoRow
        BY DEF NoRow
      <4>3. [sso EXCEPT ![at[h].code].used = TRUE] \in [SsoCodes -> {NoRow} \cup SsoRow]
        BY <2>8, <4>1, <4>2 DEF ConsumeSsoCode, Typed
      <4> QED
        BY <2>8, <4>3 DEF ConsumeSsoCode, Typed
    <3> QED
      BY <2>8, <3>1, <3>2, StepsTyped, GotoFacts DEF ConsumeSsoCode, Typed
  <2>9. CASE AskSsoCode(h)
    BY <2>9, StepsTyped, GotoFacts DEF AskSsoCode, Typed
  <2>10. CASE IssueSsoCode(h)
    <3>1. [made |-> now, used |-> FALSE] \in SsoRow
      BY DEF SsoRow, Typed
    <3>2. sso' \in [SsoCodes -> {NoRow} \cup SsoRow]
      BY <2>10, <3>1 DEF IssueSsoCode, Typed
    <3> QED
      BY <2>10, <3>2, StepsTyped, GotoFacts DEF IssueSsoCode, Typed
  <2> QED
    BY <1>1, <2>1, <2>2, <2>3, <2>4, <2>5, <2>6, <2>7, <2>8, <2>9, <2>10 DEF CodeStep
<1>2. ASSUME NEW h \in Handlers, TokenStep(h)
      PROVE  Typed'
  <2> USE DEF Codes
  <2>1. CASE FindUser(h)
    <3>1. at[h] \in Steps /\ at[h].pc = "find"
      BY <2>1 DEF FindUser, Typed
    <3>2. at[h].code \in Codes
      BY <3>1, StepFields
    <3>3. [pc |-> "enter", code |-> at[h].code] \in Steps
      BY <3>2, StepsTyped
    <3> QED
      BY <2>1, <3>3, StepsTyped, GotoFacts DEF FindUser, Typed
  <2>2. CASE Enter(h)
    <3>1. \A t \in Tokens : NewToken(t) \in TokenRow
      BY DEF NewToken, TokenRow, Typed
    <3>2. tokens' \in [Tokens -> {NoRow} \cup TokenRow]
      BY <2>2, <3>1 DEF Enter, Typed
    <3>3. opened' \in [Codes -> Nat]
      BY <2>2 DEF Enter, Typed
    <3> QED
      BY <2>2, <3>2, <3>3, StepsTyped, GotoFacts DEF Enter, Typed
  <2>3. CASE ReadPassword(h)
    <3>1. [pc |-> "enter", code |-> "password"] \in Steps
      BY StepsTyped
    <3> QED
      BY <2>3, <3>1, GotoFacts DEF ReadPassword, Typed
  <2>4. CASE ReadToken(h)
    <3>1. PICK t \in Rows(tokens) :
            \/ Goto(h, [pc |-> "rotate", token |-> t, now |-> now])
            \/ Goto(h, [pc |-> "leak", family |-> tokens[t].family, now |-> now])
      BY <2>4 DEF ReadToken
    <3>2. t \in Tokens /\ tokens[t].family \in Tokens /\ now \in Times
      BY <3>1, RowFacts DEF TokenRow, Typed
    <3>3. /\ [pc |-> "rotate", token |-> t, now |-> now] \in Steps
          /\ [pc |-> "leak", family |-> tokens[t].family, now |-> now] \in Steps
      BY <3>2, StepsTyped
    <3> QED
      BY <2>4, <3>1, <3>3, GotoFacts DEF ReadToken, Typed
  <2>5. CASE RevokeLeaked(h)
    <3>1. at[h] \in Steps /\ at[h].pc = "leak"
      BY <2>5 DEF RevokeLeaked, Typed
    <3>2. at[h].now \in Times
      BY <3>1, StepFields
    <3> QED
      BY <2>5, <3>2, StepsTyped, GotoFacts, RevokedFacts DEF RevokeLeaked, Typed
  <2>6. CASE Rotate(h)
    <3>1. at[h] \in Steps /\ at[h].pc = "rotate"
      BY <2>6 DEF Rotate, Typed
    <3>2. at[h].now \in Times /\ at[h].token \in Tokens
      BY <3>1, StepFields
    <3>3. tokens' \in [Tokens -> {NoRow} \cup TokenRow]
      <4>1. \A r \in TokenRow : [r EXCEPT !.revoked = at[h].now] \in TokenRow
        BY <3>2 DEF TokenRow
      <4>2. [NoRow EXCEPT !.revoked = at[h].now] = NoRow
        BY DEF NoRow
      <4> QED
        BY <2>6, <4>1, <4>2 DEF Rotate, Typed
    <3>4. [pc |-> "insert", token |-> at[h].token] \in Steps
      BY <3>2, StepsTyped
    <3> QED
      BY <2>6, <3>3, <3>4, StepsTyped, GotoFacts DEF Rotate, Typed
  <2>7. CASE Insert(h)
    <3>1. at[h] \in Steps /\ at[h].pc = "insert"
      BY <2>7 DEF Insert, Typed
    <3>2. tokens' \in [Tokens -> {NoRow} \cup TokenRow]
      <4>1. tokens[at[h].token].family \in Tokens
        BY <3>1, RowFacts DEF PresentedExist, TokenRow
      <4>2. NewToken(tokens[at[h].token].family) \in TokenRow
        BY <4>1 DEF NewToken, TokenRow, Typed
      <4> QED
        BY <2>7, <4>2 DEF Insert, Typed
    <3> QED
      BY <2>7, <3>2, StepsTyped, GotoFacts DEF Insert, Typed
  <2>8. CASE ReadForLogout(h)
    <3>1. PICK t \in Rows(tokens) : Goto(h, [pc |-> "logout", family |-> tokens[t].family])
      BY <2>8 DEF ReadForLogout
    <3>2. [pc |-> "logout", family |-> tokens[t].family] \in Steps
      BY <3>1, RowFacts, StepsTyped DEF TokenRow
    <3> QED
      BY <2>8, <3>1, <3>2, GotoFacts DEF ReadForLogout, Typed
  <2>9. CASE Logout(h)
    BY <2>9, StepsTyped, GotoFacts, RevokedFacts DEF Logout, Typed
  <2> QED
    BY <1>2, <2>1, <2>2, <2>3, <2>4, <2>5, <2>6, <2>7, <2>8, <2>9 DEF TokenStep
<1>3. ASSUME NEW h \in Handlers, Fail(h)
      PROVE  Typed'
  BY <1>3, StepsTyped, GotoFacts DEF Fail, Typed
<1>5. CASE AdminStep
  <2>. MaxBans \in Nat /\ bans \in 0 .. MaxBans
    BY SessionsAssumption DEF Typed
  <2>1. CASE \E status \in {"active", "banned"} : SetStatus(status)
    <3>1. bans' \in 0 .. MaxBans /\ user' \in {"none", "active", "banned"}
      BY <2>1 DEF SetStatus
    <3> QED
      BY <2>1, <3>1 DEF SetStatus, Typed
  <2>2. CASE RevokeAll
    <3>1. bans' \in 0 .. MaxBans
      BY <2>2 DEF RevokeAll
    <3> QED
      BY <2>2, <3>1, RevokedFacts DEF RevokeAll, Typed
  <2>3. CASE RevokeAllFails
    <3>1. bans' \in 0 .. MaxBans
      BY <2>3 DEF RevokeAllFails
    <3> QED
      BY <2>3, <3>1 DEF RevokeAllFails, Typed
  <2> QED
    BY <1>5, <2>1, <2>2, <2>3 DEF AdminStep
<1>6. CASE Tick
  BY <1>6, SessionsAssumption DEF Tick, Typed, Times
<1>7. CASE UNCHANGED vars
  BY <1>7 DEF vars, Typed
<1> QED
  BY <1>1, <1>2, <1>3, <1>5, <1>6, <1>7 DEF Next

-----------------------------------------------------------------------------
\* Tokens.  A session has one token that can be refreshed, or one refresh that is about
\* to store the next.

FamiliesExist == \A t \in Rows(tokens) : tokens[t].family \in Rows(tokens)

Inserting == {h \in Handlers : at[h].pc = "insert"}
FamilyOf(h) == tokens[at[h].token].family

OneLive == \A t, u \in Unrevoked : tokens[t].family = tokens[u].family => t = u
OneNext == \A g, h \in Inserting : FamilyOf(g) = FamilyOf(h) => g = h
LiveOrNext == \A h \in Inserting, t \in Unrevoked : FamilyOf(h) # tokens[t].family

TokenInv == PresentedExist /\ FamiliesExist /\ OneLive /\ OneNext /\ LiveOrNext

\* What steps do to tokens: nothing, or revoke some, while nobody comes to present one;
\* or one handler goes on with a refresh or opens a session.
NobodyPresents ==
    \A h \in Handlers : at'[h].pc \in {"rotate", "insert"} => at'[h] = at[h]
TokensRest == UNCHANGED tokens /\ NobodyPresents
TokensRevoked ==
    /\ \E these \in SUBSET Tokens, time \in Times : tokens' = Revoked(these, time)
    /\ NobodyPresents
Presents(h) ==
    /\ \E t \in Unrevoked : Goto(h, [pc |-> "rotate", token |-> t, now |-> now])
    /\ UNCHANGED tokens
Rotates(h) == at[h].pc = "rotate" /\ at[h].token \in Unrevoked /\ Rotate(h)
TokenMoves ==
    \/ TokensRest \/ TokensRevoked
    \/ \E h \in Handlers : Presents(h) \/ Rotates(h) \/ Insert(h) \/ Enter(h)

\* Every step is one of these.
LEMMA TokenSteps ==
    ASSUME Typed, [Next]_vars
    PROVE  TokenMoves
PROOF
<1> USE DEF Codes
<1>1. \A h \in Handlers : at[h] \in Steps
  BY DEF Typed
<1>2. ASSUME NEW h \in Handlers, NEW s, Goto(h, s), s.pc \notin {"rotate", "insert"}
      PROVE  NobodyPresents
  <2>1. at'[h] = s /\ \A g \in Handlers \ {h} : at'[g] = at[g]
    BY <1>2 DEF Goto, Typed
  <2> QED
    BY <1>2, <2>1 DEF NobodyPresents
<1>3. UNCHANGED at => NobodyPresents
  BY DEF NobodyPresents
<1>4. Idle.pc = "idle"
  BY DEF Idle
<1>5. ASSUME NEW h \in Handlers, CodeStep(h)
      PROVE  TokensRest
  <2>1. UNCHANGED tokens
    BY <1>5 DEF CodeStep, CheckRate, VoidOld, CreateCode, ReadCode, CountAttempt, ConsumeCode,
       AskSsoCode, IssueSsoCode, ReadSsoCode, ConsumeSsoCode
  <2>2. \E s : Goto(h, s) /\ s.pc \notin {"rotate", "insert"}
    <3>1. CASE CheckRate(h)
      BY <3>1 DEF CheckRate
    <3>2. CASE VoidOld(h)
      BY <3>2 DEF VoidOld
    <3>3. CASE CreateCode(h) \/ CountAttempt(h) \/ IssueSsoCode(h)
      BY <3>3, <1>4 DEF CreateCode, CountAttempt, IssueSsoCode
    <3>4. CASE ReadCode(h)
      BY <3>4 DEF ReadCode
    <3>5. CASE ConsumeCode(h)
      <4>1. Goto(h, [pc |-> "find", code |-> at[h].code]) \/ Goto(h, Idle)
        BY <3>5 DEF ConsumeCode
      <4> QED
        BY <4>1, <1>4
    <3>6. CASE ReadSsoCode(h)
      BY <3>6 DEF ReadSsoCode
    <3>7. CASE ConsumeSsoCode(h)
      <4>1. Goto(h, [pc |-> "find", code |-> at[h].code]) \/ Goto(h, Idle)
        BY <3>7 DEF ConsumeSsoCode
      <4> QED
        BY <4>1, <1>4
    <3>8. CASE AskSsoCode(h)
      BY <3>8 DEF AskSsoCode
    <3> QED
      BY <1>5, <3>1, <3>2, <3>3, <3>4, <3>5, <3>6, <3>7, <3>8 DEF CodeStep
  <2> QED
    BY <1>2, <2>1, <2>2 DEF TokensRest
<1>6. ASSUME NEW h \in Handlers, TokenStep(h)
      PROVE  TokenMoves
  <2>1. CASE FindUser(h)
    <3>1. Goto(h, [pc |-> "enter", code |-> at[h].code]) \/ Goto(h, Idle)
      BY <2>1 DEF FindUser
    <3>2. NobodyPresents
      BY <3>1, <1>2, <1>4
    <3> QED
      BY <2>1, <3>2 DEF FindUser, TokensRest, TokenMoves
  <2>2. CASE Enter(h) \/ Insert(h)
    BY <2>2 DEF TokenMoves
  <2>3. CASE ReadPassword(h)
    <3>1. NobodyPresents
      BY <2>3, <1>2 DEF ReadPassword
    <3> QED
      BY <2>3, <3>1 DEF ReadPassword, TokensRest, TokenMoves
  <2>4. CASE ReadToken(h)
    <3>1. CASE \E t \in Unrevoked : Goto(h, [pc |-> "rotate", token |-> t, now |-> now])
      BY <2>4, <3>1 DEF ReadToken, Presents, TokenMoves
    <3>2. CASE \E t \in Rows(tokens) :
                 Goto(h, [pc |-> "leak", family |-> tokens[t].family, now |-> now])
      <4>1. NobodyPresents
        BY <3>2, <1>2
      <4> QED
        BY <2>4, <4>1 DEF ReadToken, TokensRest, TokenMoves
    <3> QED
      BY <2>4, <3>1, <3>2 DEF ReadToken
  <2>5. CASE RevokeLeaked(h)
    <3>1. at[h].now \in Times
      BY <1>1, <2>5, StepFields DEF RevokeLeaked
    <3>2. Family(at[h].family) \in SUBSET Tokens
      BY RowFacts DEF Family
    <3>3. NobodyPresents
      BY <2>5, <1>2, <1>4 DEF RevokeLeaked
    <3> QED
      BY <2>5, <3>1, <3>2, <3>3 DEF RevokeLeaked, TokensRevoked, TokenMoves
  <2>6. CASE Rotate(h)
    <3>1. CASE at[h].token \in Unrevoked
      BY <2>6, <3>1 DEF Rotate, Rotates, TokenMoves
    <3>2. CASE at[h].token \notin Unrevoked
      <4>1. Goto(h, Idle) /\ UNCHANGED tokens
        BY <2>6, <3>2 DEF Rotate, Rotatable
      <4>2. NobodyPresents
        BY <4>1, <1>2, <1>4
      <4> QED
        BY <4>1, <4>2 DEF TokensRest, TokenMoves
    <3> QED
      BY <3>1, <3>2
  <2>7. CASE ReadForLogout(h)
    <3>1. NobodyPresents
      BY <2>7, <1>2 DEF ReadForLogout
    <3> QED
      BY <2>7, <3>1 DEF ReadForLogout, TokensRest, TokenMoves
  <2>8. CASE Logout(h)
    <3>1. Family(at[h].family) \in SUBSET Tokens /\ now \in Times
      BY RowFacts DEF Family, Typed
    <3>2. NobodyPresents
      BY <2>8, <1>2, <1>4 DEF Logout
    <3> QED
      BY <2>8, <3>1, <3>2 DEF Logout, TokensRevoked, TokenMoves
  <2> QED
    BY <1>6, <2>1, <2>2, <2>3, <2>4, <2>5, <2>6, <2>7, <2>8 DEF TokenStep
<1>7. ASSUME NEW h \in Handlers, Fail(h)
      PROVE  TokensRest
  BY <1>7, <1>2, <1>4 DEF Fail, TokensRest
<1>8. CASE RevokeAll
  BY <1>8, <1>3 DEF RevokeAll, TokensRevoked, TokenMoves, Typed
<1>9. CASE \/ \E status \in {"active", "banned"} : SetStatus(status)
           \/ RevokeAllFails \/ Tick \/ UNCHANGED vars
  BY <1>9, <1>3 DEF SetStatus, RevokeAllFails, Tick, vars, TokensRest, TokenMoves
<1> QED
  BY <1>5, <1>6, <1>7, <1>8, <1>9 DEF Next, AdminStep, TokenMoves

\* A new token, of the family of a refresh or of its own.
LEMMA NewTokenFacts ==
    ASSUME Typed, NEW t \in Tokens \ Rows(tokens), NEW f \in Tokens,
           tokens' = [tokens EXCEPT ![t] = NewToken(f)]
    PROVE  /\ Rows(tokens)' = Rows(tokens) \cup {t}
           /\ tokens'[t].family = f /\ \A u \in Rows(tokens) : tokens'[u] = tokens[u]
           /\ Unrevoked' = Unrevoked \cup {t}
PROOF
<1>1. NewToken(f) \in TokenRow /\ NewToken(f).family = f /\ NewToken(f).revoked = 0
  BY DEF NewToken, TokenRow, Typed
<1>2. tokens'[t] = NewToken(f) /\ \A u \in Tokens \ {t} : tokens'[u] = tokens[u]
  BY DEF Typed
<1>3. Rows(tokens)' = Rows(tokens) \cup {t}
  BY <1>1, <1>2, RowFacts DEF Rows, Typed
<1> QED
  BY <1>1, <1>2, <1>3, RowFacts DEF Unrevoked

\* A session that is open has a token or a refresh under way.
Live(f) ==
    \/ \E t \in Unrevoked : tokens[t].family = f
    \/ \E h \in Inserting : FamilyOf(h) = f
EndedStay == \A f \in Rows(tokens) : Live(f)' => Live(f)

\* The moves keep the invariant of tokens, and open no session that had ended.
LEMMA TokensKept ==
    ASSUME Typed, TokenInv, TokenMoves
    PROVE  TokenInv' /\ EndedStay
PROOF
<1>1. /\ \A h \in Inserting : h \in Handlers /\ at[h].token \in Rows(tokens)
      /\ \A t \in Unrevoked : t \in Rows(tokens)
  BY DEF Inserting, Unrevoked, TokenInv, PresentedExist
<1>2. CASE TokensRest
  <2>1. Inserting' \subseteq Inserting /\ \A h \in Inserting' : at'[h] = at[h]
    BY <1>2 DEF TokensRest, NobodyPresents, Inserting
  <2>2. \A h \in Inserting' : FamilyOf(h)' = FamilyOf(h)
    BY <1>2, <2>1 DEF TokensRest, FamilyOf
  <2>3. Unrevoked' = Unrevoked /\ Rows(tokens)' = Rows(tokens)
    BY <1>2 DEF TokensRest, Unrevoked, Rows
  <2>4. PresentedExist'
    BY <1>2, <2>3 DEF TokensRest, NobodyPresents, TokenInv, PresentedExist
  <2> QED
    BY <1>2, <2>1, <2>2, <2>3, <2>4
    DEF TokensRest, TokenInv, FamiliesExist, OneLive, OneNext, LiveOrNext, EndedStay, Live
<1>3. CASE TokensRevoked
  <2>1. PICK these \in SUBSET Tokens, time \in Times : tokens' = Revoked(these, time)
    BY <1>3 DEF TokensRevoked
  <2>2. /\ Rows(tokens)' = Rows(tokens) /\ Unrevoked' \subseteq Unrevoked
        /\ \A t \in Rows(tokens) : tokens'[t].family = tokens[t].family
    BY <2>1, RevokedFacts
  <2>3. Inserting' \subseteq Inserting /\ \A h \in Inserting' : at'[h] = at[h]
    BY <1>3 DEF TokensRevoked, NobodyPresents, Inserting
  <2>4. \A h \in Inserting' : FamilyOf(h)' = FamilyOf(h)
    BY <1>1, <2>2, <2>3 DEF FamilyOf
  <2>5. PresentedExist'
    BY <1>3, <2>2 DEF TokensRevoked, NobodyPresents, TokenInv, PresentedExist
  <2>6. FamiliesExist'
    BY <2>2 DEF TokenInv, FamiliesExist
  <2>7. OneLive' /\ OneNext' /\ LiveOrNext'
    BY <1>1, <2>2, <2>3, <2>4 DEF TokenInv, OneLive, OneNext, LiveOrNext
  <2>8. EndedStay
    BY <1>1, <2>2, <2>3, <2>4 DEF EndedStay, Live
  <2> QED
    BY <2>5, <2>6, <2>7, <2>8 DEF TokenInv
<1>4. ASSUME NEW h \in Handlers, Presents(h)
      PROVE  TokenInv' /\ EndedStay
  <2>1. PICK t \in Unrevoked :
          /\ at'[h] = [pc |-> "rotate", token |-> t, now |-> now]
          /\ \A g \in Handlers \ {h} : at'[g] = at[g]
    BY <1>4 DEF Presents, Goto, Typed
  <2>2. Unrevoked' = Unrevoked /\ Rows(tokens)' = Rows(tokens) /\ UNCHANGED tokens
    BY <1>4 DEF Presents, Unrevoked, Rows
  <2>3. Inserting' \subseteq Inserting /\ \A g \in Inserting' : at'[g] = at[g]
    BY <2>1 DEF Inserting
  <2>4. \A g \in Inserting' : FamilyOf(g)' = FamilyOf(g)
    BY <2>2, <2>3 DEF FamilyOf
  <2>5. PresentedExist'
    BY <1>1, <2>1, <2>2 DEF TokenInv, PresentedExist
  <2> QED
    BY <2>2, <2>3, <2>4, <2>5
    DEF TokenInv, FamiliesExist, OneLive, OneNext, LiveOrNext, EndedStay, Live
<1>5. ASSUME NEW h \in Handlers, Rotates(h)
      PROVE  TokenInv' /\ EndedStay
  <2> DEFINE t == at[h].token
  <2>1. /\ at[h].pc = "rotate" /\ t \in Unrevoked /\ t \in Tokens /\ t \in Rows(tokens)
        /\ tokens' = [tokens EXCEPT ![t].revoked = at[h].now]
        /\ Goto(h, [pc |-> "insert", token |-> t])
    BY <1>1, <1>5, RowFacts DEF Rotates, Rotate, Rotatable
  <2>2. at'[h] = [pc |-> "insert", token |-> t] /\ \A g \in Handlers \ {h} : at'[g] = at[g]
    BY <2>1 DEF Goto, Typed
  <2>3. at[h].now \in Times /\ at[h].now # 0
    BY <2>1, StepFields, SessionsAssumption DEF Typed, Times
  <2>4. /\ tokens'[t] = [tokens[t] EXCEPT !.revoked = at[h].now] /\ tokens[t] \in TokenRow
        /\ \A u \in Tokens \ {t} : tokens'[u] = tokens[u]
    BY <2>1, RowFacts DEF Typed
  <2>5. /\ tokens'[t].family = tokens[t].family /\ tokens'[t].revoked = at[h].now
        /\ tokens'[t] \in TokenRow
    BY <2>3, <2>4 DEF TokenRow
  <2>6. Rows(tokens)' = Rows(tokens)
    BY <2>1, <2>4, <2>5, RowFacts DEF Rows, Typed
  <2>7. Unrevoked' = Unrevoked \ {t}
    BY <2>3, <2>4, <2>5, <2>6, RowFacts DEF Unrevoked
  <2>8. Inserting' = Inserting \cup {h} /\ h \notin Inserting
    BY <2>1, <2>2 DEF Inserting
  <2>9. \A u \in Rows(tokens) : tokens'[u].family = tokens[u].family
    BY <2>4, <2>5, RowFacts
  <2>10. FamilyOf(h)' = tokens[t].family /\ \A g \in Inserting : FamilyOf(g)' = FamilyOf(g)
    BY <1>1, <2>1, <2>2, <2>8, <2>9 DEF FamilyOf
  <2>11. PresentedExist'
    BY <2>1, <2>2, <2>6 DEF TokenInv, PresentedExist
  <2>12. FamiliesExist'
    BY <2>6, <2>9 DEF TokenInv, FamiliesExist
  <2>13. OneLive'
    BY <1>1, <2>7, <2>9 DEF TokenInv, OneLive
  <2>14. OneNext'
    BY <2>1, <2>8, <2>10 DEF TokenInv, OneNext, LiveOrNext
  <2>15. LiveOrNext'
    BY <1>1, <2>1, <2>7, <2>8, <2>9, <2>10 DEF TokenInv, OneLive, LiveOrNext
  <2>16. EndedStay
    BY <1>1, <2>1, <2>7, <2>8, <2>9, <2>10 DEF EndedStay, Live
  <2> QED
    BY <2>11, <2>12, <2>13, <2>14, <2>15, <2>16 DEF TokenInv
<1>6. ASSUME NEW h \in Handlers, Insert(h)
      PROVE  TokenInv' /\ EndedStay
  <2>1. h \in Inserting /\ FamilyOf(h) \in Rows(tokens)
    BY <1>1, <1>6 DEF Insert, Inserting, TokenInv, FamiliesExist, FamilyOf
  <2>2. PICK t \in Tokens \ Rows(tokens) :
          tokens' = [tokens EXCEPT ![t] = NewToken(FamilyOf(h))]
    BY <1>6 DEF Insert, FamilyOf
  <2>3. /\ Rows(tokens)' = Rows(tokens) \cup {t} /\ tokens'[t].family = FamilyOf(h)
        /\ \A u \in Rows(tokens) : tokens'[u] = tokens[u]
        /\ Unrevoked' = Unrevoked \cup {t}
    BY <2>1, <2>2, RowFacts, NewTokenFacts
  <2>4. at'[h] = Idle /\ \A g \in Handlers \ {h} : at'[g] = at[g]
    BY <1>6 DEF Insert, Goto, Typed
  <2>5. Inserting' = Inserting \ {h}
    BY <2>4 DEF Inserting, Idle
  <2>6. \A g \in Inserting' : FamilyOf(g)' = FamilyOf(g)
    BY <1>1, <2>3, <2>4, <2>5 DEF FamilyOf
  <2>7. PresentedExist'
    BY <2>3, <2>4 DEF Idle, TokenInv, PresentedExist
  <2>8. FamiliesExist'
    BY <2>1, <2>3 DEF TokenInv, FamiliesExist
  <2>9. OneLive'
    BY <1>1, <2>1, <2>3 DEF TokenInv, OneLive, LiveOrNext
  <2>10. OneNext'
    BY <2>5, <2>6 DEF TokenInv, OneNext
  <2>11. LiveOrNext'
    BY <1>1, <2>1, <2>3, <2>5, <2>6 DEF TokenInv, OneNext, LiveOrNext
  <2>12. EndedStay
    BY <1>1, <2>1, <2>3, <2>5, <2>6 DEF EndedStay, Live
  <2> QED
    BY <2>7, <2>8, <2>9, <2>10, <2>11, <2>12 DEF TokenInv
<1>7. ASSUME NEW h \in Handlers, Enter(h)
      PROVE  TokenInv' /\ EndedStay
  <2>1. PICK t \in Tokens \ Rows(tokens) : tokens' = [tokens EXCEPT ![t] = NewToken(t)]
    BY <1>7 DEF Enter
  <2>2. /\ Rows(tokens)' = Rows(tokens) \cup {t} /\ tokens'[t].family = t
        /\ \A u \in Rows(tokens) : tokens'[u] = tokens[u]
        /\ Unrevoked' = Unrevoked \cup {t}
    BY <2>1, NewTokenFacts
  <2>3. at[h].pc = "enter" /\ at'[h] = Idle /\ \A g \in Handlers \ {h} : at'[g] = at[g]
    BY <1>7 DEF Enter, Goto, Typed
  <2>4. Inserting' = Inserting
    BY <2>3 DEF Inserting, Idle
  <2>5. \A g \in Inserting : FamilyOf(g)' = FamilyOf(g) /\ FamilyOf(g) \in Rows(tokens)
    BY <1>1, <2>2, <2>3, <2>4 DEF FamilyOf, Inserting, TokenInv, FamiliesExist
  <2>6. \A u \in Unrevoked : tokens[u].family \in Rows(tokens)
    BY <1>1 DEF TokenInv, FamiliesExist
  <2>7. PresentedExist'
    BY <2>2, <2>3 DEF Idle, TokenInv, PresentedExist
  <2>8. FamiliesExist'
    BY <2>2 DEF TokenInv, FamiliesExist
  <2>9. OneLive'
    BY <1>1, <2>1, <2>2, <2>6 DEF TokenInv, OneLive
  <2>10. OneNext'
    BY <2>4, <2>5 DEF TokenInv, OneNext
  <2>11. LiveOrNext'
    BY <1>1, <2>1, <2>2, <2>4, <2>5 DEF TokenInv, LiveOrNext
  <2>12. EndedStay
    BY <1>1, <2>1, <2>2, <2>4, <2>5 DEF EndedStay, Live
  <2> QED
    BY <2>7, <2>8, <2>9, <2>10, <2>11, <2>12 DEF TokenInv
<1> QED
  BY <1>2, <1>3, <1>4, <1>5, <1>6, <1>7 DEF TokenMoves

\* How little a step of a banned user can do: it takes away, or one request trades its
\* token for the right to store one, or stores the one it has the right to.
Dwindles ==
    \/ Unrevoked' \subseteq Unrevoked /\ PastCheck' \subseteq PastCheck
    \/ \E h \in Handlers, t \in Unrevoked :
         Unrevoked' = Unrevoked \ {t} /\ PastCheck' = PastCheck \cup {h}
    \/ \E h \in PastCheck, t \in Tokens :
         Unrevoked' = Unrevoked \cup {t} /\ PastCheck' = PastCheck \ {h}

\* Every step of a banned user is as little.
LEMMA BannedStep ==
    ASSUME Typed, TokenInv, [Next]_vars, user = "banned"
    PROVE  Dwindles
PROOF
<1>1. ~MayEnter
  BY DEF MayEnter
<1>2. ASSUME NEW h \in Handlers, Goto(h, Idle)
      PROVE  PastCheck' = PastCheck \ {h}
  <2>1. at'[h].pc = "idle" /\ \A g \in Handlers \ {h} : at'[g] = at[g]
    BY <1>2 DEF Goto, Typed, Idle
  <2> QED
    BY <2>1 DEF PastCheck
<1>3. ASSUME NEW h \in Handlers, Rotates(h)
      PROVE  Dwindles
  <2> DEFINE t == at[h].token
  <2>1. /\ at[h].pc = "rotate" /\ t \in Unrevoked /\ t \in Tokens
        /\ tokens' = [tokens EXCEPT ![t].revoked = at[h].now]
        /\ Goto(h, [pc |-> "insert", token |-> t])
    BY <1>3, RowFacts DEF Rotates, Rotate, Rotatable, Unrevoked
  <2>2. at[h].now \in Times /\ at[h].now # 0
    BY <2>1, StepFields, SessionsAssumption DEF Typed, Times
  <2>3. tokens' = Revoked({t}, at[h].now)
    BY <2>1 DEF Revoked, Typed
  <2>4. Unrevoked' = Unrevoked \ {t}
    BY <2>2, <2>3, RevokedFacts
  <2>5. at'[h].pc = "insert" /\ \A g \in Handlers \ {h} : at'[g] = at[g]
    BY <2>1 DEF Goto, Typed
  <2>6. PastCheck' = PastCheck \cup {h}
    BY <2>5 DEF PastCheck
  <2> QED
    BY <2>1, <2>4, <2>6 DEF Dwindles
<1>4. ASSUME NEW h \in Handlers, Insert(h) \/ Enter(h)
      PROVE  Dwindles
  <2>1. h \in PastCheck /\ Goto(h, Idle)
    BY <1>4 DEF Insert, Enter, PastCheck
  <2>2. at[h].pc = "insert" => tokens[at[h].token].family \in Tokens
    BY RowFacts DEF TokenInv, PresentedExist, TokenRow
  <2>3. PICK t \in Tokens \ Rows(tokens), f \in Tokens :
          tokens' = [tokens EXCEPT ![t] = NewToken(f)]
    BY <1>4, <2>2 DEF Insert, Enter
  <2>4. Unrevoked' = Unrevoked \cup {t}
    BY <2>3, NewTokenFacts
  <2> QED
    BY <1>2, <2>1, <2>3, <2>4 DEF Dwindles
<1>5. ASSUME ~\E h \in Handlers : Rotates(h) \/ Insert(h) \/ Enter(h)
      PROVE  Unrevoked' \subseteq Unrevoked
  <2>1. CASE TokensRevoked
    <3>1. PICK these \in SUBSET Tokens, time \in Times : tokens' = Revoked(these, time)
      BY <2>1 DEF TokensRevoked
    <3>2. Unrevoked' = Unrevoked \ these
      BY <3>1, RevokedFacts
    <3> QED
      BY <3>2
  <2>2. CASE UNCHANGED tokens
    BY <2>2 DEF Unrevoked, Rows
  <2> QED
    BY <1>5, <2>1, <2>2, TokenSteps DEF TokenMoves, TokensRest, Presents
<1>6. ASSUME NEW h \in Handlers, NEW s, Goto(h, s), s.pc \notin {"enter", "insert"}
      PROVE  PastCheck' \subseteq PastCheck
  <2>1. at'[h] = s /\ \A g \in Handlers \ {h} : at'[g] = at[g]
    BY <1>6 DEF Goto, Typed
  <2> QED
    BY <1>6, <2>1 DEF PastCheck
<1>7. Idle.pc = "idle"
  BY DEF Idle
<1>8. ASSUME NEW h \in Handlers, CodeStep(h) \/ TokenStep(h) \/ Fail(h),
             ~Rotates(h), ~Insert(h), ~Enter(h)
      PROVE  \E s : Goto(h, s) /\ s.pc \notin {"enter", "insert"}
  <2>1. CASE CheckRate(h)
    BY <2>1 DEF CheckRate
  <2>2. CASE VoidOld(h)
    BY <2>2 DEF VoidOld
  <2>3. CASE \/ CreateCode(h) \/ CountAttempt(h) \/ IssueSsoCode(h) \/ RevokeLeaked(h)
             \/ Logout(h) \/ Fail(h)
    BY <2>3, <1>7 DEF CreateCode, CountAttempt, IssueSsoCode, RevokeLeaked, Logout, Fail
  <2>4. CASE ReadCode(h) \/ ReadSsoCode(h)
    <3>1. \E c, next : next \in {"wrong", "consume"} /\ Goto(h, [pc |-> next, code |-> c])
      <4>1. CASE ReadCode(h)
        BY <4>1 DEF ReadCode
      <4>2. CASE ReadSsoCode(h)
        BY <4>2 DEF ReadSsoCode
      <4> QED
        BY <2>4, <4>1, <4>2
    <3> QED
      BY <3>1
  <2>5. CASE ConsumeCode(h) \/ ConsumeSsoCode(h)
    <3>1. Goto(h, [pc |-> "find", code |-> at[h].code]) \/ Goto(h, Idle)
      BY <2>5 DEF ConsumeCode, ConsumeSsoCode
    <3> QED
      BY <3>1, <1>7
  <2>6. CASE FindUser(h)
    BY <2>6, <1>1, <1>7 DEF FindUser
  <2>7. CASE ReadToken(h)
    BY <2>7 DEF ReadToken
  <2>8. CASE Rotate(h)
    BY <2>8, <1>7, <1>8 DEF Rotate, Rotates, Rotatable
  <2>9. CASE ReadForLogout(h)
    BY <2>9 DEF ReadForLogout
  <2>10. CASE AskSsoCode(h)
    BY <2>10 DEF AskSsoCode
  <2>11. ~ReadPassword(h)
    BY <1>1 DEF ReadPassword
  <2> QED
    BY <1>8, <2>1, <2>2, <2>3, <2>4, <2>5, <2>6, <2>7, <2>8, <2>9, <2>10, <2>11
    DEF CodeStep, TokenStep
<1>9. ASSUME ~\E h \in Handlers : Rotates(h) \/ Insert(h) \/ Enter(h)
      PROVE  PastCheck' \subseteq PastCheck
  <2>1. CASE UNCHANGED at
    BY <2>1 DEF PastCheck
  <2>2. UNCHANGED at \/ \E h \in Handlers : CodeStep(h) \/ TokenStep(h) \/ Fail(h)
    BY DEF Next, AdminStep, SetStatus, RevokeAll, RevokeAllFails, Tick, vars
  <2> QED
    BY <1>6, <1>8, <1>9, <2>1, <2>2
<1> QED
  BY <1>3, <1>4, <1>5, <1>9 DEF Dwindles

-----------------------------------------------------------------------------
\* Codes.  A code is used up by the one handler that enters with it.

Issued == Rows(mail) \cup Rows(sso)
Spent == {c \in Rows(mail) : mail[c].used} \cup {c \in Rows(sso) : sso[c].used}
Entering(h, c) == at[h].pc \in {"find", "enter"} /\ at[h].code = c

ReadExist == \A h \in Handlers : at[h].pc \in {"wrong", "consume"} => at[h].code \in Issued
EnteringSpent ==
    \A h \in Handlers, c \in Codes : Entering(h, c) => c \in Spent /\ opened[c] = 0
OneEnters == \A g, h \in Handlers, c \in Codes : Entering(g, c) /\ Entering(h, c) => g = h
OpenedSpent == \A c \in Codes : opened[c] = 0 \/ (opened[c] = 1 /\ c \in Spent)

CodeInv == ReadExist /\ EnteringSpent /\ OneEnters /\ OpenedSpent

\* A handler uses up a code that nobody had used.
Consumes(h) ==
    /\ opened' = opened /\ Issued' = Issued
    /\ \E c \in Codes \ Spent :
         /\ at[h].pc = "consume" /\ Spent' = Spent \cup {c}
         /\ Goto(h, [pc |-> "find", code |-> c])

\* A code that a guarded UPDATE finds unused is used by the handler from then on.
LEMMA ConsumeFacts ==
    ASSUME Typed, ReadExist, NEW h \in Handlers, ConsumeCode(h) \/ ConsumeSsoCode(h)
    PROVE  \/ Goto(h, Idle) /\ UNCHANGED <<mail, sso>>
           \/ Consumes(h)
PROOF
<1> DEFINE c == at[h].code
<1>1. at[h].pc = "consume" /\ c \in Issued
  BY DEF ConsumeCode, ConsumeSsoCode, ReadExist
<1>2. CASE ConsumeCode(h) /\ Unused(mail[c])
  <2>1. c \in MailCodes /\ c \in Rows(mail) /\ mail[c] \in MailRow /\ c \notin SsoCodes
    BY <1>1, <1>2, RowFacts, SessionsAssumption DEF ConsumeCode, Issued
  <2>2. sso' = sso /\ opened' = opened /\ Goto(h, [pc |-> "find", code |-> c])
    BY <1>2 DEF ConsumeCode
  <2>3. /\ mail'[c] \in MailRow /\ mail'[c].used /\ DOMAIN mail' = MailCodes
        /\ \A d \in MailCodes \ {c} : mail'[d] = mail[d]
    <3>1. \A r \in MailRow :
            [r EXCEPT !.used = TRUE] \in MailRow /\ [r EXCEPT !.used = TRUE].used
      BY DEF MailRow
    <3>2. mail' = [mail EXCEPT ![c].used = TRUE]
      BY <1>2 DEF ConsumeCode
    <3> QED
      BY <2>1, <3>1, <3>2 DEF Typed
  <2>4. Rows(mail)' = Rows(mail) /\ Rows(sso)' = Rows(sso)
    BY <2>1, <2>2, <2>3, RowFacts DEF Rows, Typed
  <2>5. Issued' = Issued /\ Spent' = Spent \cup {c}
    BY <2>1, <2>2, <2>3, <2>4, RowFacts DEF Issued, Spent
  <2>6. c \in Codes \ Spent
    BY <1>2, <2>1, RowFacts DEF Codes, Spent, Unused
  <2> QED
    BY <1>1, <2>2, <2>5, <2>6 DEF Consumes
<1>3. CASE ConsumeSsoCode(h) /\ Unused(sso[c])
  <2>1. c \in SsoCodes /\ c \in Rows(sso) /\ sso[c] \in SsoRow /\ c \notin MailCodes
    BY <1>1, <1>3, RowFacts, SessionsAssumption DEF ConsumeSsoCode, Issued
  <2>2. mail' = mail /\ opened' = opened /\ Goto(h, [pc |-> "find", code |-> c])
    BY <1>3 DEF ConsumeSsoCode
  <2>3. /\ sso'[c] \in SsoRow /\ sso'[c].used /\ DOMAIN sso' = SsoCodes
        /\ \A d \in SsoCodes \ {c} : sso'[d] = sso[d]
    <3>1. \A r \in SsoRow :
            [r EXCEPT !.used = TRUE] \in SsoRow /\ [r EXCEPT !.used = TRUE].used
      BY DEF SsoRow
    <3>2. sso' = [sso EXCEPT ![c].used = TRUE]
      BY <1>3 DEF ConsumeSsoCode
    <3> QED
      BY <2>1, <3>1, <3>2 DEF Typed
  <2>4. Rows(sso)' = Rows(sso) /\ Rows(mail)' = Rows(mail)
    BY <2>1, <2>2, <2>3, RowFacts DEF Rows, Typed
  <2>5. Issued' = Issued /\ Spent' = Spent \cup {c}
    BY <2>1, <2>2, <2>3, <2>4, RowFacts DEF Issued, Spent
  <2>6. c \in Codes \ Spent
    BY <1>3, <2>1, RowFacts DEF Codes, Spent, Unused
  <2> QED
    BY <1>1, <2>2, <2>5, <2>6 DEF Consumes
<1>4. CASE ConsumeCode(h) /\ ~Unused(mail[c])
  BY <1>4 DEF ConsumeCode
<1>5. CASE ConsumeSsoCode(h) /\ ~Unused(sso[c])
  BY <1>5 DEF ConsumeSsoCode
<1> QED
  BY <1>2, <1>3, <1>4, <1>5

\* Rows of codes are kept and used ones stay so.
CodesKept ==
    /\ \A c \in Rows(mail) : c \in Rows(mail)' /\ (mail[c].used => mail'[c].used)
    /\ \A c \in Rows(sso) : c \in Rows(sso)' /\ (sso[c].used => sso'[c].used)
\* Nobody gets past a guarded UPDATE, and codes that are read exist.
NobodyEnters ==
    /\ \A h \in Handlers, c \in Codes : Entering(h, c)' => Entering(h, c)
    /\ \A h \in Handlers : at'[h].pc \in {"wrong", "consume"} =>
                             at'[h] = at[h] \/ at'[h].code \in Issued

\* Handlers void or create a code, or count an attempt at it; a single sign-on code is made.
LEMMA CodeRows ==
    ASSUME Typed, [Next]_vars,
           ~\E h \in Handlers : ConsumeCode(h) \/ ConsumeSsoCode(h)
    PROVE  CodesKept
PROOF
<1>1. CASE UNCHANGED <<mail, sso>>
  BY <1>1 DEF CodesKept, Rows
<1>2. ASSUME NEW h \in Handlers, CreateCode(h)
      PROVE  CodesKept
  <2>1. PICK n \in MailCodes \ Rows(mail) :
          mail' = [d \in MailCodes |->
                     IF d = n THEN [made |-> at[h].now, used |-> FALSE, attempts |-> 0]
                     ELSE IF d \in at[h].old THEN [mail[d] EXCEPT !.used = TRUE]
                     ELSE mail[d]]
    BY <1>2 DEF CreateCode
  <2>2. \A r \in MailRow :
          [r EXCEPT !.used = TRUE] \in MailRow /\ [r EXCEPT !.used = TRUE].used
    BY DEF MailRow
  <2>3. ASSUME NEW c \in Rows(mail)
        PROVE  c \in Rows(mail)' /\ (mail[c].used => mail'[c].used)
    <3>1. c \in MailCodes /\ c # n /\ mail[c] \in MailRow /\ DOMAIN mail' = MailCodes
      BY <2>1, RowFacts
    <3>2. mail'[c] = mail[c] \/ mail'[c] = [mail[c] EXCEPT !.used = TRUE]
      BY <2>1, <3>1
    <3>3. mail'[c] \in MailRow /\ (mail[c].used => mail'[c].used)
      BY <2>2, <3>1, <3>2
    <3> QED
      BY <3>1, <3>3, RowFacts DEF Rows
  <2>4. sso' = sso
    BY <1>2 DEF CreateCode
  <2> QED
    BY <2>3, <2>4 DEF CodesKept, Rows
<1>3. ASSUME NEW h \in Handlers, CountAttempt(h)
      PROVE  CodesKept
  <2>1. mail' = [mail EXCEPT ![at[h].code].attempts = @ + 1]
    BY <1>3 DEF CountAttempt
  <2>2. \A r \in MailRow :
          /\ [r EXCEPT !.attempts = r.attempts + 1] \in MailRow
          /\ [r EXCEPT !.attempts = r.attempts + 1].used = r.used
    BY DEF MailRow
  <2>3. ASSUME NEW c \in Rows(mail)
        PROVE  c \in Rows(mail)' /\ (mail[c].used => mail'[c].used)
    <3>1. c \in MailCodes /\ mail[c] \in MailRow /\ DOMAIN mail' = MailCodes
      BY <2>1, RowFacts DEF Typed
    <3>2. mail'[c] = mail[c] \/ mail'[c] = [mail[c] EXCEPT !.attempts = mail[c].attempts + 1]
      BY <2>1, <3>1 DEF Typed
    <3>3. mail'[c] \in MailRow /\ (mail[c].used => mail'[c].used)
      BY <2>2, <3>1, <3>2
    <3> QED
      BY <3>1, <3>3, RowFacts DEF Rows
  <2>4. sso' = sso
    BY <1>3 DEF CountAttempt
  <2> QED
    BY <2>3, <2>4 DEF CodesKept, Rows
<1>4. ASSUME NEW h \in Handlers, IssueSsoCode(h)
      PROVE  CodesKept
  <2>1. PICK c \in SsoCodes \ Rows(sso) :
          mail' = mail /\ sso' = [sso EXCEPT ![c] = [made |-> now, used |-> FALSE]]
    BY <1>4 DEF IssueSsoCode
  <2>2. ASSUME NEW d \in Rows(sso)
        PROVE  d \in Rows(sso)' /\ sso'[d] = sso[d]
    BY <2>1, RowFacts DEF Rows, Typed
  <2> QED
    BY <2>1, <2>2 DEF CodesKept, Rows
<1>5. \/ UNCHANGED <<mail, sso>>
      \/ \E h \in Handlers : CreateCode(h) \/ CountAttempt(h) \/ IssueSsoCode(h)
  <2>1. ASSUME NEW h \in Handlers, CodeStep(h) \/ TokenStep(h) \/ Fail(h),
               ~CreateCode(h), ~CountAttempt(h), ~IssueSsoCode(h)
        PROVE  UNCHANGED <<mail, sso>>
    <3>1. ~ConsumeCode(h) /\ ~ConsumeSsoCode(h)
      OBVIOUS
    <3> QED
      BY <2>1, <3>1 DEF CodeStep, TokenStep, Fail, CheckRate, VoidOld, ReadCode, AskSsoCode,
         ReadSsoCode,
         FindUser, Enter, ReadPassword, ReadToken, RevokeLeaked, Rotate, Insert,
         ReadForLogout, Logout
  <2>2. AdminStep \/ Tick \/ UNCHANGED vars => UNCHANGED <<mail, sso>>
    BY DEF AdminStep, SetStatus, RevokeAll, RevokeAllFails, Tick, vars
  <2> QED
    BY <2>1, <2>2 DEF Next
<1> QED
  BY <1>1, <1>2, <1>3, <1>4, <1>5

\* Between the UPDATE and the new session a handler keeps its code; nobody else takes it.
LEMMA CodeReaders ==
    ASSUME Typed, [Next]_vars,
           ~\E h \in Handlers : ConsumeCode(h) \/ ConsumeSsoCode(h)
    PROVE  NobodyEnters
PROOF
<1>1. UNCHANGED at => NobodyEnters
  BY DEF NobodyEnters, Entering
<1>2. ASSUME NEW h \in Handlers, NEW s, Goto(h, s),
             s.pc \in {"find", "enter"} => s.code \notin Codes \/ Entering(h, s.code),
             s.pc \in {"wrong", "consume"} => s.code \in Issued
      PROVE  NobodyEnters
  <2>1. at'[h] = s /\ \A g \in Handlers \ {h} : at'[g] = at[g]
    BY <1>2 DEF Goto, Typed
  <2> QED
    BY <1>2, <2>1 DEF NobodyEnters, Entering
<1>3. Idle.pc = "idle"
  BY DEF Idle
<1>4. ASSUME NEW h \in Handlers, CodeStep(h) \/ TokenStep(h) \/ Fail(h)
      PROVE  NobodyEnters
  <2>1. CASE CheckRate(h)
    <3>1. Goto(h, [pc |-> "void", now |-> now])
      BY <2>1 DEF CheckRate
    <3> QED
      BY <3>1, <1>2
  <2>2. CASE VoidOld(h)
    <3>1. Goto(h, [pc |-> "create", now |-> at[h].now, old |-> UnusedMail])
      BY <2>2 DEF VoidOld
    <3> QED
      BY <3>1, <1>2
  <2>3. CASE Goto(h, Idle)
    BY <2>3, <1>2, <1>3
  <2>4. CASE ReadCode(h) \/ ReadSsoCode(h)
    <3>1. \E c \in Issued, next \in {"wrong", "consume"} : Goto(h, [pc |-> next, code |-> c])
      <4>1. CASE ReadCode(h)
        BY <4>1 DEF ReadCode, Issued
      <4>2. CASE ReadSsoCode(h)
        BY <4>2 DEF ReadSsoCode, Issued
      <4> QED
        BY <2>4, <4>1, <4>2
    <3>2. PICK c \in Issued, next \in {"wrong", "consume"} : Goto(h, [pc |-> next, code |-> c])
      BY <3>1
    <3>3. [pc |-> next, code |-> c].pc = next /\ [pc |-> next, code |-> c].code = c
      OBVIOUS
    <3> QED
      BY <3>2, <3>3, <1>2
  <2>5. CASE FindUser(h) /\ MayEnter
    <3>1. Goto(h, [pc |-> "enter", code |-> at[h].code]) /\ at[h].pc = "find"
      BY <2>5 DEF FindUser
    <3>2. Entering(h, at[h].code)
      BY <3>1 DEF Entering
    <3> QED
      BY <3>1, <3>2, <1>2
  <2>6. CASE ReadPassword(h)
    <3>1. Goto(h, [pc |-> "enter", code |-> "password"])
      BY <2>6 DEF ReadPassword
    <3>2. "password" \notin Codes
      BY SessionsAssumption DEF Codes
    <3> QED
      BY <3>1, <3>2, <1>2
  <2>7. CASE ReadToken(h) \/ ReadForLogout(h) \/ Rotate(h)
    <3>1. \E s : Goto(h, s) /\ s.pc \in {"rotate", "leak", "logout", "insert", "idle"}
      <4>1. CASE ReadToken(h)
        BY <4>1 DEF ReadToken
      <4>2. CASE ReadForLogout(h)
        BY <4>2 DEF ReadForLogout
      <4>3. CASE Rotate(h)
        BY <4>3, <1>3 DEF Rotate
      <4> QED
        BY <2>7, <4>1, <4>2, <4>3
    <3> QED
      BY <3>1, <1>2
  <2>8. CASE \/ CreateCode(h) \/ CountAttempt(h) \/ IssueSsoCode(h) \/ Fail(h)
             \/ (FindUser(h) /\ ~MayEnter)
             \/ Enter(h) \/ RevokeLeaked(h) \/ Insert(h) \/ Logout(h)
    <3>1. Goto(h, Idle)
      BY <2>8 DEF CreateCode, CountAttempt, IssueSsoCode, Fail, FindUser, Enter, RevokeLeaked,
         Insert, Logout
    <3> QED
      BY <2>3, <3>1
  <2>11. CASE AskSsoCode(h)
    <3>1. Goto(h, [pc |-> "issue"])
      BY <2>11 DEF AskSsoCode
    <3> QED
      BY <3>1, <1>2
  <2>9. ~ConsumeCode(h) /\ ~ConsumeSsoCode(h)
    OBVIOUS
  <2>10. FindUser(h) => (FindUser(h) /\ MayEnter) \/ (FindUser(h) /\ ~MayEnter)
    OBVIOUS
  <2> QED
    BY <1>4, <2>1, <2>2, <2>4, <2>5, <2>6, <2>7, <2>8, <2>9, <2>10, <2>11
    DEF CodeStep, TokenStep
<1>5. UNCHANGED at \/ \E h \in Handlers : CodeStep(h) \/ TokenStep(h) \/ Fail(h)
  BY DEF Next, AdminStep, SetStatus, RevokeAll, RevokeAllFails, Tick, vars
<1> QED
  BY <1>1, <1>4, <1>5

\* Codes stay used up by one handler and open one session.
LEMMA CodeInvKept ==
    ASSUME Typed, Typed', CodeInv, [Next]_vars
    PROVE  CodeInv'
PROOF
<1>1. ReadExist /\ EnteringSpent /\ OneEnters /\ OpenedSpent
  BY DEF CodeInv
<1>2. Spent \subseteq Issued /\ Issued \subseteq Codes
  BY RowFacts DEF Spent, Issued, Codes
<1>3. ASSUME NEW h \in Handlers, Consumes(h)
      PROVE  CodeInv'
  <2>1. PICK c \in Codes \ Spent : /\ Spent' = Spent \cup {c}
                                   /\ Goto(h, [pc |-> "find", code |-> c])
    BY <1>3 DEF Consumes
  <2>2. at'[h].pc = "find" /\ at'[h].code = c /\ \A g \in Handlers \ {h} : at'[g] = at[g]
    BY <2>1 DEF Goto, Typed
  <2>3. opened' = opened /\ Issued' = Issued
    BY <1>3 DEF Consumes
  <2>4. opened[c] = 0 /\ \A g \in Handlers : ~Entering(g, c)
    BY <1>1, <2>1 DEF OpenedSpent, EnteringSpent
  <2>5. \A g \in Handlers, d \in Codes :
          Entering(g, d)' => (g = h /\ d = c) \/ (g # h /\ d # c /\ Entering(g, d))
    <3>1. \A d \in Codes : Entering(h, d)' => d = c
      BY <2>2 DEF Entering
    <3>2. \A g \in Handlers \ {h}, d \in Codes : Entering(g, d)' => Entering(g, d) /\ d # c
      BY <2>2, <2>4 DEF Entering
    <3> QED
      BY <3>1, <3>2
  <2>6. ReadExist'
    BY <1>1, <2>2, <2>3 DEF ReadExist
  <2>7. EnteringSpent'
    BY <1>1, <2>1, <2>3, <2>4, <2>5 DEF EnteringSpent
  <2>8. OneEnters'
    BY <1>1, <2>5 DEF OneEnters
  <2>9. OpenedSpent'
    BY <1>1, <2>1, <2>3 DEF OpenedSpent
  <2> QED
    BY <2>6, <2>7, <2>8, <2>9 DEF CodeInv
<1>4. ASSUME CodesKept, NobodyEnters
      PROVE  /\ ReadExist' /\ OneEnters' /\ Spent \subseteq Spent'
             /\ \A h \in Handlers, c \in Codes : Entering(h, c)' => Entering(h, c)
  <2>1. Issued \subseteq Issued' /\ Spent \subseteq Spent'
    BY <1>4 DEF CodesKept, Issued, Spent
  <2>2. ReadExist'
    BY <1>1, <1>4, <2>1 DEF NobodyEnters, ReadExist
  <2>3. OneEnters'
    BY <1>1, <1>4 DEF NobodyEnters, OneEnters
  <2> QED
    BY <1>4, <2>1, <2>2, <2>3 DEF NobodyEnters
<1>5. ASSUME CodesKept, NobodyEnters, opened' = opened
      PROVE  CodeInv'
  <2>1. /\ ReadExist' /\ OneEnters' /\ Spent \subseteq Spent'
        /\ \A h \in Handlers, c \in Codes : Entering(h, c)' => Entering(h, c)
    BY <1>4, <1>5
  <2>2. EnteringSpent'
    BY <1>1, <1>5, <2>1 DEF EnteringSpent
  <2>3. OpenedSpent'
    BY <1>1, <1>5, <2>1 DEF OpenedSpent
  <2> QED
    BY <2>1, <2>2, <2>3 DEF CodeInv
<1>6. ASSUME CodesKept, NobodyEnters, NEW h \in Handlers, Enter(h)
      PROVE  CodeInv'
  <2> DEFINE c == at[h].code
  <2>1. /\ ReadExist' /\ OneEnters' /\ Spent \subseteq Spent'
        /\ \A g \in Handlers, d \in Codes : Entering(g, d)' => Entering(g, d)
    BY <1>4, <1>6
  <2>2. at[h].pc = "enter" /\ at'[h] = Idle
    BY <1>6 DEF Enter, Goto, Typed
  <2>3. \A d \in Codes : Entering(h, d) <=> d = c
    BY <2>2 DEF Entering
  <2>4. \A g \in Handlers, d \in Codes : Entering(g, d)' => g # h /\ d # c
    <3>1. \A d \in Codes : ~Entering(h, d)'
      BY <2>2 DEF Entering, Idle
    <3> QED
      BY <1>1, <2>1, <2>3, <3>1 DEF OneEnters
  <2>5. c \in Codes => c \in Spent /\ opened[c] = 0
    BY <1>1, <2>3 DEF EnteringSpent
  <2>6. \A d \in Codes : opened'[d] = IF d = c THEN opened[d] + 1 ELSE opened[d]
    BY <1>6 DEF Enter, Typed, Codes
  <2>7. EnteringSpent'
    BY <1>1, <2>1, <2>4, <2>6 DEF EnteringSpent
  <2>8. OpenedSpent'
    BY <1>1, <2>1, <2>5, <2>6 DEF OpenedSpent
  <2> QED
    BY <2>1, <2>7, <2>8 DEF CodeInv
<1>7. ASSUME NEW h \in Handlers, ConsumeCode(h) \/ ConsumeSsoCode(h)
      PROVE  CodeInv'
  <2>1. CASE Goto(h, Idle) /\ UNCHANGED <<mail, sso>>
    <3>1. CodesKept
      BY <2>1 DEF CodesKept, Rows
    <3>2. NobodyEnters
      <4>1. at'[h] = Idle /\ \A g \in Handlers \ {h} : at'[g] = at[g]
        BY <2>1 DEF Goto, Typed
      <4> QED
        BY <4>1 DEF NobodyEnters, Entering, Idle
    <3>3. opened' = opened
      BY <1>7 DEF ConsumeCode, ConsumeSsoCode
    <3> QED
      BY <1>5, <3>1, <3>2, <3>3
  <2> QED
    BY <1>1, <1>3, <1>7, <2>1, ConsumeFacts
<1>8. ASSUME ~\E h \in Handlers : ConsumeCode(h) \/ ConsumeSsoCode(h)
      PROVE  CodeInv'
  <2>1. CodesKept /\ NobodyEnters
    BY <1>8, CodeRows, CodeReaders
  <2>2. opened' = opened \/ \E h \in Handlers : Enter(h)
    <3>1. ASSUME NEW h \in Handlers, CodeStep(h) \/ TokenStep(h) \/ Fail(h), ~Enter(h)
          PROVE  opened' = opened
      BY <3>1 DEF CodeStep, TokenStep, CheckRate, VoidOld, CreateCode, ReadCode, CountAttempt,
         ConsumeCode, AskSsoCode, IssueSsoCode, ReadSsoCode, ConsumeSsoCode, FindUser,
         ReadPassword, ReadToken,
         RevokeLeaked, Rotate, Insert, ReadForLogout, Logout, Fail
    <3> QED
      BY <3>1 DEF Next, AdminStep, SetStatus, RevokeAll, RevokeAllFails, Tick, vars
  <2> QED
    BY <1>5, <1>6, <2>1, <2>2
<1> QED
  BY <1>7, <1>8

-----------------------------------------------------------------------------
\* Guesses.  Whoever read a code while it could be tried may still count one attempt.

Guessing(c) == {h \in Handlers : at[h].pc = "wrong" /\ at[h].code = c}
GuessesBounded ==
    \A c \in Rows(mail) :
      mail[c].attempts + Cardinality(Guessing(c)) <= CodeMaxAttempts + Cardinality(Handlers) - 1

\* Guessing handlers can be counted.
LEMMA GuessingCounted ==
    \A c : /\ IsFiniteSet(Guessing(c)) /\ Cardinality(Guessing(c)) \in Nat
           /\ IsFiniteSet(Guessing(c)') /\ Cardinality(Guessing(c)') \in Nat
           /\ Cardinality(Guessing(c)') <= Cardinality(Handlers)
           /\ Guessing(c)' \subseteq Guessing(c) =>
                Cardinality(Guessing(c)') <= Cardinality(Guessing(c))
           /\ \A h \in Handlers \ Guessing(c)' :
                Cardinality(Guessing(c)') <= Cardinality(Handlers) - 1
PROOF
<1> SUFFICES ASSUME NEW c
             PROVE  /\ IsFiniteSet(Guessing(c)) /\ Cardinality(Guessing(c)) \in Nat
                    /\ IsFiniteSet(Guessing(c)') /\ Cardinality(Guessing(c)') \in Nat
                    /\ Cardinality(Guessing(c)') <= Cardinality(Handlers)
                    /\ Guessing(c)' \subseteq Guessing(c) =>
                         Cardinality(Guessing(c)') <= Cardinality(Guessing(c))
                    /\ \A h \in Handlers \ Guessing(c)' :
                         Cardinality(Guessing(c)') <= Cardinality(Handlers) - 1
  OBVIOUS
<1>1. IsFiniteSet(Handlers) /\ Guessing(c) \subseteq Handlers /\ Guessing(c)' \subseteq Handlers
  BY SessionsAssumption DEF Guessing
<1>2. IsFiniteSet(Guessing(c)) /\ IsFiniteSet(Guessing(c)')
      /\ Cardinality(Guessing(c)') <= Cardinality(Handlers)
  BY <1>1, FS_Subset
<1>3. Cardinality(Guessing(c)) \in Nat /\ Cardinality(Guessing(c)') \in Nat
  BY <1>2, FS_CardinalityType
<1>4. Guessing(c)' \subseteq Guessing(c) => Cardinality(Guessing(c)') <= Cardinality(Guessing(c))
  BY <1>2, FS_Subset
<1>5. ASSUME NEW h \in Handlers \ Guessing(c)'
      PROVE  Cardinality(Guessing(c)') <= Cardinality(Handlers) - 1
  <2>1. Guessing(c)' \subseteq Handlers \ {h}
    BY <1>1
  <2>2. IsFiniteSet(Handlers \ {h}) /\ Cardinality(Handlers \ {h}) = Cardinality(Handlers) - 1
    BY <1>1, FS_RemoveElement
  <2>3. Cardinality(Guessing(c)') <= Cardinality(Handlers \ {h})
    BY <2>1, <2>2, FS_Subset
  <2> QED
    BY <2>2, <2>3
<1> QED
  BY <1>2, <1>3, <1>4, <1>5

\* A code is read while attempts are left; each reading is counted once.
LEMMA GuessesKept ==
    ASSUME Typed, Typed', ReadExist, GuessesBounded, [Next]_vars
    PROVE  GuessesBounded'
PROOF
<1>1. CodeMaxAttempts \in Nat /\ Cardinality(Handlers) \in Nat
  BY SessionsAssumption, FS_CardinalityType
<1>2. /\ \A c \in Rows(mail) : c \in MailCodes /\ mail[c].attempts \in Nat
      /\ \A c \in Rows(mail)' : c \in MailCodes /\ mail'[c].attempts \in Nat
  BY RowFacts DEF MailRow, Typed, Rows
<1>3. ASSUME \A c \in Rows(mail)' :
               /\ c \in Rows(mail) /\ mail'[c].attempts = mail[c].attempts
               /\ Guessing(c)' \subseteq Guessing(c)
      PROVE  GuessesBounded'
  <2>1. ASSUME NEW c \in Rows(mail)'
        PROVE  mail'[c].attempts + Cardinality(Guessing(c)')
                 <= CodeMaxAttempts + Cardinality(Handlers) - 1
    <3>1. mail[c].attempts + Cardinality(Guessing(c))
            <= CodeMaxAttempts + Cardinality(Handlers) - 1
      BY <1>3, <2>1 DEF GuessesBounded
    <3>2. Cardinality(Guessing(c)') <= Cardinality(Guessing(c))
          /\ Cardinality(Guessing(c)) \in Nat /\ Cardinality(Guessing(c)') \in Nat
      BY <1>3, <2>1, GuessingCounted
    <3> QED
      BY <1>1, <1>2, <1>3, <2>1, <3>1, <3>2
  <2> QED
    BY <2>1 DEF GuessesBounded
<1>4. ASSUME NEW h \in Handlers, NEW s, Goto(h, s), s.pc # "wrong"
      PROVE  \A c : Guessing(c)' \subseteq Guessing(c) \ {h}
  <2>1. at'[h] = s /\ \A g \in Handlers \ {h} : at'[g] = at[g]
    BY <1>4 DEF Goto, Typed
  <2> QED
    BY <1>4, <2>1 DEF Guessing
<1>5. Idle.pc = "idle"
  BY DEF Idle
<1>6. UNCHANGED at => \A c : Guessing(c)' = Guessing(c)
  BY DEF Guessing
<1>7. ASSUME NEW h \in Handlers, ReadCode(h)
      PROVE  GuessesBounded'
  <2>1. mail' = mail
    BY <1>7 DEF ReadCode
  <2>2. PICK c \in Rows(mail), next \in {"wrong", "consume"} :
          Newest(c) /\ Goto(h, [pc |-> next, code |-> c])
    BY <1>7 DEF ReadCode
  <2>3. mail[c].attempts < CodeMaxAttempts
    BY <2>2 DEF Newest, Valid
  <2>4. \A d : d # c => Guessing(d)' \subseteq Guessing(d)
    <3>1. at'[h].code = c /\ \A g \in Handlers \ {h} : at'[g] = at[g]
      BY <2>2 DEF Goto, Typed
    <3> QED
      BY <3>1 DEF Guessing
  <2>5. ASSUME NEW d \in Rows(mail)
        PROVE  mail[d].attempts + Cardinality(Guessing(d)')
                 <= CodeMaxAttempts + Cardinality(Handlers) - 1
    <3>1. CASE d = c
      BY <1>1, <1>2, <2>3, <3>1, GuessingCounted
    <3>2. CASE d # c
      <4>1. Cardinality(Guessing(d)') <= Cardinality(Guessing(d))
            /\ Cardinality(Guessing(d)) \in Nat /\ Cardinality(Guessing(d)') \in Nat
        BY <2>4, <3>2, GuessingCounted
      <4>2. mail[d].attempts + Cardinality(Guessing(d))
              <= CodeMaxAttempts + Cardinality(Handlers) - 1
        BY DEF GuessesBounded
      <4> QED
        BY <1>1, <1>2, <4>1, <4>2
    <3> QED
      BY <3>1, <3>2
  <2>6. Rows(mail)' = Rows(mail)
    BY <2>1 DEF Rows
  <2> QED
    BY <2>1, <2>5, <2>6 DEF GuessesBounded
<1>8. ASSUME NEW h \in Handlers, CountAttempt(h)
      PROVE  GuessesBounded'
  <2> PICK c : c = at[h].code
    OBVIOUS
  <2>1. at[h].pc = "wrong" /\ h \in Guessing(c)
    BY <1>8 DEF CountAttempt, Guessing
  <2>2. c \in Rows(mail) /\ mail[c] \in MailRow
    <3>1. c \in MailCodes
      BY <2>1, StepFields DEF Typed
    <3> QED
      BY <2>1, <3>1, RowFacts, SessionsAssumption DEF ReadExist, Issued
  <2>3. Guessing(c)' \subseteq Guessing(c) \ {h} /\ \A d : Guessing(d)' \subseteq Guessing(d)
    <3>1. Goto(h, Idle) /\ Idle.pc # "wrong"
      BY <1>5, <1>8 DEF CountAttempt
    <3>2. \A d : Guessing(d)' \subseteq Guessing(d) \ {h}
      BY <1>4, <3>1
    <3> QED
      BY <3>2
  <2>4. /\ Rows(mail)' \subseteq Rows(mail)
        /\ \A d \in Rows(mail) :
             mail'[d].attempts = IF d = c THEN mail[d].attempts + 1 ELSE mail[d].attempts
    <3>1. mail' = [mail EXCEPT ![c].attempts = @ + 1]
      BY <1>8 DEF CountAttempt
    <3>2. DOMAIN mail' = MailCodes /\ \A d \in MailCodes \ {c} : mail'[d] = mail[d]
      BY <2>2, <3>1 DEF Typed
    <3>3. mail'[c].attempts = mail[c].attempts + 1
      <4>1. mail'[c] = [mail[c] EXCEPT !.attempts = mail[c].attempts + 1]
        BY <2>2, <3>1, RowFacts DEF Typed
      <4> QED
        BY <2>2, <4>1 DEF MailRow
    <3> QED
      BY <2>2, <3>2, <3>3, RowFacts DEF Rows, Typed
  <2>5. Cardinality(Guessing(c)') <= Cardinality(Guessing(c)) - 1
    <3>1. IsFiniteSet(Guessing(c) \ {h})
          /\ Cardinality(Guessing(c) \ {h}) = Cardinality(Guessing(c)) - 1
      BY <2>1, GuessingCounted, FS_RemoveElement
    <3>2. Cardinality(Guessing(c)') <= Cardinality(Guessing(c) \ {h})
      BY <2>3, <3>1, FS_Subset
    <3> QED
      BY <3>1, <3>2
  <2>6. ASSUME NEW d \in Rows(mail)'
        PROVE  mail'[d].attempts + Cardinality(Guessing(d)')
                 <= CodeMaxAttempts + Cardinality(Handlers) - 1
    <3>1. d \in Rows(mail) /\ mail[d].attempts \in Nat
      BY <1>2, <2>4
    <3>2. mail[d].attempts + Cardinality(Guessing(d))
            <= CodeMaxAttempts + Cardinality(Handlers) - 1
      BY <3>1 DEF GuessesBounded
    <3>3. Cardinality(Guessing(d)) \in Nat /\ Cardinality(Guessing(d)') \in Nat
          /\ Cardinality(Guessing(d)') <= Cardinality(Guessing(d))
      BY <2>3, GuessingCounted
    <3>4. CASE d = c
      <4>1. mail'[d].attempts = mail[d].attempts + 1
        BY <2>4, <3>1, <3>4
      <4>2. Cardinality(Guessing(d)') <= Cardinality(Guessing(d)) - 1
        BY <2>5, <3>4
      <4> QED
        BY <1>1, <3>1, <3>2, <3>3, <4>1, <4>2
    <3>5. CASE d # c
      BY <1>1, <2>4, <3>1, <3>2, <3>3, <3>5
    <3> QED
      BY <3>4, <3>5
  <2> QED
    BY <2>6 DEF GuessesBounded
<1>9. ASSUME NEW h \in Handlers, CreateCode(h)
      PROVE  GuessesBounded'
  <2>1. PICK n \in MailCodes \ Rows(mail) :
          mail' = [d \in MailCodes |->
                     IF d = n THEN [made |-> at[h].now, used |-> FALSE, attempts |-> 0]
                     ELSE IF d \in at[h].old THEN [mail[d] EXCEPT !.used = TRUE]
                     ELSE mail[d]]
    BY <1>9 DEF CreateCode
  <2>2. \A c : Guessing(c)' \subseteq Guessing(c) \ {h}
    BY <1>4, <1>5, <1>9 DEF CreateCode
  <2>3. mail'[n].attempts = 0
    BY <2>1
  <2>4. ASSUME NEW d \in Rows(mail)', d # n
        PROVE  d \in Rows(mail) /\ mail'[d].attempts = mail[d].attempts
    <3>1. d \in MailCodes /\ mail'[d] # NoRow
      BY <2>1, <2>4 DEF Rows
    <3>2. mail'[d] = mail[d] \/ mail'[d] = [mail[d] EXCEPT !.used = TRUE]
      BY <2>1, <2>4, <3>1
    <3>3. [NoRow EXCEPT !.used = TRUE] = NoRow
      BY DEF NoRow
    <3>4. mail[d] \in MailRow
      BY <3>1, <3>2, <3>3 DEF Typed
    <3>5. \A r \in MailRow : [r EXCEPT !.used = TRUE].attempts = r.attempts
      BY DEF MailRow
    <3> QED
      BY <3>1, <3>2, <3>4, <3>5, RowFacts DEF Rows, Typed
  <2>5. ASSUME NEW d \in Rows(mail)'
        PROVE  mail'[d].attempts + Cardinality(Guessing(d)')
                 <= CodeMaxAttempts + Cardinality(Handlers) - 1
    <3>1. CASE d = n
      <4>1. Cardinality(Guessing(d)') <= Cardinality(Handlers) - 1
            /\ Cardinality(Guessing(d)') \in Nat
        BY <2>2, GuessingCounted
      <4> QED
        BY <1>1, <2>3, <3>1, <4>1
    <3>2. CASE d # n
      <4>1. d \in Rows(mail) /\ mail'[d].attempts = mail[d].attempts
        BY <2>4, <2>5, <3>2
      <4>2. mail[d].attempts + Cardinality(Guessing(d))
              <= CodeMaxAttempts + Cardinality(Handlers) - 1
        BY <4>1 DEF GuessesBounded
      <4>3. Cardinality(Guessing(d)) \in Nat /\ Cardinality(Guessing(d)') \in Nat
            /\ Cardinality(Guessing(d)') <= Cardinality(Guessing(d))
        BY <2>2, GuessingCounted
      <4> QED
        BY <1>1, <1>2, <4>1, <4>2, <4>3
    <3> QED
      BY <3>1, <3>2
  <2> QED
    BY <2>5 DEF GuessesBounded
<1>10. ASSUME NEW h \in Handlers, CodeStep(h) \/ TokenStep(h) \/ Fail(h),
              ~ReadCode(h), ~CountAttempt(h), ~CreateCode(h)
       PROVE  GuessesBounded'
  <2>1. \A c : Guessing(c)' \subseteq Guessing(c)
    <3>1. \E s : Goto(h, s) /\ s.pc # "wrong"
      <4>1. CASE CheckRate(h)
        BY <4>1 DEF CheckRate
      <4>2. CASE VoidOld(h)
        BY <4>2 DEF VoidOld
      <4>3. CASE \/ RevokeLeaked(h) \/ Logout(h) \/ Fail(h) \/ Enter(h) \/ Insert(h)
                 \/ IssueSsoCode(h)
        BY <4>3, <1>5 DEF RevokeLeaked, Logout, Fail, Enter, Insert, IssueSsoCode
      <4>4. CASE ReadSsoCode(h)
        BY <4>4 DEF ReadSsoCode
      <4>5. CASE ConsumeCode(h) \/ ConsumeSsoCode(h)
        <5>1. Goto(h, [pc |-> "find", code |-> at[h].code]) \/ Goto(h, Idle)
          BY <4>5 DEF ConsumeCode, ConsumeSsoCode
        <5> QED
          BY <5>1, <1>5
      <4>6. CASE FindUser(h)
        <5>1. Goto(h, [pc |-> "enter", code |-> at[h].code]) \/ Goto(h, Idle)
          BY <4>6 DEF FindUser
        <5> QED
          BY <5>1, <1>5
      <4>7. CASE ReadPassword(h)
        BY <4>7 DEF ReadPassword
      <4>8. CASE ReadToken(h)
        BY <4>8 DEF ReadToken
      <4>9. CASE Rotate(h)
        BY <4>9, <1>5 DEF Rotate
      <4>10. CASE ReadForLogout(h)
        BY <4>10 DEF ReadForLogout
      <4>11. CASE AskSsoCode(h)
        BY <4>11 DEF AskSsoCode
      <4> QED
        BY <1>10, <4>1, <4>2, <4>3, <4>4, <4>5, <4>6, <4>7, <4>8, <4>9, <4>10, <4>11
        DEF CodeStep, TokenStep
    <3> QED
      BY <3>1, <1>4
  <2>2. \A c \in Rows(mail)' : c \in Rows(mail) /\ mail'[c].attempts = mail[c].attempts
    <3>1. CASE UNCHANGED mail
      BY <3>1 DEF Rows
    <3>2. CASE ConsumeCode(h) /\ mail' # mail
      <4>1. mail' = [mail EXCEPT ![at[h].code].used = TRUE] /\ at[h].code \in MailCodes
        BY <3>2 DEF ConsumeCode
      <4>2. at[h].code \in Rows(mail)
        BY <3>2, <4>1, RowFacts, SessionsAssumption DEF ConsumeCode, ReadExist, Issued
      <4>3. \A r \in MailRow : [r EXCEPT !.used = TRUE].attempts = r.attempts
        BY DEF MailRow
      <4>4. DOMAIN mail' = MailCodes /\ \A c \in MailCodes :
              mail'[c] = mail[c] \/ (c \in Rows(mail) /\ mail'[c] = [mail[c] EXCEPT !.used = TRUE])
        BY <4>1, <4>2 DEF Typed
      <4> QED
        BY <4>3, <4>4, RowFacts DEF Rows, Typed
    <3>3. UNCHANGED mail \/ ConsumeCode(h)
      BY <1>10 DEF CodeStep, TokenStep, Fail, CheckRate, VoidOld, AskSsoCode, IssueSsoCode,
         ReadSsoCode, ConsumeSsoCode,
         FindUser, Enter, ReadPassword, ReadToken, RevokeLeaked, Rotate, Insert,
         ReadForLogout, Logout
    <3> QED
      BY <3>1, <3>2, <3>3
  <2> QED
    BY <1>3, <2>1, <2>2
<1>11. CASE AdminStep \/ Tick \/ UNCHANGED vars
  <2>1. UNCHANGED <<mail, at>>
    BY <1>11 DEF AdminStep, SetStatus, RevokeAll, RevokeAllFails, Tick, vars
  <2> QED
    BY <1>3, <1>6, <2>1 DEF Rows
<1> QED
  BY <1>7, <1>8, <1>9, <1>10, <1>11 DEF Next

-----------------------------------------------------------------------------
\* The inductive invariant, and what it is for.

IInv == Typed /\ TokenInv /\ CodeInv /\ GuessesBounded

\* Every reachable state has the inductive invariant.
THEOREM Invariance == Spec => []IInv
PROOF
<1>1. Init => IInv
  <2> SUFFICES ASSUME Init
               PROVE  IInv
    OBVIOUS
  <2>1. Typed
    <3>1. now \in Times
      <4>1. MaxNow \in Nat /\ MaxNow # 0
        BY SessionsAssumption
      <4>2. 1 \in Times
        BY <4>1 DEF Times
      <4> QED
        BY <4>2 DEF Init
    <3>2. /\ mail \in [MailCodes -> {NoRow} \cup MailRow]
          /\ sso \in [SsoCodes -> {NoRow} \cup SsoRow]
          /\ tokens \in [Tokens -> {NoRow} \cup TokenRow]
      BY DEF Init
    <3>3. at \in [Handlers -> Steps]
      BY StepsTyped DEF Init
    <3>4. opened \in [Codes -> Nat]
      BY DEF Init, Codes
    <3>5. user \in {"none", "active", "banned"} /\ bans \in 0 .. MaxBans
      BY SessionsAssumption DEF Init
    <3> QED
      BY <3>1, <3>2, <3>3, <3>4, <3>5 DEF Typed
  <2>2. Rows(mail) = {} /\ Rows(sso) = {} /\ Rows(tokens) = {}
    BY DEF Init, Rows
  <2>3. \A h \in Handlers : at[h].pc = "idle"
    BY DEF Init, Idle
  <2>4. TokenInv
    BY <2>2, <2>3 DEF TokenInv, PresentedExist, FamiliesExist, OneLive, OneNext, LiveOrNext,
       Unrevoked, Inserting
  <2>5. CodeInv
    BY <2>3 DEF Init, CodeInv, ReadExist, EnteringSpent, OneEnters, OpenedSpent, Entering, Codes
  <2>6. GuessesBounded
    BY <2>2 DEF GuessesBounded
  <2> QED
    BY <2>1, <2>4, <2>5, <2>6 DEF IInv
<1>2. IInv /\ [Next]_vars => IInv'
  <2> SUFFICES ASSUME IInv, [Next]_vars
               PROVE  IInv'
    OBVIOUS
  <2>1. Typed'
    BY TypesKept DEF IInv, TokenInv
  <2>2. TokenInv'
    BY TokenSteps, TokensKept DEF IInv
  <2>3. CodeInv'
    BY <2>1, CodeInvKept DEF IInv
  <2>4. GuessesBounded'
    BY <2>1, GuessesKept DEF IInv, CodeInv
  <2> QED
    BY <2>1, <2>2, <2>3, <2>4 DEF IInv
<1> QED
  BY <1>1, <1>2, PTL DEF Spec

\* Every variable has its type, and a code is never tried more often than its limit
\* allows plus the requests that had read it before.
THEOREM TypeCorrect == Spec => []TypeOK
PROOF
<1>1. IInv => TypeOK
  <2> SUFFICES ASSUME IInv
               PROVE  TypeOK
    OBVIOUS
  <2>1. Typed /\ GuessesBounded
    BY DEF IInv
  <2>2. ASSUME NEW c \in MailCodes
        PROVE  mail[c] \in {NoRow} \cup [made : Times, used : BOOLEAN,
                 attempts : 0 .. CodeMaxAttempts + Cardinality(Handlers) - 1]
    <3>1. CASE c \in Rows(mail)
      <4>1. mail[c] \in MailRow
        BY <2>1, <3>1, RowFacts
      <4>2. mail[c].attempts + Cardinality(Guessing(c))
              <= CodeMaxAttempts + Cardinality(Handlers) - 1
        BY <2>1, <3>1 DEF GuessesBounded
      <4>3. /\ Cardinality(Guessing(c)) \in Nat /\ Cardinality(Handlers) \in Nat
            /\ CodeMaxAttempts \in Nat
        BY GuessingCounted, SessionsAssumption, FS_CardinalityType
      <4>4. mail[c].attempts \in 0 .. CodeMaxAttempts + Cardinality(Handlers) - 1
        BY <4>1, <4>2, <4>3 DEF MailRow
      <4> QED
        BY <4>1, <4>4 DEF MailRow
    <3>2. CASE c \notin Rows(mail)
      BY <2>1, <3>2 DEF Rows, Typed
    <3> QED
      BY <3>1, <3>2
  <2>3. mail \in [MailCodes -> {NoRow} \cup [made : Times, used : BOOLEAN,
                    attempts : 0 .. CodeMaxAttempts + Cardinality(Handlers) - 1]]
    BY <2>1, <2>2 DEF Typed
  <2> QED
    BY <2>1, <2>3 DEF TypeOK, Typed, SsoRow, TokenRow, Codes
<1> QED
  BY <1>1, Invariance, PTL

\* Of concurrent refreshes one wins: a session has one token that can be refreshed, or one
\* refresh that is about to store the next.
THEOREM TokensUnique == Spec => []OneTokenPerSession
PROOF
<1>1. IInv => OneTokenPerSession
  <2> SUFFICES ASSUME IInv, NEW f \in Rows(tokens)
               PROVE  Cardinality(Unrevoked \cap Family(f))
                        + Cardinality({h \in Handlers : /\ at[h].pc = "insert"
                                                        /\ tokens[at[h].token].family = f}) <= 1
    BY DEF OneTokenPerSession
  <2> DEFINE Live1 == Unrevoked \cap Family(f)
             Next1 == {h \in Handlers : at[h].pc = "insert" /\ tokens[at[h].token].family = f}
  <2>1. \A S : (\A x, y \in S : x = y) => S = {} \/ \E x : S = {x}
    <3> SUFFICES ASSUME NEW S, \A x, y \in S : x = y, NEW x \in S
                 PROVE  S = {x}
      OBVIOUS
    <3> QED
      OBVIOUS
  <2>2. \A S : (\A x, y \in S : x = y) => Cardinality(S) \in {0, 1}
    BY <2>1, FS_EmptySet, FS_Singleton
  <2>3. \A t, u \in Live1 : t = u
    BY DEF IInv, TokenInv, OneLive, Family
  <2>4. \A g, h \in Next1 : g = h
    BY DEF IInv, TokenInv, OneNext, Inserting, FamilyOf
  <2>5. Live1 = {} \/ Next1 = {}
    BY DEF IInv, TokenInv, LiveOrNext, Inserting, FamilyOf, Family
  <2>6. Cardinality(Live1) \in {0, 1} /\ Cardinality(Next1) \in {0, 1}
    BY <2>2, <2>3, <2>4
  <2>7. Cardinality(Live1) = 0 \/ Cardinality(Next1) = 0
    BY <2>5, FS_EmptySet
  <2> HIDE DEF Live1, Next1
  <2>8. Cardinality(Live1) + Cardinality(Next1) <= 1
    BY <2>6, <2>7
  <2> QED
    BY <2>8 DEF Live1, Next1
<1> QED
  BY <1>1, Invariance, PTL

\* A one-time code opens one session, whoever presents it at the same time.
THEOREM CodesOpenOnce == Spec => []CodeOpensOneSession
PROOF
<1>1. IInv => CodeOpensOneSession
  BY DEF IInv, Typed, CodeInv, OpenedSpent, CodeOpensOneSession
<1> QED
  BY <1>1, Invariance, PTL

\* A session that was ended never comes back, whatever requests had read before.
THEOREM EndedStaysEnded == Spec => EndedSessionStaysEnded
PROOF
<1>1. \A f : Open(f) <=> Live(f)
  BY DEF Open, InFlight, Live, Family, Unrevoked, Inserting, FamilyOf
<1>2. \A f : Open(f)' <=> Live(f)'
  BY DEF Open, InFlight, Live, Family, Unrevoked, Inserting, FamilyOf
<1>3. IInv /\ [Next]_vars => [\A f \in Rows(tokens) : ~Open(f) => ~Open(f)']_vars
  BY <1>1, <1>2, TokenSteps, TokensKept DEF IInv, EndedStay
<1> QED
  BY <1>3, Invariance, PTL DEF Spec, EndedSessionStaysEnded

\* A logout, or the discovery of a leak, ends its session for good, unless a refresh of it
\* has yet to store its token: what Sessions_logout shows is the only way to stay signed in.
THEOREM LogoutEndsUnlessRefreshing ==
    Spec => [][\A h \in Handlers, f \in Tokens :
                 (Logout(h) \/ RevokeLeaked(h)) /\ at[h].family = f /\ ~InFlight(f)
                   => ~Open(f)']_vars
PROOF
<1>1. ASSUME IInv, NEW h \in Handlers, NEW f \in Tokens, Logout(h) \/ RevokeLeaked(h),
             at[h].family = f, ~InFlight(f)
      PROVE  ~Open(f)'
  <2>0. Typed /\ TokenInv /\ at[h] \in Steps /\ now \in Times
    BY <1>1 DEF IInv, Typed
  <2>1. at[h].pc \in {"logout", "leak"} /\ Goto(h, Idle)
    BY <1>1 DEF Logout, RevokeLeaked
  <2>2. PICK time \in Times : tokens' = Revoked(Family(f), time)
    <3>1. at[h].pc = "leak" => at[h].now \in Times
      BY <2>0, StepFields
    <3>. QED
      BY <1>1, <2>0, <3>1 DEF Logout, RevokeLeaked
  <2>3. /\ Rows(tokens)' = Rows(tokens) /\ Unrevoked' = Unrevoked \ Family(f)
        /\ \A t \in Rows(tokens) : tokens'[t].family = tokens[t].family
    BY <2>0, <2>2, RevokedFacts
  <2>4. Unrevoked' \cap Family(f)' = {}
    BY <2>3 DEF Unrevoked, Family
  <2>5. ASSUME NEW g \in Handlers, at'[g].pc = "insert"
        PROVE  tokens'[at'[g].token].family # f
    <3>1. g # h /\ at'[g] = at[g]
      BY <2>0, <2>1, <2>5, GotoFacts, StepsTyped DEF Idle
    <3>2. at[g].token \in Rows(tokens)
      BY <2>0, <2>5, <3>1 DEF TokenInv, PresentedExist
    <3>. QED
      BY <1>1, <2>3, <2>5, <3>1, <3>2 DEF InFlight
  <2>. QED
    BY <2>4, <2>5 DEF Open, InFlight
<1>2. IInv /\ [Next]_vars =>
        [\A h \in Handlers, f \in Tokens :
           (Logout(h) \/ RevokeLeaked(h)) /\ at[h].family = f /\ ~InFlight(f)
             => ~Open(f)']_vars
  BY <1>1
<1> QED
  BY <1>2, Invariance, PTL DEF Spec

\* There are as many tokens as were issued.
LEMMA UnrevokedFinite ==
    ASSUME IInv, [Next]_vars, IsFiniteSet(Unrevoked)
    PROVE  IsFiniteSet(Unrevoked')
PROOF
<1>1. Typed /\ TokenInv /\ TokenMoves
  BY TokenSteps DEF IInv
<1>2. \E t : Unrevoked' \subseteq Unrevoked \cup {t}
  <2>1. CASE UNCHANGED tokens
    BY <2>1 DEF Unrevoked, Rows
  <2>2. CASE TokensRevoked
    <3>1. PICK these \in SUBSET Tokens, time \in Times : tokens' = Revoked(these, time)
      BY <2>2 DEF TokensRevoked
    <3> QED
      BY <1>1, <3>1, RevokedFacts
  <2>3. ASSUME NEW h \in Handlers, Rotates(h)
        PROVE  Unrevoked' \subseteq Unrevoked
    <3> DEFINE t == at[h].token
    <3>1. /\ at[h].pc = "rotate" /\ t \in Unrevoked
          /\ tokens' = [tokens EXCEPT ![t].revoked = at[h].now]
      BY <2>3 DEF Rotates, Rotate, Rotatable
    <3>2. at[h].now \in Times
      BY <1>1, <3>1, StepFields DEF Typed
    <3>3. tokens' = Revoked({t}, at[h].now)
      BY <1>1, <3>1, RowFacts DEF Revoked, Typed, Unrevoked
    <3> QED
      BY <1>1, <3>2, <3>3, RevokedFacts
  <2>4. ASSUME NEW h \in Handlers, Insert(h) \/ Enter(h)
        PROVE  \E t : Unrevoked' \subseteq Unrevoked \cup {t}
    <3>1. at[h].pc = "insert" => tokens[at[h].token].family \in Tokens
      BY <1>1, RowFacts DEF TokenInv, PresentedExist, TokenRow
    <3>2. PICK t \in Tokens \ Rows(tokens), f \in Tokens :
            tokens' = [tokens EXCEPT ![t] = NewToken(f)]
      BY <2>4, <3>1 DEF Insert, Enter
    <3> QED
      BY <1>1, <3>2, NewTokenFacts
  <2> QED
    BY <1>1, <2>1, <2>2, <2>3, <2>4 DEF TokenMoves, TokensRest, Presents
<1> QED
  BY <1>2, FS_AddElement, FS_Subset

\* What takes away, or trades one for one, leaves no more than there was.
LEMMA DwindlingCounts ==
    ASSUME IsFiniteSet(Unrevoked), IsFiniteSet(PastCheck), Dwindles
    PROVE  Cardinality(Unrevoked') + Cardinality(PastCheck')
             <= Cardinality(Unrevoked) + Cardinality(PastCheck)
PROOF
<1>. PICK U, V, P, Q : U = Unrevoked /\ V = Unrevoked' /\ P = PastCheck /\ Q = PastCheck'
  OBVIOUS
<1>1. IsFiniteSet(U) /\ IsFiniteSet(P) /\ Cardinality(U) \in Nat /\ Cardinality(P) \in Nat
  BY FS_CardinalityType
<1>2. CASE V \subseteq U /\ Q \subseteq P
  <2>1. /\ Cardinality(V) \in Nat /\ Cardinality(V) <= Cardinality(U)
        /\ Cardinality(Q) \in Nat /\ Cardinality(Q) <= Cardinality(P)
    BY <1>1, <1>2, FS_Subset, FS_CardinalityType
  <2> QED
    BY <1>1, <2>1
<1>3. CASE \E h, t : t \in U /\ V = U \ {t} /\ Q = P \cup {h}
  <2>1. PICK h, t : t \in U /\ V = U \ {t} /\ Q = P \cup {h}
    BY <1>3
  <2>2. Cardinality(V) = Cardinality(U) - 1
    BY <1>1, <2>1, FS_RemoveElement
  <2>3. Cardinality(Q) \in {Cardinality(P), Cardinality(P) + 1}
    BY <1>1, <2>1, FS_AddElement
  <2> QED
    BY <1>1, <2>2, <2>3
<1>4. CASE \E h, t : h \in P /\ V = U \cup {t} /\ Q = P \ {h}
  <2>1. PICK h, t : h \in P /\ V = U \cup {t} /\ Q = P \ {h}
    BY <1>4
  <2>2. Cardinality(Q) = Cardinality(P) - 1
    BY <1>1, <2>1, FS_RemoveElement
  <2>3. Cardinality(V) \in {Cardinality(U), Cardinality(U) + 1}
    BY <1>1, <2>1, FS_AddElement
  <2> QED
    BY <1>1, <2>2, <2>3
<1> QED
  BY <1>2, <1>3, <1>4 DEF Dwindles

\* A banned user gains no session but those of requests that were past the check of the
\* status, one each (MayEnter in FindUser and ReadPassword; adminUpdateUser).
THEOREM BannedGainNothing == Spec => BannedGainsNothing
PROOF
<1> DEFINE Finite == IsFiniteSet(Unrevoked)
           Gain == user = "banned" /\ user' = "banned" =>
                     Cardinality(Unrevoked') + Cardinality(PastCheck')
                       <= Cardinality(Unrevoked) + Cardinality(PastCheck)
<1>1. Init => Finite
  <2>1. Init => Unrevoked = {}
    BY DEF Init, Unrevoked, Rows
  <2> QED
    BY <2>1, FS_EmptySet
<1>2. IInv /\ Finite /\ [Next]_vars => Finite'
  BY UnrevokedFinite
<1>3. IInv /\ Finite /\ [Next]_vars => [Gain]_vars
  <2> SUFFICES ASSUME IInv, Finite, [Next]_vars, user = "banned"
               PROVE  Cardinality(Unrevoked') + Cardinality(PastCheck')
                        <= Cardinality(Unrevoked) + Cardinality(PastCheck)
    OBVIOUS
  <2>1. IsFiniteSet(PastCheck)
    BY SessionsAssumption, FS_Subset DEF PastCheck
  <2>2. Dwindles
    BY BannedStep DEF IInv
  <2> QED
    BY <2>1, <2>2, DwindlingCounts
<1> HIDE DEF Finite
<1> QED
  BY <1>1, <1>2, <1>3, Invariance, PTL DEF Spec, BannedGainsNothing
=============================================================================
