------------------------------ MODULE Dispatch ------------------------------
(***************************************************************************)
(* The way of an AI request from its route to the upstreams: the limiter   *)
(* (aiRateLimit) and Caller.Call, with the handlers of several users in    *)
(* one process.  What lies between the two is Gateway.                     *)
(***************************************************************************)
EXTENDS Limiter, Upstreams

CONSTANTS
    Users,
    MinuteKey, DayKey, TrialKey,   \* [Users -> Keys]
    IPKey,          \* [Users -> Keys]: users may share an address
    MaxWork         \* bound: requests judged, calls begun and upstreams changed

ASSUME DispatchAssumption ==
    /\ \A f \in {MinuteKey, DayKey, TrialKey, IPKey} : f \in [Users -> Keys]
    \* The kinds of keys have different prefixes.
    /\ \A u \in Users : Cardinality({MinuteKey[u], DayKey[u], TrialKey[u], IPKey[u]}) = 4
    /\ MaxWork \in Nat

VARIABLES
    refused,    \* [Handlers -> the key its request was refused for, NoKey]
    work        \* how much of it there was

vars == <<now, limiterVars, upstreamVars, refused, work>>

NoKey == <<>>

Init ==
    /\ now = 0
    /\ LimiterInit
    /\ UpstreamsInit
    /\ refused = [h \in Handlers |-> NoKey]
    /\ work = 0

-----------------------------------------------------------------------------
\* aiRateLimit

\* The rules for a user with or without a paid base and a capability that is
\* included or not.  Subscriptions and prices are those of Credits.
Rules(u, hasBase, included) ==
    IF hasBase /\ included THEN <<MinuteKey[u]>>
    ELSE <<MinuteKey[u], DayKey[u], IPKey[u]>> \o (IF hasBase THEN <<>> ELSE <<TrialKey[u]>>)

Work == work < MaxWork /\ work' = work + 1

Judge(h, rules, at) ==
    LET i == FirstExceeded(rules, at)
    IN  /\ AllowAll(rules, at)
        /\ refused' = [refused EXCEPT ![h] = IF i = 0 THEN NoKey ELSE rules[i]]
        /\ call' = [call EXCEPT ![h].at = IF i = 0 THEN "admitted" ELSE "refused"]

Arrive(h, u, hasBase, included, at) ==
    /\ call[h].at = "idle" /\ Work
    /\ Judge(h, Rules(u, hasBase, included), at)
    /\ UNCHANGED <<now, table, marks>>

\* A request id that has a row already is not judged; Gateway answers it, and may
\* run it again.
Replay(h) ==
    /\ call[h].at = "idle"
    /\ call' = [call EXCEPT ![h].at = "admitted"]
    /\ UNCHANGED <<now, limiterVars, table, marks, refused, work>>

\* Answered with 429, or Gateway ends the request without a call.
Leave(h) ==
    /\ call[h].at \in {"admitted", "refused"}
    /\ call' = [call EXCEPT ![h] = NoCall]
    /\ refused' = [refused EXCEPT ![h] = NoKey]
    /\ UNCHANGED <<now, limiterVars, table, marks, work>>

-----------------------------------------------------------------------------
Calls(h) ==
    /\ \/ List(h) /\ Work
       \/ /\ \/ Stop(h) \/ Skip(h) \/ Send(h) \/ GiveUp(h)
             \/ Answered(h) \/ Failed(h) \/ Abandoned(h)
          /\ UNCHANGED work
    /\ UNCHANGED <<now, limiterVars, refused>>

Administer ==
    /\ Work
    /\ \E i \in Upstreams :
          \/ \E order \in Orders : CreateUpstream(i, order)
          \/ \E enabled \in BOOLEAN, order \in Orders : UpdateUpstream(i, enabled, order)
          \/ DeleteUpstream(i)
    /\ UNCHANGED <<now, limiterVars, refused>>

CollectEntries == Gc /\ UNCHANGED <<now, upstreamVars, refused, work>>

TimePasses == Tick /\ UNCHANGED <<limiterVars, upstreamVars, refused, work>>

Next ==
    \/ \E h \in Handlers :
          \/ \E u \in Users, hasBase, included \in BOOLEAN, at \in {t \in 0 .. now : t >= now - Lag} :
                Arrive(h, u, hasBase, included, at)
          \/ Replay(h) \/ Leave(h) \/ Calls(h)
    \/ Administer \/ CollectEntries \/ TimePasses

Spec == Init /\ [][Next]_vars

-----------------------------------------------------------------------------
\* How many requests of k were let through from one tick to another.
PassedIn(k, from, to) == Cardinality({n \in DOMAIN passed[k] : passed[k][n] \in from .. to})

\* Fixed windows let at most two limits through in any time of one window's length
\* (less the age of the clock that was read), however windows, gc and the clocks
\* read before the lock fall.
LimitHolds ==
    \A k \in Keys : \A t \in 0 .. now :
        PassedIn(k, t, t + Window[k] - Lag - 1) <= 2 * Limit[k]

\* A request is refused for a key only if as many requests as its limit were served
\* within its window: requests refused by another rule have used up nothing.
RefusedRightly ==
    [][\A h \in Handlers :
          refused'[h] # refused[h] /\ refused'[h] # NoKey =>
             LET k == refused'[h]
             IN  PassedIn(k, now - Lag - Window[k] + 1, now) >= Limit[k]]_vars

\* An upstream is in its cool-down exactly for CoolDuration after every
\* CoolAfterFails-th failure in a row, whichever calls failed: neither cancelled calls
\* nor failures before a good call count.
CoolingIsDeserved ==
    \A i \in Upstreams :
        LET rounds == Len(failures[i]) \div CoolAfterFails
        IN  Cooling(i) <=>
              rounds > 0 /\ now < failures[i][rounds * CoolAfterFails] + CoolDuration

\* The upstreams a call has passed over.
PassedOver(h) ==
    {call[h].listed[n] : n \in 1 .. Len(call[h].listed) - Len(call[h].left)}

\* An upstream that was enabled when a call began is passed over, for the next one
\* or for "all upstreams are down", only if a call to it failed during this call or
\* less than a cool-down before.
PassedOverRightly ==
    \A h \in Handlers : \A i \in PassedOver(h) :
        lastFailed[i] >= 0 /\ lastFailed[i] > call[h].began - CoolDuration
=============================================================================
