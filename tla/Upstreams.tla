----------------------------- MODULE Upstreams -----------------------------
(***************************************************************************)
(* Caller.Call (upstream.go): the enabled upstreams in their order, with   *)
(* fail-over and a breaker for each, shared by all calls of the process.   *)
(* The breakers are locked for one step each; a call to an upstream lies   *)
(* between its look at the breaker and its mark there.  Every call is      *)
(* managed by an execution budget, as all of billing v2 are.               *)
(***************************************************************************)
EXTENDS Clock, Sequences, FiniteSets, SequencesExt

CONSTANTS
    Upstreams,        \* ids of rows of ai_upstreams, given out in this order
    Handlers,         \* goroutines
    Orders,           \* values of sort_order
    CoolAfterFails, CoolDuration

ASSUME UpstreamsAssumption ==
    /\ Upstreams \subseteq Nat
    /\ Orders \subseteq Int /\ 0 \in Orders
    /\ CoolAfterFails \in Nat \ {0}
    /\ CoolDuration \in Nat \ {0}

VARIABLES
    table,      \* [Upstreams -> row]
    breakers,   \* [Upstreams -> breaker]; nothing failed and never cooled is none
    call,       \* [Handlers -> its call]; a call that has returned is none
    failures,   \* history: [Upstreams -> times of the failed calls since one went well]
    lastFailed  \* history: [Upstreams -> time of the last failed call, -1 for never]

upstreamVars == <<table, breakers, call, failures, lastFailed>>
marks == <<breakers, failures, lastFailed>>

NoBreaker == [fails |-> 0, until |-> 0]
NoCall == [at |-> "idle", listed |-> <<>>, left |-> <<>>, began |-> 0]

\* A row is not there yet, there, or deleted; only a row that is there is enabled.
Row(enabled, order) == [state |-> "there", enabled |-> enabled, order |-> order]
NewRow == [state |-> "new", enabled |-> FALSE, order |-> 0]

UpstreamsInit ==
    /\ \E n \in Upstreams :
          table = [i \in Upstreams |-> IF i <= n THEN Row(TRUE, 0) ELSE NewRow]
    /\ breakers = [i \in Upstreams |-> NoBreaker]
    /\ call = [h \in Handlers |-> NoCall]
    /\ failures = [i \in Upstreams |-> <<>>]
    /\ lastFailed = [i \in Upstreams |-> -1]

-----------------------------------------------------------------------------
\* The breakers

Cooling_Forever(i) == breakers[i].until > 0   \* mutant: the end of a cool-down is not compared
Cooling(i) == now < breakers[i].until

MarkFail(i) ==
    LET fails == breakers[i].fails + 1
    IN  breakers' = [breakers EXCEPT ![i] =
            IF fails >= CoolAfterFails THEN [fails |-> 0, until |-> now + CoolDuration]
                                       ELSE [@ EXCEPT !.fails = fails]]

\* markOK deletes the breaker, also one that is cooling.
Healthy(i) == NoBreaker

MarkOK(i) == breakers' = [breakers EXCEPT ![i] = Healthy(i)]

-----------------------------------------------------------------------------
\* Call

\* By sort_order, then id.
Before(i, j) ==
    \/ table[i].order < table[j].order
    \/ table[i].order = table[j].order /\ i < j

\* The rows that are enabled, as the query lists them.
Listings ==
    {listed \in SetToSeqs({i \in Upstreams : table[i].enabled}) :
        \A m, n \in DOMAIN listed : m < n => Before(listed[m], listed[n])}

List(h) ==
    /\ call[h].at = "admitted"
    /\ \E listed \in Listings :
          call' = [call EXCEPT ![h] =
             [at |-> "choosing", listed |-> listed, left |-> listed, began |-> now]]
    /\ UNCHANGED <<table, marks>>

Choosing(h) == call[h].at = "choosing" /\ call[h].left # <<>>

\* Cancelled, or the execution budget has no room for an attempt.
Stop(h) ==
    /\ Choosing(h)
    /\ call' = [call EXCEPT ![h] = NoCall]
    /\ UNCHANGED <<table, marks>>

Skip(h) ==
    /\ Choosing(h) /\ Cooling(Head(call[h].left))
    /\ call' = [call EXCEPT ![h].left = Tail(@)]
    /\ UNCHANGED <<table, marks>>

Send(h) ==
    /\ Choosing(h) /\ ~Cooling(Head(call[h].left))
    /\ call' = [call EXCEPT ![h].at = "waiting"]
    /\ UNCHANGED <<table, marks>>

Answered(h) ==
    /\ call[h].at = "waiting"
    /\ MarkOK(Head(call[h].left))
    /\ failures' = [failures EXCEPT ![Head(call[h].left)] = <<>>]
    /\ call' = [call EXCEPT ![h] = NoCall]
    /\ UNCHANGED <<table, lastFailed>>

\* The network, a timeout, 429, 5xx or a malformed answer: the next one's turn.
Failed(h) ==
    /\ call[h].at = "waiting"
    /\ MarkFail(Head(call[h].left))
    /\ failures' = [failures EXCEPT ![Head(call[h].left)] = Append(@, now)]
    /\ lastFailed' = [lastFailed EXCEPT ![Head(call[h].left)] = now]
    /\ call' = [call EXCEPT ![h].at = "choosing", ![h].left = Tail(@)]
    /\ UNCHANGED table

Blame_Stopped(i) == MarkFail(i)   \* mutant: cancelled calls are marked as failed
\* Nothing is marked for a call that did not end by the upstream's fault.
Blame(i) == UNCHANGED breakers

\* Cancelled, out of budget, the key refused (401, 403), or its usage could not be
\* recorded (then not even a good answer is marked).
Abandoned(h) ==
    /\ call[h].at = "waiting"
    /\ Blame(Head(call[h].left))
    /\ call' = [call EXCEPT ![h] = NoCall]
    /\ UNCHANGED <<table, failures, lastFailed>>

\* ErrAllUpstreamsDown, also when none is enabled.
GiveUp(h) ==
    /\ call[h].at = "choosing" /\ call[h].left = <<>>
    /\ call' = [call EXCEPT ![h] = NoCall]
    /\ UNCHANGED <<table, marks>>

-----------------------------------------------------------------------------
\* Administration: calls go on with the list they have read.

\* Ids are given out in sequence and never again.  A new row is enabled whatever the
\* administrator asked for: gorm leaves a false to the column's default, which is true.
CreateUpstream(i, order) ==
    /\ table[i].state = "new"
    /\ \A j \in Upstreams : table[j].state = "new" => i <= j
    /\ table' = [table EXCEPT ![i] = Row(TRUE, order)]
    /\ UNCHANGED <<marks, call>>

UpdateUpstream(i, enabled, order) ==
    /\ table[i].state = "there"
    /\ table' = [table EXCEPT ![i] = Row(enabled, order)]
    /\ UNCHANGED <<marks, call>>

\* Its breaker stays behind.
DeleteUpstream(i) ==
    /\ table[i].state = "there"
    /\ table' = [table EXCEPT ![i].state = "gone", ![i].enabled = FALSE]
    /\ UNCHANGED <<marks, call>>
=============================================================================
