------------------------------ MODULE Limiter ------------------------------
(***************************************************************************)
(* The rate limiter (ratelimit.go): for each key a fixed window with the   *)
(* requests counted in it, in the memory of the one process.  A request is *)
(* judged by several rules at once, under the lock.                        *)
(***************************************************************************)
EXTENDS Clock, Sequences, SequencesExt

CONSTANTS
    Keys,
    Limit,     \* [Keys -> requests let through in a window]
    Window,    \* [Keys -> length of its window]
    KeepFor,   \* how long gc keeps an entry
    Lag        \* bound: how old the time read before the lock may be under it

ASSUME LimiterAssumption ==
    /\ Limit \in [Keys -> Nat \ {0}]
    /\ Window \in [Keys -> Nat \ {0}]
    /\ Lag \in Nat
    /\ KeepFor \in Nat /\ \A k \in Keys : Window[k] <= KeepFor

VARIABLES
    entries,   \* [Keys -> the window of the key]; a count of 0 is no entry
    passed     \* history: [Keys -> times of the requests that were let through]

limiterVars == <<entries, passed>>

NoEntry == [start |-> 0, count |-> 0]

LimiterInit ==
    /\ entries = [k \in Keys |-> NoEntry]
    /\ passed = [k \in Keys |-> <<>>]

\* The window of k is still running at a time.
Running(k, at) == entries[k].count > 0 /\ at - entries[k].start < Window[k]

Exceeded(k, at) == Running(k, at) /\ entries[k].count >= Limit[k]

Counted(k, at) ==
    IF Running(k, at) THEN [entries[k] EXCEPT !.count = @ + 1]
                      ELSE [start |-> at, count |-> 1]

\* The first rule that has no room, 0 when all have.
FirstExceeded(rules, at) == SelectInSeq(rules, LAMBDA k : Exceeded(k, at))

Consumed_OneByOne(rules, at) ==   \* mutant: a chain of Allow counts until one refuses
    LET i == FirstExceeded(rules, at)
    IN  ToSet(IF i = 0 THEN rules ELSE SubSeq(rules, 1, i - 1))
\* The keys a request is counted for: all of its rules or none.
Consumed(rules, at) == IF FirstExceeded(rules, at) = 0 THEN ToSet(rules) ELSE {}

\* AllowAll of rules, with a clock read at a time; Allow has one rule.
AllowAll(rules, at) ==
    /\ entries' = [k \in Keys |-> IF k \in Consumed(rules, at) THEN Counted(k, at) ELSE entries[k]]
    /\ passed' = [k \in Keys |-> IF FirstExceeded(rules, at) = 0 /\ k \in ToSet(rules)
                                 THEN Append(passed[k], now) ELSE passed[k]]

Outdated_Soon(k) == entries[k].count > 0 /\ entries[k].start < now   \* mutant: a cutoff within the window
Outdated(k) == entries[k].count > 0 /\ entries[k].start < now - KeepFor

Gc ==
    /\ \E k \in Keys : Outdated(k)
    /\ entries' = [k \in Keys |-> IF Outdated(k) THEN NoEntry ELSE entries[k]]
    /\ UNCHANGED passed
=============================================================================
