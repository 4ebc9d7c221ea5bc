-------------------------- MODULE Dispatch_proofs ---------------------------
(***************************************************************************)
(* Theorems about Dispatch for every set of users, keys, handlers and      *)
(* upstreams, all limits and windows and any cool-down.                    *)
(***************************************************************************)
EXTENDS Dispatch, FiniteSetTheorems, WellFoundedInduction, TLAPS

-----------------------------------------------------------------------------
\* The inductive invariant

CallType ==
    [at : {"idle", "admitted", "refused", "choosing", "waiting"},
     listed : Seq(Upstreams), left : Seq(Upstreams), began : Nat]

RowType == [state : {"new", "there", "gone"}, enabled : BOOLEAN, order : Int]

TypeOK ==
    /\ now \in Nat
    /\ entries \in [Keys -> [start : Nat, count : Nat]]
    /\ passed \in [Keys -> Seq(Nat)]
    /\ table \in [Upstreams -> RowType]
    /\ breakers \in [Upstreams -> [fails : Nat, until : Nat]]
    /\ call \in [Handlers -> CallType]
    /\ failures \in [Upstreams -> Seq(Nat)]
    /\ lastFailed \in [Upstreams -> Int]
    /\ refused \in [Handlers -> Keys \cup {NoKey}]

\* The times in a history are in order and not in the future.
InTime(times, to) ==
    /\ \A n \in 1 .. Len(times) : times[n] <= to
    /\ \A m, n \in 1 .. Len(times) : m <= n => times[m] <= times[n]

\* The last requests of the history are those the entry counts: they were let through
\* after its window began, the first of them at most Lag later.
CountedLast(times, entry, limit) ==
    /\ entry.count <= limit /\ entry.count <= Len(times)
    /\ entry.count > 0 =>
         LET first == times[Len(times) - entry.count + 1]
         IN  entry.start <= first /\ first <= entry.start + Lag

\* Of the requests before those, all but the last limit are a window older than a
\* window that is running, or than now if none is.
OlderApart(times, entry, limit, window, to) ==
    \A n \in 1 .. Len(times) - entry.count - limit :
        times[n] + window - Lag <=
          IF entry.count > 0 THEN times[Len(times) - entry.count + 1] ELSE to

\* Requests that are two limits apart in the history are a window apart in time.
Spread(times, limit, window) ==
    \A n \in 1 .. Len(times) - 2 * limit : times[n] + window - Lag <= times[n + 2 * limit]

KeyFits(times, entry, limit, window, to) ==
    /\ InTime(times, to)
    /\ CountedLast(times, entry, limit)
    /\ OlderApart(times, entry, limit, window, to)
    /\ Spread(times, limit, window)

LimiterInv == \A k \in Keys : KeyFits(passed[k], entries[k], Limit[k], Window[k], now)

\* A breaker counts the failures since the last of so many whole rounds, and is cooling
\* from the end of that round.
Rounds(b, times, q) ==
    /\ b.fails < CoolAfterFails
    /\ Len(times) = q * CoolAfterFails + b.fails
    /\ b.until = IF q = 0 THEN 0 ELSE times[q * CoolAfterFails] + CoolDuration

BreakerInv ==
    \A i \in Upstreams :
        /\ \E q \in Nat : Rounds(breakers[i], failures[i], q)
        /\ lastFailed[i] <= now
        /\ breakers[i].until > 0 =>
             lastFailed[i] >= 0 /\ breakers[i].until <= lastFailed[i] + CoolDuration

\* A call has the rest of its list before it, and those behind it failed in time.
FailedSince(last, began) == last >= 0 /\ last > began - CoolDuration

CallFits(c, last, to) ==
    /\ c.began <= to
    /\ c.at = "waiting" => c.left # <<>>
    /\ Len(c.left) <= Len(c.listed)
    /\ \A n \in 1 .. Len(c.left) : c.left[n] = c.listed[Len(c.listed) - Len(c.left) + n]
    /\ \A n \in 1 .. Len(c.listed) - Len(c.left) : FailedSince(last[c.listed[n]], c.began)

CallsInv == \A h \in Handlers : CallFits(call[h], lastFailed, now)

\* A query lists finitely many rows.
FewEnabled == IsFiniteSet({i \in Upstreams : table[i].enabled})

IInv == TypeOK /\ LimiterInv /\ BreakerInv /\ CallsInv /\ FewEnabled

-----------------------------------------------------------------------------
\* Numbers

\* A set of naturals that is not empty has a least member.
LEMMA LeastExists ==
    ASSUME NEW S, S \subseteq Nat, S # {}
    PROVE  \E m \in S : \A n \in S : m <= n
<1>. DEFINE R == {p \in Nat \X Nat : p[1] < p[2]}
<1>1. IsWellFoundedOn(R, Nat)
  BY NatLessThanWellFounded DEF OpToRel
<1>2. PICK m \in S : \A n \in S : <<n, m>> \notin R
  BY <1>1, WFMin
<1>3. \A n \in S : ~(n < m)
  BY <1>2
<1>. QED
  BY <1>3

\* Whole rounds are counted by the division.
LEMMA RoundsCounted ==
    ASSUME NEW q \in Nat, NEW c \in Nat \ {0}, NEW r \in Nat, r < c
    PROVE  (q * c + r) \div c = q
OBVIOUS

\* One round more.
LEMMA NextRound ==
    ASSUME NEW q \in Nat, NEW c \in Nat \ {0}
    PROVE  /\ q * c \in Nat
           /\ (q + 1) * c = q * c + c
           /\ q # 0 => q * c >= 1
OBVIOUS

\* The first rule without room is one of the rules; there is none only if all have room.
LEMMA FirstIsExceeded ==
    ASSUME NEW rules \in Seq(Keys), NEW at
    PROVE  LET i == FirstExceeded(rules, at)
           IN  /\ i = 0 => \A n \in 1 .. Len(rules) : ~Exceeded(rules[n], at)
               /\ i # 0 => i \in 1 .. Len(rules) /\ Exceeded(rules[i], at)
<1>. DEFINE I == {n \in 1 .. Len(rules) : Exceeded(rules[n], at)}
<1>1. FirstExceeded(rules, at) = IF I # {} THEN Min(I) ELSE 0
  BY DEF FirstExceeded, SelectInSeq
<1>2. ASSUME I # {}  PROVE Min(I) \in I
  <2>1. I \subseteq Nat
    OBVIOUS
  <2>2. \E m \in I : \A n \in I : m <= n
    BY <1>2, <2>1, LeastExists
  <2>. QED
    BY <2>2 DEF Min
<1>. QED
  BY <1>1, <1>2

-----------------------------------------------------------------------------
\* One key of the limiter

EntryType == [start : Nat, count : Nat]
Histories == Seq(Nat)

\* What is appended to a history comes last.
LEMMA Appended ==
    ASSUME NEW times \in Histories, NEW t \in Nat
    PROVE  /\ Append(times, t) \in Histories
           /\ Len(times) \in Nat
           /\ Len(Append(times, t)) = Len(times) + 1
           /\ \A n \in 1 .. Len(times) : Append(times, t)[n] = times[n]
           /\ Append(times, t)[Len(times) + 1] = t
           /\ \A n \in 1 .. Len(times) + 1 : n \notin 1 .. Len(times) => n = Len(times) + 1
BY DEF Histories

\* A history stays in order when the present is appended to it.
LEMMA AppendedInTime ==
    ASSUME NEW times \in Histories, NEW to \in Nat, InTime(times, to)
    PROVE  InTime(Append(times, to), to)
<1>. DEFINE L == Len(times)
            new == Append(times, to)
<1>1. L \in Nat /\ \A n \in 1 .. L : times[n] \in Nat
  BY DEF Histories
<1>2. /\ Len(new) = L + 1 /\ new[L + 1] = to
      /\ \A n \in 1 .. L : new[n] = times[n]
      /\ \A n \in 1 .. L + 1 : n \notin 1 .. L => n = L + 1
  BY Appended
<1>. HIDE DEF L, new
<1>3. \A n \in 1 .. L + 1 : new[n] <= to
  BY <1>1, <1>2 DEF InTime, L
<1>4. ASSUME NEW m \in 1 .. L + 1, NEW n \in 1 .. L + 1, m <= n
      PROVE  new[m] <= new[n]
  <2>1. CASE n = L + 1
    BY <2>1, <1>2, <1>3
  <2>2. CASE n \in 1 .. L
    BY <2>2, <1>1, <1>2, <1>4 DEF InTime, L
  <2>. QED
    BY <2>1, <2>2, <1>2
<1>. QED
  BY <1>2, <1>3, <1>4 DEF InTime, new

\* A request that is let through starts a window, or is one more in a running window
\* that has room.
LEMMA KeyLetThrough ==
    ASSUME NEW times \in Histories, NEW entry \in EntryType, NEW new \in EntryType,
           NEW limit \in Nat \ {0}, NEW window \in Nat \ {0}, NEW to \in Nat,
           NEW at \in 0 .. to, at >= to - Lag,
           KeyFits(times, entry, limit, window, to),
           \/ /\ entry.count > 0 /\ at - entry.start < window /\ entry.count < limit
              /\ new.start = entry.start /\ new.count = entry.count + 1
           \/ /\ entry.count > 0 => at - entry.start >= window
              /\ new.start = at /\ new.count = 1
    PROVE  KeyFits(Append(times, to), new, limit, window, to)
<1>. DEFINE L == Len(times)
            later == Append(times, to)
            c == entry.count
            s == entry.start
<1>0. L \in Nat /\ c \in Nat /\ s \in Nat /\ Lag \in Nat
  BY LimiterAssumption DEF EntryType, Histories
<1>1. \A n \in 1 .. L : times[n] \in Nat
  BY DEF Histories
<1>2. /\ Len(later) = L + 1 /\ later[L + 1] = to
      /\ \A n \in 1 .. L : later[n] = times[n]
      /\ \A n \in 1 .. L + 1 : n \notin 1 .. L => n = L + 1
  BY Appended
<1>3. InTime(later, to)
  BY AppendedInTime DEF KeyFits
<1>4. /\ \A n \in 1 .. L : times[n] <= to
      /\ \A m, n \in 1 .. L : m <= n => times[m] <= times[n]
      /\ c <= limit /\ c <= L
      /\ c > 0 => s <= times[L - c + 1] /\ times[L - c + 1] <= s + Lag
      /\ \A n \in 1 .. L - c - limit :
           times[n] + window - Lag <= (IF c > 0 THEN times[L - c + 1] ELSE to)
      /\ \A n \in 1 .. L - 2 * limit : times[n] + window - Lag <= times[n + 2 * limit]
  BY DEF KeyFits, InTime, CountedLast, OlderApart, Spread
<1>. HIDE DEF L, later, c, s
<1>5. CASE c > 0 /\ c < limit /\ new.start = s /\ new.count = c + 1
  <2>1. L - c + 1 \in 1 .. L /\ (L + 1) - (c + 1) + 1 = L - c + 1
    BY <1>0, <1>1, <1>4, <1>5
  <2>2. CountedLast(later, new, limit)
    BY <1>0, <1>1, <1>2, <1>4, <1>5, <2>1 DEF CountedLast
  <2>3. OlderApart(later, new, limit, window, to)
    <3>. SUFFICES ASSUME NEW n \in 1 .. (L + 1) - (c + 1) - limit
                  PROVE  later[n] + window - Lag <= later[L - c + 1]
      BY <1>0, <1>1, <1>2, <1>5, <2>1 DEF OlderApart
    <3>1. n \in 1 .. L - c - limit /\ n \in 1 .. L
      BY <1>0
    <3>. QED
      BY <1>2, <1>4, <1>5, <2>1, <3>1
  <2>4. Spread(later, limit, window)
    <3>. SUFFICES ASSUME NEW n \in 1 .. L + 1 - 2 * limit
                  PROVE  later[n] + window - Lag <= later[n + 2 * limit]
      BY <1>0, <1>1, <1>2 DEF Spread
    <3>1. n \in 1 .. L /\ n \in Nat
      BY <1>0
    <3>2. CASE n \in 1 .. L - 2 * limit
      <4>1. n + 2 * limit \in 1 .. L
        BY <1>0, <1>1, <3>2
      <4>. QED
        BY <1>2, <1>4, <3>1, <3>2, <4>1
    <3>3. CASE n = L + 1 - 2 * limit
      <4>1. n \in 1 .. L - c - limit /\ n + 2 * limit = L + 1
        BY <1>0, <1>5, <3>1, <3>3
      <4>2. times[n] + window - Lag <= times[L - c + 1] /\ times[L - c + 1] <= to
        BY <1>4, <1>5, <2>1, <4>1
      <4>3. later[n] = times[n] /\ later[n + 2 * limit] = to
        BY <1>2, <3>1, <4>1
      <4>4. times[n] \in Nat /\ times[L - c + 1] \in Nat
        BY <1>0, <1>1, <2>1, <3>1
      <4>. QED
        BY <1>0, <4>2, <4>3, <4>4
    <3>. QED
      BY <1>0, <3>1, <3>2, <3>3
  <2>. QED
    BY <1>3, <2>2, <2>3, <2>4 DEF KeyFits, later
<1>6. CASE (c > 0 => at - s >= window) /\ new.start = at /\ new.count = 1
  <2>1. /\ (L + 1) - 1 + 1 = L + 1 /\ (L + 1) - 1 - limit = L - limit
        /\ at <= to /\ to <= at + Lag /\ at \in Nat
    BY <1>0
  <2>2. CountedLast(later, new, limit)
    BY <1>0, <1>1, <1>2, <1>6, <2>1 DEF CountedLast
  <2>3. ASSUME NEW n \in 1 .. L - limit
        PROVE  times[n] + window - Lag <= to /\ n \in 1 .. L
    <3>1. n \in 1 .. L
      BY <1>0
    <3>2. CASE c = 0
      <4>1. n \in 1 .. L - c - limit
        BY <1>0, <1>1, <3>2
      <4>. QED
        BY <1>4, <3>1, <3>2, <4>1
    <3>3. CASE c > 0
      <4>1. L - c + 1 \in 1 .. L /\ n <= L - c + 1
        BY <1>0, <1>1, <1>4, <3>3
      <4>2. times[n] <= times[L - c + 1] /\ times[L - c + 1] <= s + Lag
        BY <1>4, <3>1, <3>3, <4>1
      <4>3. s + window <= to
        BY <1>0, <1>6, <2>1, <3>3
      <4>4. times[n] \in Nat /\ times[L - c + 1] \in Nat
        BY <1>0, <1>1, <3>1, <4>1
      <4>. QED
        BY <1>0, <4>2, <4>3, <4>4
    <3>. QED
      BY <1>0, <3>1, <3>2, <3>3
  <2>4. OlderApart(later, new, limit, window, to)
    <3>. SUFFICES ASSUME NEW n \in 1 .. L - limit
                  PROVE  later[n] + window - Lag <= later[L + 1]
      BY <1>2, <1>6, <2>1 DEF OlderApart
    <3>. QED
      BY <1>2, <2>3
  <2>5. Spread(later, limit, window)
    <3>. SUFFICES ASSUME NEW n \in 1 .. L + 1 - 2 * limit
                  PROVE  later[n] + window - Lag <= later[n + 2 * limit]
      BY <1>0, <1>1, <1>2 DEF Spread
    <3>1. n \in 1 .. L /\ n \in Nat
      BY <1>0
    <3>2. CASE n \in 1 .. L - 2 * limit
      <4>1. n + 2 * limit \in 1 .. L
        BY <1>0, <1>1, <3>2
      <4>. QED
        BY <1>2, <1>4, <3>1, <3>2, <4>1
    <3>3. CASE n = L + 1 - 2 * limit
      <4>1. n \in 1 .. L - limit /\ n + 2 * limit = L + 1
        BY <1>0, <3>1, <3>3
      <4>. QED
        BY <1>2, <2>3, <4>1
    <3>. QED
      BY <1>0, <3>1, <3>2, <3>3
  <2>. QED
    BY <1>3, <2>2, <2>4, <2>5 DEF KeyFits, later
<1>. QED
  BY <1>5, <1>6 DEF c, s

\* An entry that gc takes away has no window that still runs.
LEMMA KeyForgotten ==
    ASSUME NEW times \in Histories, NEW entry \in EntryType,
           NEW limit \in Nat \ {0}, NEW window \in Nat \ {0}, NEW to \in Nat,
           KeyFits(times, entry, limit, window, to),
           entry.count > 0, entry.start + window <= to
    PROVE  KeyFits(times, NoEntry, limit, window, to)
<1>. DEFINE L == Len(times)
            c == entry.count
<1>0. L \in Nat /\ c \in Nat /\ entry.start \in Nat /\ Lag \in Nat
  BY LimiterAssumption DEF EntryType, Histories
<1>1. \A n \in 1 .. L : times[n] \in Nat
  BY DEF Histories
<1>2. /\ \A m, n \in 1 .. L : m <= n => times[m] <= times[n]
      /\ c <= limit /\ c <= L /\ times[L - c + 1] <= entry.start + Lag
  BY DEF KeyFits, InTime, CountedLast
<1>3. CountedLast(times, NoEntry, limit)
  BY <1>0, <1>1 DEF CountedLast, NoEntry
<1>3a. c > 0
  OBVIOUS
<1>. HIDE DEF L, c
<1>4. ASSUME NEW n \in 1 .. L - limit
      PROVE  times[n] + window - Lag <= to
  <2>1. n \in 1 .. L /\ L - c + 1 \in 1 .. L /\ n <= L - c + 1
    BY <1>0, <1>1, <1>2, <1>3a
  <2>2. times[n] <= times[L - c + 1]
    BY <1>2, <2>1
  <2>3. times[n] \in Nat /\ times[L - c + 1] \in Nat
    BY <1>0, <1>1, <2>1
  <2>4. times[L - c + 1] <= entry.start + Lag
    BY <1>2
  <2>. QED
    BY <1>0, <2>2, <2>3, <2>4
<1>5. OlderApart(times, NoEntry, limit, window, to)
  <2>1. L - 0 - limit = L - limit
    BY <1>0, <1>1
  <2>. QED
    BY <1>4, <2>1 DEF OlderApart, NoEntry, L
<1>. QED
  BY <1>3, <1>5 DEF KeyFits

\* Time passes.
LEMMA KeyLater ==
    ASSUME NEW times \in Histories, NEW entry \in EntryType,
           NEW limit \in Nat \ {0}, NEW window \in Nat \ {0}, NEW to \in Nat,
           KeyFits(times, entry, limit, window, to)
    PROVE  KeyFits(times, entry, limit, window, to + 1)
<1>1. \A n \in 1 .. Len(times) : times[n] \in Nat
  BY DEF Histories
<1>2. entry.count \in Nat /\ Lag \in Nat
  BY LimiterAssumption DEF EntryType, Histories
<1>3. InTime(times, to + 1)
  BY <1>1 DEF KeyFits, InTime
<1>4. OlderApart(times, entry, limit, window, to + 1)
  <2>. SUFFICES ASSUME NEW n \in 1 .. Len(times) - entry.count - limit
                PROVE  times[n] + window - Lag <=
                         IF entry.count > 0 THEN times[Len(times) - entry.count + 1] ELSE to + 1
    BY DEF OlderApart
  <2>1. times[n] \in Nat
    BY <1>1, <1>2
  <2>2. times[n] + window - Lag <=
          IF entry.count > 0 THEN times[Len(times) - entry.count + 1] ELSE to
    BY DEF KeyFits, OlderApart
  <2>3. CASE entry.count > 0
    BY <2>2, <2>3
  <2>4. CASE ~(entry.count > 0)
    BY <1>2, <2>1, <2>2, <2>4
  <2>. QED
    BY <2>3, <2>4
<1>. QED
  BY <1>3, <1>4 DEF KeyFits

\* No more than two limits of requests fit into a window.
LEMMA KeyHolds ==
    ASSUME NEW times \in Histories, NEW limit \in Nat \ {0}, NEW window \in Nat \ {0},
           NEW from \in Nat, NEW to \in Nat, InTime(times, to), Spread(times, limit, window)
    PROVE  Cardinality({n \in DOMAIN times : times[n] \in from .. from + window - Lag - 1})
             <= 2 * limit
<1>. DEFINE S == {n \in DOMAIN times : times[n] \in from .. from + window - Lag - 1}
<1>1. /\ DOMAIN times = 1 .. Len(times) /\ Len(times) \in Nat /\ Lag \in Nat
      /\ \A n \in 1 .. Len(times) : times[n] \in Nat
  BY LimiterAssumption DEF Histories
<1>2. CASE S = {}
  <2>1. Cardinality(S) = 0
    BY <1>2, FS_EmptySet
  <2>. QED
    BY <2>1
<1>3. CASE S # {}
  <2>1. S \subseteq Nat
    BY <1>1
  <2>2. PICK m \in S : \A n \in S : m <= n
    BY <1>3, <2>1, LeastExists
  <2>. HIDE DEF S
  <2>3. ASSUME NEW n \in S
        PROVE  n \in m .. m + 2 * limit - 1
    <3>1. /\ m \in 1 .. Len(times) /\ n \in 1 .. Len(times) /\ m <= n
          /\ times[m] >= from /\ times[n] <= from + window - Lag - 1
      BY <1>1, <2>2 DEF S
    <3>2. ASSUME m + 2 * limit <= n  PROVE FALSE
      <4>1. m \in 1 .. Len(times) - 2 * limit /\ m + 2 * limit \in 1 .. Len(times)
        BY <1>1, <3>1, <3>2
      <4>2. times[m] + window - Lag <= times[m + 2 * limit]
        BY <4>1 DEF Spread
      <4>3. times[m + 2 * limit] <= times[n]
        BY <3>1, <3>2, <4>1 DEF InTime
      <4>4. /\ times[m] \in Nat /\ times[n] \in Nat /\ times[m + 2 * limit] \in Nat
            /\ Lag \in Nat
        BY <1>1, <3>1, <4>1
      <4>5. times[m] >= from /\ times[n] <= from + window - Lag - 1
        BY <3>1
      <4>. QED
        BY <4>2, <4>3, <4>4, <4>5
    <3>3. m \in Nat /\ n \in Nat
      BY <1>1, <3>1
    <3>. QED
      BY <3>1, <3>2, <3>3
  <2>4. m \in Int /\ m + 2 * limit - 1 \in Int /\ S \in SUBSET (m .. m + 2 * limit - 1)
    BY <2>1, <2>3
  <2>5. /\ IsFiniteSet(m .. m + 2 * limit - 1)
        /\ Cardinality(m .. m + 2 * limit - 1) = 2 * limit
    BY <2>4, FS_Interval
  <2>6. Cardinality(S) <= Cardinality(m .. m + 2 * limit - 1)
    BY <2>4, <2>5, FS_Subset
  <2>. QED
    BY <2>5, <2>6 DEF S
<1>. QED
  BY <1>2, <1>3

\* The requests that a full window counts were let through within it.
LEMMA FullWindow ==
    ASSUME NEW times \in Histories, NEW entry \in EntryType,
           NEW limit \in Nat \ {0}, NEW window \in Nat \ {0}, NEW to \in Nat,
           NEW at \in 0 .. to, at >= to - Lag,
           KeyFits(times, entry, limit, window, to),
           entry.count >= limit, at - entry.start < window
    PROVE  Cardinality({n \in DOMAIN times : times[n] \in to - Lag - window + 1 .. to}) >= limit
<1>. DEFINE L == Len(times)
            S == {n \in DOMAIN times : times[n] \in to - Lag - window + 1 .. to}
<1>0. /\ entry.count = limit /\ limit <= L /\ entry.start \in Nat
      /\ L \in Nat /\ Lag \in Nat
  <2>1. entry.count \in Nat /\ entry.start \in Nat /\ Lag \in Nat
    BY LimiterAssumption DEF EntryType
  <2>2. entry.count <= limit /\ entry.count <= L
    BY DEF KeyFits, CountedLast
  <2>3. L \in Nat
    BY DEF Histories
  <2>. QED
    BY <2>1, <2>2, <2>3
<1>1. DOMAIN times = 1 .. L /\ \A n \in 1 .. L : times[n] \in Nat
  BY DEF Histories
<1>2. /\ \A n \in 1 .. L : times[n] <= to
      /\ \A m, n \in 1 .. L : m <= n => times[m] <= times[n]
      /\ entry.start <= times[L - limit + 1]
  BY <1>0 DEF KeyFits, InTime, CountedLast
<1>. HIDE DEF L
<1>3. ASSUME NEW n \in L - limit + 1 .. L
      PROVE  n \in S
  <2>1. n \in 1 .. L /\ L - limit + 1 \in 1 .. L /\ L - limit + 1 <= n
    BY <1>0
  <2>2. times[L - limit + 1] <= times[n] /\ times[n] <= to
    BY <1>2, <2>1
  <2>3. times[n] \in Nat /\ times[L - limit + 1] \in Nat
    BY <1>1, <2>1
  <2>4. to - Lag - window + 1 <= times[n]
    BY <1>0, <1>2, <2>2, <2>3
  <2>5. times[n] \in to - Lag - window + 1 .. to
    BY <1>0, <2>2, <2>3, <2>4
  <2>. QED
    BY <1>1, <2>1, <2>5
<1>4. /\ IsFiniteSet(1 .. L)
      /\ Cardinality(L - limit + 1 .. L) = limit
  <2>1. L - limit + 1 \in Int /\ ~(L - limit + 1 > L) /\ L - (L - limit + 1) + 1 = limit
    BY <1>0
  <2>2. 1 \in Int /\ L \in Int
    BY <1>0
  <2>3. IsFiniteSet(1 .. L)
    BY <2>2, FS_Interval
  <2>4. Cardinality(L - limit + 1 .. L) =
          IF L - limit + 1 > L THEN 0 ELSE L - (L - limit + 1) + 1
    BY <2>1, <2>2, FS_Interval
  <2>. QED
    BY <2>1, <2>3, <2>4
<1>5. IsFiniteSet(S)
  <2>1. S \in SUBSET (1 .. L)
    BY <1>1
  <2>. QED
    BY <1>4, <2>1, FS_Subset
<1>6. L - limit + 1 .. L \in SUBSET S
  BY <1>3
<1>7. Cardinality(L - limit + 1 .. L) <= Cardinality(S)
  BY <1>5, <1>6, FS_Subset
<1>8. Cardinality(S) \in Nat
  BY <1>5, FS_CardinalityType
<1>. QED
  BY <1>4, <1>7, <1>8

-----------------------------------------------------------------------------
\* One breaker

\* Failures in a row: the next one fills up a round, or is counted in it.
LEMMA BreakerFails ==
    ASSUME NEW b \in [fails : Nat, until : Nat], NEW times \in Histories, NEW q \in Nat,
           Rounds(b, times, q), NEW t \in Nat, NEW new,
           new = IF b.fails + 1 >= CoolAfterFails
                 THEN [fails |-> 0, until |-> t + CoolDuration]
                 ELSE [b EXCEPT !.fails = b.fails + 1]
    PROVE  /\ new \in [fails : Nat, until : Nat]
           /\ \E p \in Nat : Rounds(new, Append(times, t), p)
<1>1. /\ CoolAfterFails \in Nat \ {0} /\ CoolDuration \in Nat
      /\ b.fails \in Nat /\ b.until \in Nat
  BY UpstreamsAssumption
<1>2. PICK len \in Nat : len = Len(times)
  BY Appended
<1>3. PICK then : then = Append(times, t)
  OBVIOUS
<1>4. /\ Len(then) = len + 1 /\ then[len + 1] = t
      /\ \A n \in 1 .. len : then[n] = times[n]
  BY <1>2, <1>3, Appended
<1>5. PICK whole \in Nat :
        /\ whole = q * CoolAfterFails
        /\ (q + 1) * CoolAfterFails = whole + CoolAfterFails
        /\ q # 0 => whole >= 1
  BY <1>1, NextRound
<1>6. /\ b.fails < CoolAfterFails /\ len = whole + b.fails
      /\ b.until = IF q = 0 THEN 0 ELSE times[whole] + CoolDuration
  BY <1>2, <1>5 DEF Rounds
<1>7. CASE b.fails + 1 >= CoolAfterFails
  <2>1. new = [fails |-> 0, until |-> t + CoolDuration]
    BY <1>7
  <2>2. new.fails = 0 /\ new.until = t + CoolDuration
    BY <2>1
  <2>3. len + 1 = whole + CoolAfterFails
    BY <1>1, <1>6, <1>7
  <2>4. q + 1 \in Nat /\ q + 1 # 0 /\ (q + 1) * CoolAfterFails = len + 1 /\ len + 1 = len + 1 + 0
    BY <1>5, <2>3
  <2>5. Len(then) = (q + 1) * CoolAfterFails + new.fails
    BY <1>4, <2>2, <2>4
  <2>6. new.until = then[(q + 1) * CoolAfterFails] + CoolDuration
    BY <1>4, <2>2, <2>4
  <2>7. new.fails < CoolAfterFails
    BY <1>1, <2>2
  <2>8. Rounds(new, then, q + 1)
    BY <2>4, <2>5, <2>6, <2>7, Zenon DEF Rounds
  <2>9. new \in [fails : Nat, until : Nat]
    BY <1>1, <2>1
  <2>. QED
    BY <1>3, <2>4, <2>8, <2>9
<1>8. CASE ~(b.fails + 1 >= CoolAfterFails)
  <2>1. new = [b EXCEPT !.fails = b.fails + 1]
    BY <1>8
  <2>2. new.fails = b.fails + 1 /\ new.until = b.until
    BY <2>1
  <2>3. q # 0 => then[whole] = times[whole]
    <3>1. q # 0 => whole >= 1
      BY <1>5
    <3>2. q # 0 => whole \in 1 .. len
      BY <1>1, <1>6, <3>1
    <3>. QED
      BY <1>4, <3>2
  <2>4. Len(then) = whole + new.fails
    BY <1>1, <1>4, <1>6, <2>2
  <2>5. new.until = IF q = 0 THEN 0 ELSE then[whole] + CoolDuration
    BY <1>6, <2>2, <2>3
  <2>6. new.fails < CoolAfterFails
    BY <1>1, <1>8, <2>2
  <2>7. Rounds(new, then, q)
    BY <1>5, <2>4, <2>5, <2>6, Zenon DEF Rounds
  <2>8. new \in [fails : Nat, until : Nat]
    BY <1>1, <2>1
  <2>. QED
    BY <1>3, <2>7, <2>8
<1>. QED
  BY <1>7, <1>8

\* The rounds of a breaker are those of its history.
LEMMA RoundsOf ==
    ASSUME NEW b \in [fails : Nat, until : Nat], NEW times \in Histories, NEW q \in Nat,
           Rounds(b, times, q)
    PROVE  /\ Len(times) \div CoolAfterFails = q
           /\ q > 0 => q * CoolAfterFails \in 1 .. Len(times)
<1>1. CoolAfterFails \in Nat \ {0} /\ b.fails \in Nat /\ Len(times) \in Nat
  BY UpstreamsAssumption DEF Histories
<1>2. b.fails < CoolAfterFails /\ Len(times) = q * CoolAfterFails + b.fails
  BY DEF Rounds
<1>3. q * CoolAfterFails \in Nat /\ (q # 0 => q * CoolAfterFails >= 1)
  BY <1>1, NextRound
<1>4. (q * CoolAfterFails + b.fails) \div CoolAfterFails = q
  BY <1>1, <1>2, RoundsCounted
<1>. QED
  BY <1>1, <1>2, <1>3, <1>4

-----------------------------------------------------------------------------
\* One call

\* A call that has just listed the upstreams, or has none listed, has passed over none.
LEMMA CallBegins ==
    ASSUME NEW c \in CallType, NEW last, NEW to \in Nat,
           c.left = c.listed, c.at # "waiting", c.began <= to
    PROVE  CallFits(c, last, to)
<1>1. Len(c.listed) \in Nat
  BY DEF CallType
<1>2. /\ Len(c.left) = Len(c.listed) /\ Len(c.listed) - Len(c.left) = 0
      /\ \A n \in 1 .. Len(c.listed) : Len(c.listed) - Len(c.left) + n = n
  BY <1>1
<1>3. \A n \in 1 .. Len(c.left) : c.left[n] = c.listed[Len(c.listed) - Len(c.left) + n]
  BY <1>2
<1>4. \A n \in 1 .. Len(c.listed) - Len(c.left) : FALSE
  BY <1>2
<1>5. Len(c.left) <= Len(c.listed)
  BY <1>1, <1>2
<1>. QED
  BY <1>3, <1>4, <1>5 DEF CallFits

\* Later failures take nothing away.
LEMMA CallStands ==
    ASSUME NEW c \in CallType, NEW last \in [Upstreams -> Int], NEW new \in [Upstreams -> Int],
           \A i \in Upstreams : last[i] <= new[i],
           NEW to \in Nat, NEW later \in Nat, to <= later,
           CallFits(c, last, to)
    PROVE  CallFits(c, new, later)
<1>1. /\ c.began \in Nat /\ Len(c.listed) \in Nat /\ Len(c.left) \in Nat
      /\ \A n \in 1 .. Len(c.listed) : c.listed[n] \in Upstreams
      /\ CoolDuration \in Nat
  BY UpstreamsAssumption DEF CallType
<1>2. c.began <= later
  BY <1>1 DEF CallFits
<1>3. \A i \in Upstreams : FailedSince(last[i], c.began) => FailedSince(new[i], c.began)
  BY <1>1 DEF FailedSince
<1>4. \A n \in 1 .. Len(c.listed) - Len(c.left) : FailedSince(new[c.listed[n]], c.began)
  <2>. SUFFICES ASSUME NEW n \in 1 .. Len(c.listed) - Len(c.left)
                PROVE  FailedSince(new[c.listed[n]], c.began)
    OBVIOUS
  <2>1. n \in 1 .. Len(c.listed)
    BY <1>1
  <2>2. FailedSince(last[c.listed[n]], c.began)
    BY DEF CallFits
  <2>. QED
    BY <1>1, <1>3, <2>1, <2>2
<1>. QED
  BY <1>2, <1>4 DEF CallFits

\* A call goes on to the next upstream when the one before it has failed in time.
LEMMA CallGoesOn ==
    ASSUME NEW c \in CallType, NEW d \in CallType, NEW last, NEW to,
           CallFits(c, last, to), c.left # <<>>, FailedSince(last[Head(c.left)], c.began),
           d.listed = c.listed, d.left = Tail(c.left), d.began = c.began, d.at = "choosing"
    PROVE  CallFits(d, last, to)
<1>. DEFINE L == Len(c.listed)
            M == Len(c.left)
<1>1. L \in Nat /\ M \in Nat /\ M >= 1 /\ M <= L
  BY DEF CallType, CallFits
<1>2. /\ Len(d.left) = M - 1 /\ Head(c.left) = c.left[1]
      /\ \A n \in 1 .. M - 1 : d.left[n] = c.left[n + 1]
  BY <1>1 DEF CallType
<1>3. /\ \A n \in 1 .. M : c.left[n] = c.listed[L - M + n]
      /\ \A n \in 1 .. L - M : FailedSince(last[c.listed[n]], c.began)
      /\ c.began <= to
  BY DEF CallFits
<1>. HIDE DEF L, M
<1>4. \A n \in 1 .. M - 1 : d.left[n] = c.listed[L - (M - 1) + n]
  <2>. SUFFICES ASSUME NEW n \in 1 .. M - 1
                PROVE  d.left[n] = c.listed[L - (M - 1) + n]
    OBVIOUS
  <2>1. n + 1 \in 1 .. M /\ L - M + (n + 1) = L - (M - 1) + n
    BY <1>1
  <2>. QED
    BY <1>2, <1>3, <2>1
<1>5. \A n \in 1 .. L - (M - 1) : FailedSince(last[c.listed[n]], c.began)
  <2>. SUFFICES ASSUME NEW n \in 1 .. L - (M - 1)
                PROVE  FailedSince(last[c.listed[n]], c.began)
    OBVIOUS
  <2>1. CASE n \in 1 .. L - M
    BY <1>3, <2>1
  <2>2. CASE n = L - M + 1
    <3>1. 1 \in 1 .. M
      BY <1>1
    <3>2. c.listed[n] = Head(c.left)
      BY <1>2, <1>3, <2>2, <3>1
    <3>. QED
      BY <3>2
  <2>. QED
    BY <1>1, <2>1, <2>2
<1>6. M - 1 <= L
  BY <1>1
<1>. QED
  BY <1>2, <1>3, <1>4, <1>5, <1>6 DEF CallFits, L

\* A cool-down that still runs comes from a failure that is less than a cool-down old.
LEMMA CoolingIsRecent ==
    ASSUME TypeOK, BreakerInv, NEW i \in Upstreams, Cooling(i), NEW began \in Nat, began <= now
    PROVE  FailedSince(lastFailed[i], began)
<1>1. /\ now \in Nat /\ breakers[i].until \in Nat /\ lastFailed[i] \in Int
      /\ CoolDuration \in Nat
  BY UpstreamsAssumption DEF TypeOK
<1>2. now < breakers[i].until
  BY DEF Cooling
<1>3. lastFailed[i] >= 0 /\ breakers[i].until <= lastFailed[i] + CoolDuration
  BY <1>1, <1>2 DEF BreakerInv
<1>. QED
  BY <1>1, <1>2, <1>3 DEF FailedSince

-----------------------------------------------------------------------------
\* The steps

\* What the limiter does in a step.
Judges(h) ==
    \E rules \in Seq(Keys), at \in 0 .. now :
        /\ at >= now - Lag
        /\ Judge(h, rules, at)
        /\ UNCHANGED <<now, table, marks>>

\* What the calls do in a step.
Moves(h, d) == call' = [call EXCEPT ![h] = d]
CallStops(h) == Moves(h, NoCall) /\ UNCHANGED marks
CallMoves(h) ==
    \/ CallStops(h)
    \/ call[h].at = "idle" /\ Moves(h, [call[h] EXCEPT !.at = "admitted"]) /\ UNCHANGED marks
    \/ call[h].at = "admitted" /\ UNCHANGED marks
         /\ \E listed \in Listings : Moves(h, [at |-> "choosing", listed |-> listed,
                                               left |-> listed, began |-> now])
    \/ Skip(h) \/ Send(h) \/ Answered(h) \/ Failed(h) \/ Abandoned(h)

\* The rules of a request are keys.
LEMMA RulesAreKeys ==
    ASSUME NEW u \in Users, NEW hasBase \in BOOLEAN, NEW included \in BOOLEAN
    PROVE  Rules(u, hasBase, included) \in Seq(Keys)
<1>1. /\ MinuteKey[u] \in Keys /\ DayKey[u] \in Keys
      /\ TrialKey[u] \in Keys /\ IPKey[u] \in Keys
  BY DispatchAssumption
<1>. QED
  BY <1>1 DEF Rules

\* Each step is one of the limiter, of a call, of an administrator, or time passing.
LEMMA StepCases ==
    ASSUME [Next]_vars
    PROVE  \/ \E h \in Handlers : Judges(h)
           \/ \E h \in Handlers :
                 /\ CallMoves(h)
                 /\ UNCHANGED <<now, entries, passed, table>>
                 /\ refused' = [refused EXCEPT ![h] = NoKey] \/ refused' = refused
           \/ Administer
           \/ CollectEntries
           \/ TimePasses
           \/ UNCHANGED vars
<1>1. ASSUME NEW h \in Handlers, NEW u \in Users, NEW hasBase \in BOOLEAN,
             NEW included \in BOOLEAN, NEW at \in {t \in 0 .. now : t >= now - Lag},
             Arrive(h, u, hasBase, included, at)
      PROVE  Judges(h)
  <2>1. Rules(u, hasBase, included) \in Seq(Keys)
    BY RulesAreKeys
  <2>2. at \in 0 .. now /\ at >= now - Lag
    OBVIOUS
  <2>. QED
    BY <1>1, <2>1, <2>2 DEF Arrive, Judges
<1>2. ASSUME NEW h \in Handlers, Replay(h)
      PROVE  /\ CallMoves(h) /\ UNCHANGED <<now, entries, passed, table>>
             /\ refused' = refused
  BY <1>2 DEF Replay, CallMoves, Moves, limiterVars, marks
<1>3. ASSUME NEW h \in Handlers, Leave(h)
      PROVE  /\ CallMoves(h) /\ UNCHANGED <<now, entries, passed, table>>
             /\ refused' = [refused EXCEPT ![h] = NoKey]
  BY <1>3 DEF Leave, CallMoves, CallStops, Moves, limiterVars, marks
<1>4. ASSUME NEW h \in Handlers, Calls(h)
      PROVE  /\ CallMoves(h) /\ UNCHANGED <<now, entries, passed, table>>
             /\ refused' = refused
  <2>1. UNCHANGED <<now, entries, passed, refused>>
    BY <1>4 DEF Calls, limiterVars
  <2>2. CASE List(h)
    BY <2>1, <2>2 DEF List, CallMoves, Moves
  <2>3. CASE Stop(h) \/ GiveUp(h)
    BY <2>1, <2>3 DEF Stop, GiveUp, CallMoves, CallStops, Moves
  <2>4. CASE Skip(h) \/ Send(h) \/ Answered(h) \/ Failed(h) \/ Abandoned(h)
    <3>1. UNCHANGED table
      BY <2>4 DEF Skip, Send, Answered, Failed, Abandoned
    <3>2. CallMoves(h)
      BY <2>4 DEF CallMoves
    <3>. QED
      BY <2>1, <3>1, <3>2
  <2>. QED
    BY <1>4, <2>2, <2>3, <2>4 DEF Calls
<1>. QED
  BY <1>1, <1>2, <1>3, <1>4 DEF Next

\* A call that moves stays a call, in time with the failures there were.
LEMMA CallMovesStep ==
    ASSUME IInv, NEW h \in Handlers, CallMoves(h), UNCHANGED now
    PROVE  /\ call' \in [Handlers -> CallType]
           /\ CallsInv'
<1>0. /\ call \in [Handlers -> CallType] /\ call[h] \in CallType
      /\ lastFailed \in [Upstreams -> Int] /\ now \in Nat
      /\ CallFits(call[h], lastFailed, now)
  BY DEF IInv, TypeOK, CallsInv
<1>1. ASSUME NEW d \in CallType, Moves(h, d), NEW last \in [Upstreams -> Int], lastFailed' = last,
             \A i \in Upstreams : lastFailed[i] <= last[i], CallFits(d, last, now)
      PROVE  call' \in [Handlers -> CallType] /\ CallsInv'
  <2>1. call' \in [Handlers -> CallType] /\ call'[h] = d
    BY <1>0, <1>1 DEF Moves
  <2>2. ASSUME NEW g \in Handlers
        PROVE  CallFits(call'[g], last, now)
    <3>1. CASE g = h
      BY <1>1, <2>1, <3>1
    <3>2. CASE g # h
      <4>1. call'[g] = call[g] /\ call[g] \in CallType
        BY <1>0, <1>1, <3>2 DEF Moves
      <4>2. CallFits(call[g], lastFailed, now) /\ now <= now
        BY <1>0 DEF IInv, CallsInv
      <4>. QED
        BY <1>0, <1>1, <4>1, <4>2, CallStands
    <3>. QED
      BY <3>1, <3>2
  <2>. QED
    BY <1>1, <2>1, <2>2 DEF CallsInv
<1>2. ASSUME NEW d \in CallType, Moves(h, d), UNCHANGED lastFailed, CallFits(d, lastFailed, now)
      PROVE  call' \in [Handlers -> CallType] /\ CallsInv'
  <2>1. \A i \in Upstreams : lastFailed[i] <= lastFailed[i]
    BY <1>0
  <2>. QED
    BY <1>0, <1>1, <1>2, <2>1
<1>3. NoCall \in CallType /\ CallFits(NoCall, lastFailed, now)
  <2>1. NoCall \in CallType
    BY DEF CallType, NoCall
  <2>2. NoCall.left = NoCall.listed /\ NoCall.at # "waiting" /\ NoCall.began <= now
    BY <1>0 DEF NoCall
  <2>. QED
    BY <1>0, <2>1, <2>2, CallBegins
<1>4. CASE CallStops(h)
  BY <1>2, <1>3, <1>4 DEF CallStops, marks
<1>5. CASE call[h].at = "idle" /\ Moves(h, [call[h] EXCEPT !.at = "admitted"]) /\ UNCHANGED marks
  <2>. DEFINE d == [call[h] EXCEPT !.at = "admitted"]
  <2>1. /\ d \in CallType /\ d.left = call[h].left /\ d.listed = call[h].listed
        /\ d.began = call[h].began /\ d.at = "admitted"
    BY <1>0 DEF CallType
  <2>2. CallFits(d, lastFailed, now)
    BY <1>0, <2>1 DEF CallFits
  <2>. QED
    BY <1>2, <1>5, <2>1, <2>2 DEF marks
<1>6. ASSUME NEW listed \in Listings, UNCHANGED marks,
             Moves(h, [at |-> "choosing", listed |-> listed, left |-> listed, began |-> now])
      PROVE  call' \in [Handlers -> CallType] /\ CallsInv'
  <2>. DEFINE d == [at |-> "choosing", listed |-> listed, left |-> listed, began |-> now]
              rows == {i \in Upstreams : table[i].enabled}
  <2>1. Cardinality(rows) \in Nat
    BY FS_CardinalityType DEF IInv, FewEnabled
  <2>2. listed \in [1 .. Cardinality(rows) -> rows]
    BY DEF Listings, SetToSeqs
  <2>3. listed \in Seq(Upstreams)
    <3>1. PICK k \in Nat : k = Cardinality(rows)
      BY <2>1
    <3>2. listed \in [1 .. k -> Upstreams]
      BY <2>2, <3>1
    <3>. QED
      BY <3>2
  <2>4. d \in CallType
    BY <1>0, <2>3 DEF CallType
  <2>5. CallFits(d, lastFailed, now)
    <3>1. d.left = d.listed /\ d.at # "waiting" /\ d.began <= now
      BY <1>0
    <3>. QED
      BY <1>0, <2>4, <3>1, CallBegins
  <2>. QED
    BY <1>2, <1>6, <2>4, <2>5 DEF marks
<1>7. CASE Skip(h)
  <2>. DEFINE d == [call[h] EXCEPT !.left = Tail(call[h].left)]
  <2>1. call[h].at = "choosing" /\ call[h].left # <<>> /\ Cooling(Head(call[h].left))
    BY <1>7 DEF Skip, Choosing
  <2>2. Moves(h, d) /\ UNCHANGED lastFailed
    BY <1>0, <1>7 DEF Skip, Moves, marks
  <2>3. call[h].left \in Seq(Upstreams) /\ call[h].began \in Nat
    BY <1>0 DEF CallType
  <2>4. Tail(call[h].left) \in Seq(Upstreams) /\ Head(call[h].left) \in Upstreams
    BY <2>1, <2>3
  <2>5. /\ d \in CallType /\ d.listed = call[h].listed /\ d.left = Tail(call[h].left)
        /\ d.began = call[h].began /\ d.at = "choosing"
    BY <1>0, <2>1, <2>4 DEF CallType
  <2>6. call[h].began <= now
    BY <1>0 DEF CallFits
  <2>7. FailedSince(lastFailed[Head(call[h].left)], call[h].began)
    BY <2>1, <2>3, <2>4, <2>6, CoolingIsRecent DEF IInv
  <2>8. CallFits(d, lastFailed, now)
    BY <1>0, <2>1, <2>5, <2>7, CallGoesOn
  <2>. QED
    BY <1>2, <2>2, <2>5, <2>8
<1>8. CASE Send(h)
  <2>. DEFINE d == [call[h] EXCEPT !.at = "waiting"]
  <2>1. call[h].left # <<>> /\ Moves(h, d) /\ UNCHANGED lastFailed
    BY <1>8 DEF Send, Choosing, Moves, marks
  <2>2. /\ d \in CallType /\ d.left = call[h].left /\ d.listed = call[h].listed
        /\ d.began = call[h].began
    BY <1>0 DEF CallType
  <2>3. CallFits(d, lastFailed, now)
    BY <1>0, <2>1, <2>2 DEF CallFits
  <2>. QED
    BY <1>2, <2>1, <2>2, <2>3
<1>9. CASE Answered(h) \/ Abandoned(h)
  BY <1>2, <1>3, <1>9 DEF Answered, Abandoned, Moves
<1>10. CASE Failed(h)
  <2>. DEFINE d == [call[h] EXCEPT !.at = "choosing", !.left = Tail(call[h].left)]
              last == [lastFailed EXCEPT ![Head(call[h].left)] = now]
  <2>1. call[h].left # <<>>
    BY <1>0, <1>10 DEF Failed, CallFits
  <2>2. Moves(h, d) /\ lastFailed' = last
    BY <1>0, <1>10 DEF Failed, Moves
  <2>3. call[h].left \in Seq(Upstreams) /\ call[h].began \in Nat
    BY <1>0 DEF CallType
  <2>4. Tail(call[h].left) \in Seq(Upstreams) /\ Head(call[h].left) \in Upstreams
    BY <2>1, <2>3
  <2>5. /\ d \in CallType /\ d.listed = call[h].listed /\ d.left = Tail(call[h].left)
        /\ d.began = call[h].began /\ d.at = "choosing"
    BY <1>0, <2>4 DEF CallType
  <2>6. /\ last \in [Upstreams -> Int]
        /\ \A i \in Upstreams : lastFailed[i] <= last[i]
    <3>1. \A i \in Upstreams : lastFailed[i] \in Int /\ lastFailed[i] <= now
      BY <1>0 DEF IInv, BreakerInv
    <3>2. \A i \in Upstreams : last[i] = now \/ last[i] = lastFailed[i]
      BY <1>0
    <3>3. \A i \in Upstreams : lastFailed[i] <= last[i]
      BY <3>1, <3>2
    <3>4. now \in Int
      BY <1>0
    <3>5. last \in [Upstreams -> Int]
      BY <1>0, <3>4
    <3>. QED
      BY <3>3, <3>5
  <2>7. last[Head(call[h].left)] = now
    BY <1>0, <2>4
  <2>8. CoolDuration \in Nat \ {0} /\ call[h].began <= now
    BY <1>0, UpstreamsAssumption DEF CallFits
  <2>9. FailedSince(last[Head(call[h].left)], call[h].began)
    BY <1>0, <2>3, <2>7, <2>8 DEF FailedSince
  <2>10. CallFits(call[h], last, now)
    <3>1. now <= now
      BY <1>0
    <3>. QED
      BY <1>0, <2>6, <3>1, CallStands
  <2>11. CallFits(d, last, now)
    BY <2>1, <2>5, <2>9, <2>10, <1>0, CallGoesOn
  <2>. QED
    BY <1>1, <2>2, <2>5, <2>6, <2>11
<1>. QED
  BY <1>4, <1>5, <1>6, <1>7, <1>8, <1>9, <1>10 DEF CallMoves

\* The breakers and what they remember keep their types.
MarksOK ==
    /\ breakers \in [Upstreams -> [fails : Nat, until : Nat]]
    /\ failures \in [Upstreams -> Seq(Nat)]
    /\ lastFailed \in [Upstreams -> Int]

\* A call that moves leaves the breakers with the failures in a row.
LEMMA BreakerMovesStep ==
    ASSUME IInv, NEW h \in Handlers, CallMoves(h), UNCHANGED now
    PROVE  MarksOK' /\ BreakerInv'
<1>0. /\ MarksOK /\ now \in Nat /\ now' = now /\ CoolDuration \in Nat \ {0}
      /\ call[h].left \in Seq(Upstreams)
  BY UpstreamsAssumption DEF IInv, TypeOK, MarksOK, CallType
<1>1. CASE UNCHANGED marks
  BY <1>0, <1>1 DEF marks, MarksOK, IInv, BreakerInv
<1>2. ASSUME call[h].at = "waiting"
      PROVE  Head(call[h].left) \in Upstreams
  <2>1. call[h].left # <<>>
    BY <1>2 DEF IInv, CallsInv, CallFits
  <2>. QED
    BY <1>0, <2>1
<1>3. CASE Answered(h)
  <2>1. PICK j \in Upstreams : j = Head(call[h].left)
    BY <1>2, <1>3 DEF Answered
  <2>2. /\ breakers' = [breakers EXCEPT ![j] = NoBreaker]
        /\ failures' = [failures EXCEPT ![j] = <<>>] /\ lastFailed' = lastFailed
    BY <1>3, <2>1 DEF Answered, MarkOK, Healthy
  <2>3. NoBreaker \in [fails : Nat, until : Nat] /\ <<>> \in Seq(Nat)
    BY DEF NoBreaker
  <2>4. MarksOK'
    BY <1>0, <2>2, <2>3 DEF MarksOK
  <2>5. ASSUME NEW i \in Upstreams
        PROVE  /\ \E q \in Nat : Rounds(breakers'[i], failures'[i], q)
               /\ lastFailed'[i] <= now
               /\ breakers'[i].until > 0 =>
                    lastFailed'[i] >= 0 /\ breakers'[i].until <= lastFailed'[i] + CoolDuration
    <3>1. CASE i = j
      <4>1. breakers'[i] = NoBreaker /\ failures'[i] = <<>> /\ NoBreaker.until = 0
        BY <1>0, <2>2, <3>1 DEF MarksOK, NoBreaker
      <4>2. Rounds(NoBreaker, <<>>, 0)
        BY UpstreamsAssumption DEF Rounds, NoBreaker
      <4>. QED
        BY <2>2, <4>1, <4>2 DEF IInv, BreakerInv
    <3>2. CASE i # j
      <4>1. breakers'[i] = breakers[i] /\ failures'[i] = failures[i]
        BY <1>0, <2>2, <3>2 DEF MarksOK
      <4>. QED
        BY <2>2, <4>1 DEF IInv, BreakerInv
    <3>. QED
      BY <3>1, <3>2
  <2>. QED
    BY <1>0, <2>4, <2>5 DEF BreakerInv
<1>4. CASE Failed(h)
  <2>1. PICK j \in Upstreams : j = Head(call[h].left)
    BY <1>2, <1>4 DEF Failed
  <2>2. PICK new : new = IF breakers[j].fails + 1 >= CoolAfterFails
                         THEN [fails |-> 0, until |-> now + CoolDuration]
                         ELSE [breakers[j] EXCEPT !.fails = breakers[j].fails + 1]
    OBVIOUS
  <2>3. PICK then : then = Append(failures[j], now)
    OBVIOUS
  <2>4. /\ breakers' = [breakers EXCEPT ![j] = new]
        /\ failures' = [failures EXCEPT ![j] = then]
        /\ lastFailed' = [lastFailed EXCEPT ![j] = now]
    BY <1>0, <1>4, <2>1, <2>2, <2>3 DEF Failed, MarkFail, MarksOK
  <2>5. PICK q \in Nat : Rounds(breakers[j], failures[j], q)
    BY DEF IInv, BreakerInv
  <2>6. breakers[j] \in [fails : Nat, until : Nat] /\ failures[j] \in Histories
    BY <1>0 DEF MarksOK, Histories
  <2>7. new \in [fails : Nat, until : Nat] /\ \E r \in Nat : Rounds(new, then, r)
    <3>1. /\ new \in [fails : Nat, until : Nat]
          /\ \E r \in Nat : Rounds(new, Append(failures[j], now), r)
      BY <1>0, <2>2, <2>5, <2>6, BreakerFails, Zenon
    <3>. QED
      BY <2>3, <3>1
  <2>8. then \in Seq(Nat)
    BY <1>0, <2>3, <2>6 DEF Histories
  <2>9. now \in Int
    BY <1>0
  <2>10. MarksOK'
    BY <1>0, <2>4, <2>7, <2>8, <2>9 DEF MarksOK
  <2>11. new.until > 0 => new.until <= now + CoolDuration
    <3>1. CASE breakers[j].fails + 1 >= CoolAfterFails
      <4>1. new.until = now + CoolDuration
        BY <2>2, <3>1
      <4>. QED
        BY <1>0, <4>1
    <3>2. CASE ~(breakers[j].fails + 1 >= CoolAfterFails)
      <4>1. new.until = breakers[j].until /\ breakers[j].until \in Nat
        BY <2>2, <2>6, <3>2
      <4>2. breakers[j].until > 0 => breakers[j].until <= lastFailed[j] + CoolDuration
        BY DEF IInv, BreakerInv
      <4>3. lastFailed[j] <= now /\ lastFailed[j] \in Int
        BY <1>0 DEF IInv, BreakerInv, MarksOK
      <4>. QED
        BY <1>0, <4>1, <4>2, <4>3
    <3>. QED
      BY <3>1, <3>2
  <2>12. ASSUME NEW i \in Upstreams
         PROVE  /\ \E r \in Nat : Rounds(breakers'[i], failures'[i], r)
                /\ lastFailed'[i] <= now
                /\ breakers'[i].until > 0 =>
                     lastFailed'[i] >= 0 /\ breakers'[i].until <= lastFailed'[i] + CoolDuration
    <3>1. CASE i = j
      <4>1. breakers'[i] = new /\ failures'[i] = then /\ lastFailed'[i] = now
        BY <1>0, <2>4, <3>1 DEF MarksOK
      <4>2. now <= now /\ now >= 0
        BY <1>0
      <4>. QED
        BY <2>7, <2>11, <4>1, <4>2
    <3>2. CASE i # j
      <4>1. /\ breakers'[i] = breakers[i] /\ failures'[i] = failures[i]
            /\ lastFailed'[i] = lastFailed[i]
        BY <1>0, <2>4, <3>2 DEF MarksOK
      <4>. QED
        BY <4>1 DEF IInv, BreakerInv
    <3>. QED
      BY <3>1, <3>2
  <2>. QED
    BY <1>0, <2>10, <2>12 DEF BreakerInv
<1>5. CASE CallStops(h) \/ Skip(h) \/ Send(h) \/ Abandoned(h)
  BY <1>1, <1>5 DEF CallStops, Skip, Send, Abandoned, Blame, marks
<1>. QED
  BY <1>1, <1>3, <1>4, <1>5 DEF CallMoves

\* The limiter stays in order when it judges a request.
LEMMA JudgesStep ==
    ASSUME IInv, NEW h \in Handlers, Judges(h)
    PROVE  IInv'
<1>0. PICK rules \in Seq(Keys), at \in 0 .. now :
        at >= now - Lag /\ Judge(h, rules, at) /\ UNCHANGED <<now, table, marks>>
  BY DEF Judges
<1>1. /\ TypeOK /\ now \in Nat /\ at \in Nat /\ now' = now /\ table' = table
      /\ breakers' = breakers /\ failures' = failures /\ lastFailed' = lastFailed
  BY <1>0 DEF IInv, TypeOK, marks
<1>2. PICK i : i = FirstExceeded(rules, at)
  OBVIOUS
<1>3. /\ i = 0 => \A n \in 1 .. Len(rules) : ~Exceeded(rules[n], at)
      /\ i # 0 => i \in 1 .. Len(rules) /\ Exceeded(rules[i], at)
  BY <1>2, FirstIsExceeded
<1>4. refused' \in [Handlers -> Keys \cup {NoKey}]
  <2>1. refused' = [refused EXCEPT ![h] = IF i = 0 THEN NoKey ELSE rules[i]]
    BY <1>0, <1>2 DEF Judge
  <2>2. (IF i = 0 THEN NoKey ELSE rules[i]) \in Keys \cup {NoKey}
    BY <1>3
  <2>. QED
    BY <1>1, <2>1, <2>2 DEF TypeOK
<1>5. call' \in [Handlers -> CallType] /\ CallsInv'
  <2>1. PICK a \in {"admitted", "refused"} : call' = [call EXCEPT ![h].at = a]
    BY <1>0 DEF Judge
  <2>2. ASSUME NEW g \in Handlers
        PROVE  call'[g] \in CallType /\ CallFits(call'[g], lastFailed, now)
    <3>1. call[g] \in CallType /\ CallFits(call[g], lastFailed, now)
      BY <1>1 DEF TypeOK, IInv, CallsInv
    <3>2. CASE g # h
      BY <1>1, <2>1, <3>1, <3>2 DEF TypeOK
    <3>3. CASE g = h
      <4>1. call'[g] = [call[g] EXCEPT !.at = a]
        BY <1>1, <2>1, <3>3 DEF TypeOK
      <4>2. /\ call'[g] \in CallType /\ call'[g].at # "waiting"
            /\ call'[g].listed = call[g].listed /\ call'[g].left = call[g].left
            /\ call'[g].began = call[g].began
        BY <3>1, <4>1 DEF CallType
      <4>. QED
        BY <3>1, <4>2 DEF CallFits
    <3>. QED
      BY <3>2, <3>3
  <2>3. call' = [g \in Handlers |-> call'[g]]
    BY <1>1, <2>1 DEF TypeOK
  <2>. QED
    BY <1>1, <2>2, <2>3 DEF CallsInv
<1>6. ASSUME NEW k \in Keys
      PROVE  /\ entries'[k] \in EntryType /\ passed'[k] \in Histories
             /\ KeyFits(passed'[k], entries'[k], Limit[k], Window[k], now)
  <2>1. /\ entries[k] \in EntryType /\ passed[k] \in Histories
        /\ KeyFits(passed[k], entries[k], Limit[k], Window[k], now)
        /\ Limit[k] \in Nat \ {0} /\ Window[k] \in Nat \ {0}
    BY <1>1, LimiterAssumption DEF TypeOK, EntryType, Histories, IInv, LimiterInv
  <2>2. CASE i = 0 /\ k \in ToSet(rules)
    <3>1. entries'[k] = Counted(k, at) /\ passed'[k] = Append(passed[k], now)
      BY <1>0, <1>2, <2>2 DEF Judge, AllowAll, Consumed
    <3>2. PICK n \in 1 .. Len(rules) : rules[n] = k
      BY <2>2 DEF ToSet
    <3>3. ~Exceeded(k, at)
      BY <1>3, <2>2, <3>2
    <3>4. passed'[k] \in Histories
      BY <1>1, <2>1, <3>1, Appended
    <3>5. /\ entries[k].count \in Nat /\ entries[k].start \in Nat
          /\ Limit[k] \in Nat /\ Window[k] \in Nat
      BY <2>1 DEF EntryType
    <3>6. CASE Running(k, at)
      <4>1. entries'[k] = [entries[k] EXCEPT !.count = entries[k].count + 1]
        BY <3>1, <3>6 DEF Counted
      <4>2. /\ entries'[k] \in EntryType /\ entries'[k].start = entries[k].start
            /\ entries'[k].count = entries[k].count + 1
        BY <2>1, <4>1 DEF EntryType
      <4>3. entries[k].count > 0 /\ at - entries[k].start < Window[k]
        BY <3>6 DEF Running
      <4>4. entries[k].count < Limit[k]
        BY <3>3, <3>5, <3>6 DEF Exceeded
      <4>5. KeyFits(Append(passed[k], now), entries'[k], Limit[k], Window[k], now)
        BY <1>0, <1>1, <2>1, <4>2, <4>3, <4>4, KeyLetThrough
      <4>. QED
        BY <3>1, <3>4, <4>2, <4>5
    <3>7. CASE ~Running(k, at)
      <4>1. entries'[k] = [start |-> at, count |-> 1]
        BY <3>1, <3>7 DEF Counted
      <4>2. /\ entries'[k] \in EntryType /\ entries'[k].start = at /\ entries'[k].count = 1
        BY <1>1, <4>1 DEF EntryType
      <4>3. entries[k].count > 0 => at - entries[k].start >= Window[k]
        <5>1. entries[k].count > 0 => ~(at - entries[k].start < Window[k])
          BY <3>7 DEF Running
        <5>2. at \in Nat
          BY <1>1
        <5>3. PICK s \in Nat, w \in Nat : s = entries[k].start /\ w = Window[k]
          BY <3>5
        <5>4. ~(at - s < w) => at - s >= w
          BY <5>2
        <5>. QED
          BY <5>1, <5>3, <5>4
      <4>4. KeyFits(Append(passed[k], now), entries'[k], Limit[k], Window[k], now)
        BY <1>0, <1>1, <2>1, <4>2, <4>3, KeyLetThrough
      <4>. QED
        BY <3>1, <3>4, <4>2, <4>4
    <3>. QED
      BY <3>6, <3>7
  <2>3. CASE ~(i = 0 /\ k \in ToSet(rules))
    <3>1. entries'[k] = entries[k] /\ passed'[k] = passed[k]
      BY <1>0, <1>2, <2>3 DEF Judge, AllowAll, Consumed
    <3>. QED
      BY <2>1, <3>1
  <2>. QED
    BY <2>2, <2>3
<1>7. /\ entries' \in [Keys -> [start : Nat, count : Nat]]
      /\ passed' \in [Keys -> Seq(Nat)]
      /\ LimiterInv'
  <2>1. entries' = [k \in Keys |-> entries'[k]] /\ passed' = [k \in Keys |-> passed'[k]]
    BY <1>0 DEF Judge, AllowAll
  <2>. QED
    BY <1>1, <1>6, <2>1 DEF LimiterInv, EntryType, Histories
<1>8. TypeOK'
  BY <1>1, <1>4, <1>5, <1>7 DEF TypeOK
<1>9. BreakerInv' /\ FewEnabled'
  BY <1>1 DEF IInv, BreakerInv, FewEnabled
<1>. QED
  BY <1>5, <1>7, <1>8, <1>9 DEF IInv

\* The table stays one when an administrator changes it, with few rows enabled.
LEMMA AdministerStep ==
    ASSUME IInv, Administer
    PROVE  IInv'
<1>0. /\ TypeOK /\ table \in [Upstreams -> RowType]
      /\ IsFiniteSet({j \in Upstreams : table[j].enabled})
      /\ UNCHANGED <<now, entries, passed, refused, breakers, failures, lastFailed, call>>
  BY DEF IInv, TypeOK, FewEnabled, Administer, CreateUpstream, UpdateUpstream, DeleteUpstream,
         marks, limiterVars
<1>1. PICK i \in Upstreams, row \in RowType : table' = [table EXCEPT ![i] = row]
  <2>1. \A e \in BOOLEAN, o \in Orders : Row(e, o) \in RowType
    BY UpstreamsAssumption DEF Row, RowType
  <2>2. ASSUME NEW i \in Upstreams, NEW order \in Orders, CreateUpstream(i, order)
        PROVE  table' = [table EXCEPT ![i] = Row(TRUE, order)]
    BY <2>2 DEF CreateUpstream
  <2>3. ASSUME NEW i \in Upstreams, NEW e \in BOOLEAN, NEW order \in Orders,
               UpdateUpstream(i, e, order)
        PROVE  table' = [table EXCEPT ![i] = Row(e, order)]
    BY <2>3 DEF UpdateUpstream
  <2>4. ASSUME NEW i \in Upstreams, DeleteUpstream(i)
        PROVE  \E row \in RowType : table' = [table EXCEPT ![i] = row]
    <3>1. table' = [table EXCEPT ![i] = [table[i] EXCEPT !.state = "gone", !.enabled = FALSE]]
      BY <1>0, <2>4 DEF DeleteUpstream
    <3>2. [table[i] EXCEPT !.state = "gone", !.enabled = FALSE] \in RowType
      BY <1>0 DEF RowType
    <3>. QED
      BY <3>1, <3>2
  <2>5. PICK i \in Upstreams :
          \/ \E order \in Orders : CreateUpstream(i, order)
          \/ \E e \in BOOLEAN, order \in Orders : UpdateUpstream(i, e, order)
          \/ DeleteUpstream(i)
    BY DEF Administer
  <2>6. \E row \in RowType : table' = [table EXCEPT ![i] = row]
    <3>1. CASE \E order \in Orders : CreateUpstream(i, order)
      <4>1. PICK order \in Orders : CreateUpstream(i, order)
        BY <3>1
      <4>. QED
        BY <2>1, <2>2, <4>1
    <3>2. CASE \E e \in BOOLEAN, order \in Orders : UpdateUpstream(i, e, order)
      <4>1. PICK e \in BOOLEAN, order \in Orders : UpdateUpstream(i, e, order)
        BY <3>2
      <4>. QED
        BY <2>1, <2>3, <4>1
    <3>. QED
      BY <2>4, <2>5, <3>1, <3>2
  <2>. QED
    BY <2>6
<1>2. table' \in [Upstreams -> RowType]
  BY <1>0, <1>1
<1>3. FewEnabled'
  <2>. DEFINE S == {j \in Upstreams : table[j].enabled}
              T == {j \in Upstreams : table'[j].enabled}
  <2>1. T \in SUBSET (S \cup {i})
    BY <1>0, <1>1
  <2>2. IsFiniteSet(S \cup {i})
    BY <1>0, FS_AddElement
  <2>3. IsFiniteSet(T)
    BY <2>1, <2>2, FS_Subset
  <2>. QED
    BY <2>3 DEF FewEnabled
<1>4. TypeOK'
  BY <1>0, <1>2 DEF TypeOK
<1>. QED
  BY <1>0, <1>3, <1>4 DEF IInv, LimiterInv, BreakerInv, CallsInv

\* The limiter stays in order when gc takes entries away.
LEMMA CollectStep ==
    ASSUME IInv, CollectEntries
    PROVE  IInv'
<1>0. /\ TypeOK /\ now \in Nat /\ entries \in [Keys -> [start : Nat, count : Nat]]
      /\ UNCHANGED <<now, passed, table, refused, breakers, failures, lastFailed, call>>
      /\ entries' = [k \in Keys |-> IF Outdated(k) THEN NoEntry ELSE entries[k]]
  BY DEF IInv, TypeOK, CollectEntries, Gc, upstreamVars
<1>1. entries' \in [Keys -> [start : Nat, count : Nat]]
  <2>1. NoEntry \in [start : Nat, count : Nat]
    BY DEF NoEntry
  <2>. QED
    BY <1>0, <2>1
<1>2. ASSUME NEW k \in Keys
      PROVE  KeyFits(passed[k], entries'[k], Limit[k], Window[k], now)
  <2>1. /\ entries[k] \in EntryType /\ passed[k] \in Histories
        /\ KeyFits(passed[k], entries[k], Limit[k], Window[k], now)
        /\ Limit[k] \in Nat \ {0} /\ Window[k] \in Nat \ {0} /\ Window[k] <= KeepFor
        /\ KeepFor \in Nat
    BY <1>0, LimiterAssumption DEF TypeOK, EntryType, Histories, IInv, LimiterInv
  <2>2. CASE Outdated(k)
    <3>1. entries[k].count > 0 /\ entries[k].start < now - KeepFor
      BY <2>2 DEF Outdated
    <3>2. entries[k].start \in Nat
      BY <2>1 DEF EntryType
    <3>3. entries[k].start + Window[k] <= now
      BY <1>0, <2>1, <3>1, <3>2
    <3>4. entries'[k] = NoEntry
      BY <1>0, <2>2
    <3>. QED
      BY <1>0, <2>1, <3>1, <3>3, <3>4, KeyForgotten
  <2>3. CASE ~Outdated(k)
    BY <1>0, <2>1, <2>3
  <2>. QED
    BY <2>2, <2>3
<1>3. TypeOK'
  BY <1>0, <1>1 DEF TypeOK
<1>. QED
  BY <1>0, <1>2, <1>3 DEF IInv, LimiterInv, BreakerInv, CallsInv, FewEnabled

\* Time passes for windows, breakers and calls.
LEMMA TimeStep ==
    ASSUME IInv, TimePasses
    PROVE  IInv'
<1>0. /\ TypeOK /\ now \in Nat /\ now' = now + 1
      /\ UNCHANGED <<entries, passed, table, refused, breakers, failures, lastFailed, call>>
  BY DEF IInv, TypeOK, TimePasses, Tick, limiterVars, upstreamVars
<1>1. now' \in Nat /\ now <= now'
  BY <1>0
<1>2. TypeOK'
  BY <1>0, <1>1 DEF TypeOK
<1>3. LimiterInv'
  <2>1. ASSUME NEW k \in Keys
        PROVE  KeyFits(passed[k], entries[k], Limit[k], Window[k], now + 1)
    <3>1. /\ entries[k] \in EntryType /\ passed[k] \in Histories
          /\ KeyFits(passed[k], entries[k], Limit[k], Window[k], now)
          /\ Limit[k] \in Nat \ {0} /\ Window[k] \in Nat \ {0}
      BY <1>0, LimiterAssumption DEF TypeOK, EntryType, Histories, IInv, LimiterInv
    <3>. QED
      BY <1>0, <3>1, KeyLater
  <2>. QED
    BY <1>0, <2>1 DEF LimiterInv
<1>4. BreakerInv'
  <2>1. \A i \in Upstreams : lastFailed[i] \in Int /\ lastFailed[i] <= now
    BY <1>0 DEF IInv, BreakerInv, TypeOK
  <2>2. \A i \in Upstreams : lastFailed[i] <= now'
    BY <1>0, <1>1, <2>1
  <2>. QED
    BY <1>0, <2>2 DEF IInv, BreakerInv
<1>5. CallsInv'
  <2>1. lastFailed \in [Upstreams -> Int] /\ \A i \in Upstreams : lastFailed[i] <= lastFailed[i]
    BY <1>0 DEF TypeOK
  <2>2. ASSUME NEW h \in Handlers
        PROVE  CallFits(call[h], lastFailed, now')
    <3>1. call[h] \in CallType /\ CallFits(call[h], lastFailed, now)
      BY <1>0 DEF TypeOK, IInv, CallsInv
    <3>. QED
      BY <1>0, <1>1, <2>1, <3>1, CallStands
  <2>. QED
    BY <1>0, <2>2 DEF CallsInv
<1>6. FewEnabled'
  BY <1>0 DEF IInv, FewEnabled
<1>. QED
  BY <1>2, <1>3, <1>4, <1>5, <1>6 DEF IInv

\* A call that moves keeps everything in order.
LEMMA MovesStep ==
    ASSUME IInv, NEW h \in Handlers, CallMoves(h), UNCHANGED <<now, entries, passed, table>>,
           refused' = [refused EXCEPT ![h] = NoKey] \/ refused' = refused
    PROVE  IInv'
<1>1. /\ call' \in [Handlers -> CallType] /\ CallsInv'
      /\ MarksOK' /\ BreakerInv'
  BY CallMovesStep, BreakerMovesStep
<1>2. refused' \in [Handlers -> Keys \cup {NoKey}]
  BY DEF IInv, TypeOK
<1>3. TypeOK'
  BY <1>1, <1>2 DEF IInv, TypeOK, MarksOK
<1>. QED
  BY <1>1, <1>3 DEF IInv, LimiterInv, FewEnabled

\* The invariant holds at the start.
LEMMA InvInit ==
    ASSUME Init
    PROVE  IInv
<1>0. /\ now = 0 /\ entries = [k \in Keys |-> NoEntry] /\ passed = [k \in Keys |-> <<>>]
      /\ breakers = [i \in Upstreams |-> NoBreaker] /\ call = [h \in Handlers |-> NoCall]
      /\ failures = [i \in Upstreams |-> <<>>] /\ lastFailed = [i \in Upstreams |-> -1]
      /\ refused = [h \in Handlers |-> NoKey]
  BY DEF Init, LimiterInit, UpstreamsInit
<1>1. PICK n \in Upstreams : table = [i \in Upstreams |-> IF i <= n THEN Row(TRUE, 0) ELSE NewRow]
  BY DEF Init, UpstreamsInit
<1>2. NoCall \in CallType /\ NoEntry \in EntryType /\ NoBreaker \in [fails : Nat, until : Nat]
  BY DEF NoCall, CallType, NoEntry, EntryType, NoBreaker
<1>3. table \in [Upstreams -> RowType]
  <2>1. Row(TRUE, 0) \in RowType /\ NewRow \in RowType
    BY DEF Row, NewRow, RowType
  <2>. QED
    BY <1>1, <2>1
<1>4. TypeOK
  BY <1>0, <1>2, <1>3 DEF TypeOK, EntryType
<1>5. LimiterInv
  <2>1. ASSUME NEW k \in Keys
        PROVE  KeyFits(<<>>, NoEntry, Limit[k], Window[k], 0)
    <3>1. Limit[k] \in Nat \ {0} /\ Lag \in Nat /\ Len(<<>>) = 0
      BY LimiterAssumption
    <3>2. /\ \A m \in 1 .. 0 : FALSE
          /\ \A m \in 1 .. 0 - 0 - Limit[k] : FALSE
          /\ \A m \in 1 .. 0 - 2 * Limit[k] : FALSE
      BY <3>1
    <3>3. NoEntry.count = 0 /\ NoEntry.start = 0
      BY DEF NoEntry
    <3>4. InTime(<<>>, 0) /\ Spread(<<>>, Limit[k], Window[k])
      BY <3>1, <3>2 DEF InTime, Spread
    <3>5. CountedLast(<<>>, NoEntry, Limit[k])
      BY <3>1, <3>3 DEF CountedLast
    <3>6. OlderApart(<<>>, NoEntry, Limit[k], Window[k], 0)
      BY <3>1, <3>2, <3>3 DEF OlderApart
    <3>. QED
      BY <3>4, <3>5, <3>6 DEF KeyFits
  <2>. QED
    BY <1>0, <2>1 DEF LimiterInv
<1>6. BreakerInv
  <2>1. Rounds(NoBreaker, <<>>, 0)
    BY UpstreamsAssumption DEF Rounds, NoBreaker
  <2>2. NoBreaker.until = 0
    BY DEF NoBreaker
  <2>. QED
    BY <1>0, <2>1, <2>2 DEF BreakerInv
<1>7. CallsInv
  <2>1. NoCall.left = NoCall.listed /\ NoCall.at # "waiting" /\ NoCall.began <= 0
    BY DEF NoCall
  <2>2. CallFits(NoCall, lastFailed, 0)
    BY <1>2, <2>1, CallBegins
  <2>. QED
    BY <1>0, <2>2 DEF CallsInv
<1>8. FewEnabled
  <2>. DEFINE S == {i \in Upstreams : table[i].enabled}
  <2>1. S \in SUBSET Nat /\ n \in Nat
    BY UpstreamsAssumption
  <2>2. \A i \in S : i <= n
    BY <1>1 DEF NewRow
  <2>3. IsFiniteSet(S)
    BY <2>1, <2>2, FS_BoundedSetOfNaturals
  <2>. QED
    BY <2>3 DEF FewEnabled
<1>. QED
  BY <1>4, <1>5, <1>6, <1>7, <1>8 DEF IInv

\* No step breaks the invariant.
LEMMA InvStep ==
    ASSUME IInv, [Next]_vars
    PROVE  IInv'
<1>1. CASE UNCHANGED vars
  BY <1>1 DEF vars, limiterVars, upstreamVars, IInv, TypeOK, LimiterInv, BreakerInv, CallsInv,
              FewEnabled
<1>. QED
  BY <1>1, StepCases, JudgesStep, MovesStep, AdministerStep, CollectStep, TimeStep

-----------------------------------------------------------------------------
\* The theorems

\* The state of the limiter, the breakers and the calls keeps its types and shape.
THEOREM Invariance == Spec => []IInv
<1>. QED
  BY InvInit, InvStep, PTL DEF Spec

\* Fixed windows (AllowAll) let at most two limits through in any time of one window's
\* length, less the age of the clock that was read before the lock.
THEOREM LimitsHold == Spec => []LimitHolds
<1>1. ASSUME IInv, NEW k \in Keys, NEW t \in 0 .. now
      PROVE  PassedIn(k, t, t + Window[k] - Lag - 1) <= 2 * Limit[k]
  <2>1. /\ passed[k] \in Histories /\ Limit[k] \in Nat \ {0} /\ Window[k] \in Nat \ {0}
        /\ t \in Nat /\ now \in Nat
    BY <1>1, LimiterAssumption DEF IInv, TypeOK, Histories
  <2>2. InTime(passed[k], now) /\ Spread(passed[k], Limit[k], Window[k])
    BY <1>1 DEF IInv, LimiterInv, KeyFits
  <2>. QED
    BY <2>1, <2>2, KeyHolds DEF PassedIn
<1>2. IInv => LimitHolds
  BY <1>1 DEF LimitHolds
<1>. QED
  BY <1>2, Invariance, PTL

\* Allow and AllowAll refuse a request for a key only if as many requests as its limit
\* were let through within its window: what was refused has used up nothing.
THEOREM NeverRefusedWrongly == Spec => RefusedRightly
<1>1. ASSUME IInv, [Next]_vars, NEW h \in Handlers, refused'[h] # refused[h], refused'[h] # NoKey
      PROVE  LET k == refused'[h]
             IN  PassedIn(k, now - Lag - Window[k] + 1, now) >= Limit[k]
  <2>1. /\ refused \in [Handlers -> Keys \cup {NoKey}] /\ now \in Nat
        /\ entries \in [Keys -> EntryType] /\ passed \in [Keys -> Histories]
    BY <1>1 DEF IInv, TypeOK, EntryType, Histories
  <2>2. ASSUME NEW g \in Handlers, refused' = [refused EXCEPT ![g] = NoKey] \/ refused' = refused
        PROVE  FALSE
    BY <1>1, <2>1, <2>2
  <2>3. ~(refused' = refused)
    BY <1>1
  <2>4. PICK g \in Handlers : Judges(g)
    <3>1. ~Administer /\ ~CollectEntries /\ ~TimePasses /\ ~UNCHANGED vars
      BY <2>3 DEF Administer, CollectEntries, TimePasses, vars
    <3>. QED
      BY <1>1, <2>2, <3>1, StepCases
  <2>5. PICK rules \in Seq(Keys), at \in 0 .. now :
          at >= now - Lag /\ Judge(g, rules, at)
    BY <2>4 DEF Judges
  <2>6. PICK i : i = FirstExceeded(rules, at)
    OBVIOUS
  <2>7. refused' = [refused EXCEPT ![g] = IF i = 0 THEN NoKey ELSE rules[i]]
    BY <2>5, <2>6 DEF Judge
  <2>8. g = h /\ i # 0 /\ refused'[h] = rules[i]
    BY <1>1, <2>1, <2>7
  <2>9. i \in 1 .. Len(rules) /\ Exceeded(rules[i], at)
    BY <2>6, <2>8, FirstIsExceeded
  <2>10. PICK k \in Keys : k = rules[i]
    BY <2>9
  <2>11. /\ entries[k].count > 0 /\ at - entries[k].start < Window[k]
         /\ entries[k].count >= Limit[k]
    BY <2>9, <2>10 DEF Exceeded, Running
  <2>12. /\ entries[k] \in EntryType /\ passed[k] \in Histories
         /\ KeyFits(passed[k], entries[k], Limit[k], Window[k], now)
         /\ Limit[k] \in Nat \ {0} /\ Window[k] \in Nat \ {0}
    BY <1>1, <2>1, LimiterAssumption DEF IInv, LimiterInv
  <2>13. PassedIn(k, now - Lag - Window[k] + 1, now) >= Limit[k]
    <3>1. at \in 0 .. now /\ at >= now - Lag /\ now \in Nat
      BY <2>1, <2>5
    <3>2. Cardinality({n \in DOMAIN passed[k] : passed[k][n] \in now - Lag - Window[k] + 1 .. now})
            >= Limit[k]
      BY <2>11, <2>12, <3>1, FullWindow
    <3>. QED
      BY <3>2 DEF PassedIn
  <2>. QED
    BY <2>8, <2>10, <2>13
<1>2. IInv /\ [Next]_vars =>
        [\A h \in Handlers :
            refused'[h] # refused[h] /\ refused'[h] # NoKey =>
               LET k == refused'[h]
               IN  PassedIn(k, now - Lag - Window[k] + 1, now) >= Limit[k]]_vars
  BY <1>1
<1>. QED
  BY <1>2, Invariance, PTL DEF Spec, RefusedRightly

\* An upstream cools (markFail) exactly for CoolDuration after every CoolAfterFails-th
\* failure in a row, whichever calls failed and however they overlap.
THEOREM CoolingsDeserved == Spec => []CoolingIsDeserved
<1>1. ASSUME IInv, NEW i \in Upstreams
      PROVE  LET rounds == Len(failures[i]) \div CoolAfterFails
             IN  Cooling(i) <=>
                   rounds > 0 /\ now < failures[i][rounds * CoolAfterFails] + CoolDuration
  <2>1. PICK q \in Nat : Rounds(breakers[i], failures[i], q)
    BY <1>1 DEF IInv, BreakerInv
  <2>2. /\ breakers[i] \in [fails : Nat, until : Nat] /\ failures[i] \in Histories /\ now \in Nat
    BY <1>1 DEF IInv, TypeOK, Histories
  <2>3. Len(failures[i]) \div CoolAfterFails = q
    BY <2>1, <2>2, RoundsOf
  <2>4. breakers[i].until = IF q = 0 THEN 0 ELSE failures[i][q * CoolAfterFails] + CoolDuration
    BY <2>1 DEF Rounds
  <2>5. CASE q = 0
    <3>1. breakers[i].until = 0 /\ ~(q > 0)
      BY <2>4, <2>5
    <3>2. ~(now < 0)
      BY <2>2
    <3>. QED
      BY <2>3, <3>1, <3>2 DEF Cooling
  <2>6. CASE q # 0
    <3>1. breakers[i].until = failures[i][q * CoolAfterFails] + CoolDuration /\ q > 0
      BY <2>4, <2>6
    <3>. QED
      BY <2>3, <3>1, Zenon DEF Cooling
  <2>. QED
    BY <2>5, <2>6
<1>2. IInv => CoolingIsDeserved
  BY <1>1 DEF CoolingIsDeserved
<1>. QED
  BY <1>2, Invariance, PTL

\* A call passes over an upstream only if a call to it failed since it began, or less
\* than a cool-down before.
THEOREM PassedOverForFailures == Spec => []PassedOverRightly
<1>1. ASSUME IInv, NEW h \in Handlers, NEW i \in PassedOver(h)
      PROVE  lastFailed[i] >= 0 /\ lastFailed[i] > call[h].began - CoolDuration
  <2>1. PICK n \in 1 .. Len(call[h].listed) - Len(call[h].left) : i = call[h].listed[n]
    BY DEF PassedOver
  <2>2. FailedSince(lastFailed[call[h].listed[n]], call[h].began)
    BY <1>1 DEF IInv, CallsInv, CallFits
  <2>. QED
    BY <2>1, <2>2 DEF FailedSince
<1>2. IInv => PassedOverRightly
  BY <1>1 DEF PassedOverRightly
<1>. QED
  BY <1>2, Invariance, PTL
=============================================================================
