----------------------------- MODULE RateLimiter -----------------------------
(***************************************************************************)
(* The sliding window of one client (redis/rate-limiter.ts) behind         *)
(* RateLimitGuard.  A request is stamped with the clock of its process and *)
(* the script runs in Redis later, so stamps may come out of order; when   *)
(* Redis fails the guard lets the request through, counted or not.         *)
(***************************************************************************)
EXTENDS Integers, FiniteSets, FiniteSetsExt

CONSTANTS
  Callers,   \* who sends requests from the client's address, one at a time
  Limit,     \* RATE_LIMIT
  Window,    \* RATE_LIMIT_WINDOW_MS, in seconds
  MaxDelay,  \* bound: from the stamp to the script
  MaxTime,   \* bound: the clock
  MaxOutages \* bound: requests that Redis fails

ASSUME RateAssumption ==
  /\ Limit \in Nat \ {0}
  /\ MaxDelay \in Nat /\ MaxTime \in Nat /\ MaxOutages \in Nat
  /\ Window \in Nat /\ Window > MaxDelay

VARIABLES
  now,       \* the clock that the processes share
  bucket,    \* the sorted set: hits, [time, id]
  expires,   \* when Redis drops the key
  at,        \* at[c]: where the request of caller c is
  stamp,     \* stamp[c]: Date.now() of its guard
  wait,      \* wait[c]: when c sends its next request after a 429
  outages,
  hits       \* auxiliary: every hit that was counted

rateVars == <<now, bucket, expires, at, stamp, wait, outages, hits>>

-----------------------------------------------------------------------------

RateInit ==
  /\ now = 0
  /\ bucket = {}
  /\ expires = 0
  /\ at = [c \in Callers |-> "client"]
  /\ stamp = [c \in Callers |-> 0]
  /\ wait = [c \in Callers |-> 0]
  /\ outages = 0
  /\ hits = {}

Send(c) ==
  /\ at[c] = "client"
  /\ wait[c] <= now
  /\ at' = [at EXCEPT ![c] = "guard"]
  /\ stamp' = [stamp EXCEPT ![c] = now]
  /\ UNCHANGED <<now, bucket, expires, wait, outages, hits>>

\* ZREMRANGEBYSCORE
Recent(c) == {h \in bucket : h.time > stamp[c] - Window}

\* Bug: one too many.
RoomForOneMore(c) == Cardinality(Recent(c)) <= Limit

Room(c) == Cardinality(Recent(c)) < Limit

\* The script, when there is room: the hit counts.
Counts(c) ==
  LET h == [time |-> stamp[c], id |-> Cardinality(hits)] IN
  /\ Room(c)
  /\ bucket' = Recent(c) \union {h}
  /\ hits' = hits \union {h}
  /\ expires' = now + Window

\* The script, when there is none.
Full(c) ==
  /\ ~Room(c)
  /\ bucket' = Recent(c)
  /\ UNCHANGED <<hits, expires>>

Allow(c) ==
  /\ at[c] = "guard"
  /\ Counts(c)
  /\ at' = [at EXCEPT ![c] = "in"]
  /\ UNCHANGED <<now, stamp, wait, outages>>

\* Retry-After: until the oldest hit leaves the window, at least a second.
RetryAfter(c) ==
  Max({1, Min({h.time : h \in Recent(c)}) + Window - stamp[c]})

\* 429, and the client waits as it is told.
Refuse(c) ==
  /\ at[c] = "guard"
  /\ Full(c)
  /\ at' = [at EXCEPT ![c] = "client"]
  /\ wait' = [wait EXCEPT ![c] = now + RetryAfter(c)]
  /\ UNCHANGED <<now, stamp, outages>>

\* Redis fails, or its answer is lost when the script has run: the guard lets
\* the request through.
LetThrough(c) ==
  /\ at[c] = "guard"
  /\ outages < MaxOutages
  /\ outages' = outages + 1
  /\ at' = [at EXCEPT ![c] = "in"]
  /\ Counts(c) \/ Full(c) \/ UNCHANGED <<bucket, hits, expires>>
  /\ UNCHANGED <<now, stamp, wait>>

\* Time passes, but not past the delay of a request; the key may expire.
Tick ==
  /\ now < MaxTime
  /\ \A c \in Callers : at[c] = "guard" => now < stamp[c] + MaxDelay
  /\ now' = now + 1
  /\ bucket' = IF now + 1 >= expires THEN {} ELSE bucket
  /\ UNCHANGED <<expires, at, stamp, wait, outages, hits>>

-----------------------------------------------------------------------------

RateTypeOK ==
  /\ now \in 0..MaxTime
  /\ bucket \subseteq hits
  /\ expires \in Nat
  /\ at \in [Callers -> {"client", "guard", "in", "end"}]
  /\ stamp \in [Callers -> 0..MaxTime]
  /\ wait \in [Callers -> Nat]
  /\ outages \in 0..MaxOutages

\* However late the script sees a stamp, and although the key expires, no
\* span of Window - MaxDelay has more than Limit counted hits
\* (rate-limiter.ts:15-25; a late stamp is why it is not the whole Window).
LimitHolds ==
  \A t \in 0..MaxTime :
    Cardinality({h \in hits : h.time >= t /\ h.time < t + Window - MaxDelay}) <= Limit
=============================================================================
