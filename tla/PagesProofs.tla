----------------------------- MODULE PagesProofs -----------------------------
(***************************************************************************)
(* The rate limiter and the walk through the pages behind it, for every    *)
(* number of callers and orders, every limit, window, delay and page size. *)
(***************************************************************************)
EXTENDS Pages, Induction, SequenceTheorems

-----------------------------------------------------------------------------
(* The rate limiter.                                                       *)

RateStep ==
  \/ \E c \in Callers : Send(c) \/ Allow(c) \/ Refuse(c) \/ LetThrough(c)
  \/ Tick

\* The hits that count, and how late the script can be with a stamp.
StampsHold ==
  /\ IsFiniteSet(hits)
  /\ \A g \in hits : g.time \in Nat /\ g.time <= now
  /\ \A c \in Callers :
       at[c] = "guard" => stamp[c] <= now /\ now <= stamp[c] + MaxDelay

\* Redis forgets a hit only when its window has passed: the script drops it
\* by the score, the key expires a window after the last hit that was let in.
ForgottenInTime ==
  /\ \A g \in hits : g \in bucket \/ g.time + Window <= now
  /\ \A g \in bucket : g.time + Window <= expires

\* The counted hits of a span.
Span(t) == {h \in hits : h.time >= t /\ h.time < t + Window - MaxDelay}

RateInv == RateTypeOK /\ StampsHold /\ ForgottenInTime /\ LimitHolds

LEMMA RateStart == RateInit => RateInv
<1> SUFFICES ASSUME RateInit PROVE RateInv
  OBVIOUS
<1>1. RateTypeOK
  BY RateAssumption DEF RateInit, RateTypeOK
<1>2. StampsHold /\ ForgottenInTime
  BY FS_EmptySet DEF RateInit, StampsHold, ForgottenInTime
<1>3. LimitHolds
  <2>1. \A t \in 0..MaxTime : Span(t) = {}
    BY DEF RateInit, Span
  <2>2. QED
    BY <2>1, FS_EmptySet, RateAssumption DEF LimitHolds, Span
<1>4. QED
  BY <1>1, <1>2, <1>3 DEF RateInv

\* Nothing but Counts adds a hit.
LEMMA SameHits ==
  ASSUME RateInv, hits' = hits
  PROVE  LimitHolds'
  BY DEF RateInv, LimitHolds

LEMMA RecentFinite ==
  ASSUME RateInv, NEW c \in Callers
  PROVE  /\ Recent(c) \subseteq bucket /\ Recent(c) \subseteq hits
         /\ IsFiniteSet(Recent(c)) /\ Cardinality(Recent(c)) \in Nat
<1>1. Recent(c) \subseteq bucket /\ Recent(c) \subseteq hits
  BY DEF RateInv, RateTypeOK, Recent
<1>2. QED
  BY <1>1, FS_Subset, FS_CardinalityType DEF RateInv, StampsHold

\* A refused client is told to wait for a second at least (Retry-After in
\* rate-limit.guard.ts).
LEMMA RetryAfterType ==
  ASSUME RateInv, NEW c \in Callers, ~Room(c)
  PROVE  RetryAfter(c) \in Nat /\ RetryAfter(c) >= 1
<1> DEFINE times == {h.time : h \in Recent(c)}
           left == Min(times) + Window - stamp[c]
<1>1. Recent(c) # {}
  BY RecentFinite, FS_EmptySet, RateAssumption DEF Room
<1>2. times \in SUBSET Nat /\ times # {}
  BY <1>1, RecentFinite DEF RateInv, StampsHold
<1> HIDE DEF times
<1>3. Min(times) \in Nat
  BY <1>2, LeastNumber DEF Min
<1>4. left \in Int
  BY <1>3, RateAssumption DEF RateInv, RateTypeOK
<1> HIDE DEF left
<1>5. \E m \in {1, left} : \A y \in {1, left} : m >= y
  BY <1>4
<1>6. Max({1, left}) \in {1, left} /\ Max({1, left}) >= 1
  BY <1>5 DEF Max
<1>7. QED
  BY <1>4, <1>6 DEF RetryAfter, left, times

\* A hit is counted, whether or not the guard hears of it.
LEMMA CountsKeep ==
  ASSUME RateInv, NEW c \in Callers, at[c] = "guard", Counts(c),
         at' = [at EXCEPT ![c] = "in"], UNCHANGED <<now, stamp, wait>>,
         outages' \in 0..MaxOutages
  PROVE  RateInv'
<1> DEFINE h == [time |-> stamp[c], id |-> Cardinality(hits)]
<1>1. /\ at[c] = "guard" /\ Room(c)
      /\ bucket' = Recent(c) \union {h} /\ hits' = hits \union {h}
      /\ expires' = now + Window
      /\ at' = [at EXCEPT ![c] = "in"]
      /\ UNCHANGED <<now, stamp, wait>>
  BY DEF Counts
<1>2. /\ h.time = stamp[c] /\ stamp[c] \in Nat /\ now \in Nat
      /\ stamp[c] <= now /\ now <= stamp[c] + MaxDelay
  BY <1>1, RateAssumption DEF RateInv, RateTypeOK, StampsHold
<1> HIDE DEF h
<1>3. RateTypeOK'
  BY <1>1, <1>2, RecentFinite, RateAssumption DEF RateInv, RateTypeOK
<1>4. StampsHold'
  <2>1. IsFiniteSet(hits')
    BY <1>1, FS_AddElement DEF RateInv, StampsHold
  <2>2. \A d \in Callers : at'[d] = "guard" => at[d] = "guard"
    BY <1>1 DEF RateInv, RateTypeOK
  <2>3. QED
    BY <1>1, <1>2, <2>1, <2>2 DEF RateInv, StampsHold
<1>5. ForgottenInTime'
  <2>1. \A g \in bucket : g \in Recent(c) \/ g.time + Window <= now
    <3>1. \A g \in bucket : g.time \in Nat
      BY DEF RateInv, RateTypeOK, StampsHold
    <3>2. QED
      BY <1>2, <3>1, RateAssumption DEF Recent
  <2>2. \A g \in hits' : g \in bucket' \/ g.time + Window <= now'
    BY <1>1, <2>1 DEF RateInv, ForgottenInTime
  <2>3. \A g \in bucket' : g.time + Window <= expires'
    <3>1. \A g \in bucket' : g.time \in Nat /\ g.time <= now
      BY <1>1, <1>2, RecentFinite DEF RateInv, StampsHold
    <3>2. QED
      BY <1>1, <1>2, <3>1, RateAssumption
  <2>4. QED
    BY <2>2, <2>3 DEF ForgottenInTime
<1>6. LimitHolds'
  <2> SUFFICES ASSUME NEW t \in 0..MaxTime PROVE Cardinality(Span(t)') <= Limit
    BY <1>1 DEF LimitHolds, Span
  <2>1. Cardinality(Span(t)) <= Limit
    BY DEF RateInv, LimitHolds, Span
  <2>2. CASE h.time >= t /\ h.time < t + Window - MaxDelay
    <3>1. Span(t)' = Span(t) \union {h}
      BY <1>1, <2>2 DEF Span
    <3>2. \A g \in Span(t) : g \in Recent(c)
      <4> SUFFICES ASSUME NEW g \in Span(t) PROVE g \in Recent(c)
        OBVIOUS
      <4>1. /\ g \in hits /\ g.time \in Nat
            /\ g.time >= t /\ g.time < t + Window - MaxDelay
        BY DEF Span, RateInv, StampsHold
      <4>2. ~(g.time + Window <= now) /\ g.time > stamp[c] - Window
        BY <1>2, <2>2, <4>1, RateAssumption
      <4>3. QED
        BY <4>1, <4>2 DEF RateInv, ForgottenInTime, Recent
    <3>3. Cardinality(Span(t)) <= Cardinality(Recent(c)) /\ IsFiniteSet(Span(t))
      BY <3>2, RecentFinite, FS_Subset
    <3>4. Cardinality(Span(t)) \in Nat
      BY <3>3, FS_CardinalityType
    <3>5. Cardinality(Span(t) \union {h})
            = IF h \in Span(t) THEN Cardinality(Span(t)) ELSE Cardinality(Span(t)) + 1
      BY <3>3, FS_AddElement
    <3>6. QED
      BY <1>1, <3>1, <3>3, <3>4, <3>5, RecentFinite, RateAssumption DEF Room
  <2>3. CASE ~(h.time >= t /\ h.time < t + Window - MaxDelay)
    <3>1. Span(t)' = Span(t)
      BY <1>1, <2>3 DEF Span
    <3>2. QED
      BY <2>1, <3>1
  <2>4. QED
    BY <2>2, <2>3
<1>7. QED
  BY <1>3, <1>4, <1>5, <1>6 DEF RateInv

\* There is no room, whether or not the guard hears of it.
LEMMA FullKeeps ==
  ASSUME RateInv, NEW c \in Callers, at[c] = "guard", Full(c),
         \E s \in {"client", "in"} : at' = [at EXCEPT ![c] = s], UNCHANGED <<now, stamp>>,
         wait' \in [Callers -> Nat], outages' \in 0..MaxOutages
  PROVE  RateInv'
<1>1. RateTypeOK'
  BY RecentFinite DEF RateInv, RateTypeOK, Full
<1>2. StampsHold'
  BY DEF RateInv, RateTypeOK, StampsHold, Full
<1>3. ForgottenInTime'
  <2>1. \A g \in bucket : g \in Recent(c) \/ g.time + Window <= now
    BY RateAssumption DEF Recent, RateInv, RateTypeOK, StampsHold
  <2>2. QED
    BY <2>1, RecentFinite DEF RateInv, ForgottenInTime, Full
<1>4. LimitHolds'
  BY SameHits DEF Full
<1>5. QED
  BY <1>1, <1>2, <1>3, <1>4 DEF RateInv

LEMMA RateKeeps ==
  ASSUME RateInv, RateStep
  PROVE  RateInv'
<1>1. ASSUME NEW c \in Callers, Send(c) PROVE RateInv'
  <2>1. RateTypeOK'
    BY <1>1 DEF RateInv, RateTypeOK, Send
  <2>2. StampsHold' /\ ForgottenInTime'
    BY <1>1, RateAssumption DEF RateInv, RateTypeOK, StampsHold, ForgottenInTime, Send
  <2>3. LimitHolds'
    BY <1>1, SameHits DEF Send
  <2>4. QED
    BY <2>1, <2>2, <2>3 DEF RateInv
<1>2. ASSUME NEW c \in Callers, Allow(c) \/ Refuse(c) PROVE RateInv'
  <2>1. outages' \in 0..MaxOutages
    BY <1>2 DEF Allow, Refuse, RateInv, RateTypeOK
  <2>2. CASE Allow(c)
    BY <2>1, <2>2, CountsKeep DEF Allow
  <2>3. CASE Refuse(c)
    <3>1. wait' \in [Callers -> Nat]
      BY <2>3, RetryAfterType DEF Refuse, Full, RateInv, RateTypeOK
    <3>2. QED
      BY <2>1, <2>3, <3>1, FullKeeps DEF Refuse
  <2>4. QED
    BY <1>2, <2>2, <2>3
<1>3. ASSUME NEW c \in Callers, LetThrough(c) PROVE RateInv'
  <2>1. outages' \in 0..MaxOutages /\ wait' \in [Callers -> Nat]
    BY <1>3, RateAssumption DEF RateInv, RateTypeOK, LetThrough
  <2>2. CASE Counts(c)
    BY <1>3, <2>1, <2>2, CountsKeep DEF LetThrough
  <2>3. CASE Full(c)
    BY <1>3, <2>1, <2>3, FullKeeps DEF LetThrough
  <2>4. CASE UNCHANGED <<bucket, hits, expires>>
    <3>1. RateTypeOK'
      BY <1>3, <2>1, <2>4 DEF RateInv, RateTypeOK, LetThrough
    <3>2. StampsHold' /\ ForgottenInTime'
      BY <1>3, <2>4 DEF RateInv, RateTypeOK, StampsHold, ForgottenInTime, LetThrough
    <3>3. LimitHolds'
      BY <2>4, SameHits
    <3>4. QED
      BY <3>1, <3>2, <3>3 DEF RateInv
  <2>5. QED
    BY <1>3, <2>2, <2>3, <2>4 DEF LetThrough
<1>4. ASSUME Tick PROVE RateInv'
  <2>1. RateTypeOK'
    BY <1>4, RateAssumption DEF RateInv, RateTypeOK, Tick
  <2>2. StampsHold'
    BY <1>4, RateAssumption DEF RateInv, RateTypeOK, StampsHold, Tick
  <2>3. ForgottenInTime'
    <3>1. /\ hits' = hits /\ expires' = expires /\ now' = now + 1
          /\ now \in Nat /\ expires \in Nat
          /\ bucket' = bucket \/ (bucket' = {} /\ now + 1 >= expires)
      BY <1>4 DEF Tick, RateInv, RateTypeOK
    <3>2. \A g \in hits : g.time \in Nat
      BY DEF RateInv, StampsHold
    <3>3. QED
      BY <3>1, <3>2, RateAssumption DEF RateInv, RateTypeOK, ForgottenInTime
  <2>4. LimitHolds'
    BY <1>4, SameHits DEF Tick
  <2>5. QED
    BY <2>1, <2>2, <2>3, <2>4 DEF RateInv
<1>5. QED
  BY <1>1, <1>2, <1>3, <1>4 DEF RateStep

\* A page that is served leaves the limiter alone.
LEMMA PageKeepsRate ==
  ASSUME RateInv, NEW c \in Callers, Page(c)
  PROVE  RateInv'
<1>1. /\ at' \in [Callers -> {"client", "guard", "in", "end"}]
      /\ \A d \in Callers : at'[d] = "guard" => at[d] = "guard"
  BY DEF Page, RateInv, RateTypeOK
<1>2. UNCHANGED <<now, bucket, expires, stamp, wait, outages, hits>>
  BY DEF Page
<1>3. QED
  BY <1>1, <1>2 DEF RateInv, RateTypeOK, StampsHold, ForgottenInTime, LimitHolds

LEMMA SameRate ==
  ASSUME RateInv, UNCHANGED rateVars
  PROVE  RateInv'
  BY DEF RateInv, RateTypeOK, StampsHold, ForgottenInTime, LimitHolds, rateVars

\* However late the script runs after the stamp, and although the key
\* expires, no span of the window less the delay has more counted hits than
\* the limit (rate-limiter.ts:15-25).
THEOREM LimitIsKept == Spec => []LimitHolds
<1>1. Init => RateInv
  BY RateStart DEF Init
<1>2. RateInv /\ [Next]_vars => RateInv'
  BY RateKeeps, PageKeepsRate, SameRate
  DEF Next, RateStep, vars, Insert, Commit
<1>3. RateInv => LimitHolds
  BY DEF RateInv
<1>4. QED
  BY <1>1, <1>2, <1>3, PTL DEF Spec

-----------------------------------------------------------------------------
(* The walk.                                                               *)

PageTypeOK ==
  /\ committed \subseteq Ids
  /\ IsFiniteSet(committed)
  /\ cursor \in [Callers -> Int]
  /\ list \in [Callers -> Seq(Ids)]
  /\ due \in [Callers -> SUBSET Ids]
  /\ at \in [Callers -> {"client", "guard", "in", "end"}]

Listed(c, id) == \E i \in 1..Len(list[c]) : list[c][i] = id

\* Where the walk of c stands: up to its cursor it has been given all that it
\* had to be given, in order, and nothing beyond; at its end it has it all.
Walked(c) ==
  /\ \A i, j \in 1..Len(list[c]) : i < j => list[c][i] < list[c][j]
  /\ \A i \in 1..Len(list[c]) : MayRead(c, list[c][i])
  /\ \A id \in due[c] : id \in committed /\ MayRead(c, id)
  /\ at[c] # "end" =>
       /\ \A i \in 1..Len(list[c]) : list[c][i] <= Decoded(cursor[c])
       /\ \A id \in due[c] : id <= Decoded(cursor[c]) => Listed(c, id)
  /\ at[c] = "end" => \A id \in due[c] : Listed(c, id)

WalkInv == PageTypeOK /\ \A c \in Callers : Walked(c)

\* What one page gives of the orders that were found: the first ones in order,
\* all of them when there is no next page (buildPage in pagination.ts).
LEMMA PageIsPrefix ==
  ASSUME PageTypeOK, NEW c \in Callers
  PROVE  LET items == Items(Rows(c)) IN
         /\ items \in Seq(Ids)
         /\ \A i \in 1..Len(items) : items[i] \in Found(c)
         /\ \A i, j \in 1..Len(items) : i < j => items[i] < items[j]
         /\ HasMore(Rows(c)) =>
              /\ Len(items) \in Nat \ {0}
              /\ NextCursor(Rows(c)) = items[Len(items)]
              /\ \A id \in Found(c) :
                   id <= items[Len(items)] => \E i \in 1..Len(items) : items[i] = id
         /\ ~HasMore(Rows(c)) =>
              \A id \in Found(c) : \E i \in 1..Len(items) : items[i] = id
<1> DEFINE F == Found(c)
           n == Cardinality(F)
           s == OrderById(F)
           k == IF n <= PageLimit THEN n ELSE PageLimit
           m == Min({Len(s), PageLimit + 1})
           items == Items(Rows(c))
<1>1. F \in SUBSET Ids /\ F \in SUBSET Nat /\ IsFiniteSet(F)
  BY FS_Subset, PagesAssumption DEF PageTypeOK, Found
<1>2. n \in Nat /\ PageLimit \in Nat \ {0} /\ k \in Nat
  BY <1>1, FS_CardinalityType, PagesAssumption
<1>3. s \in [1..n -> F] /\ \A i, j \in DOMAIN s : i < j => s[i] < s[j]
  <2> HIDE DEF F
  <2>1. QED
    BY <1>1, Sortable DEF OrderById
<1>4. \A id \in F : \E i \in 1..n : s[i] = id
  <2> HIDE DEF F, s
  <2>1. \A id \in F : \E i \in DOMAIN s : s[i] = id
    BY <1>1, <1>3, SortedIsComplete
  <2>2. QED
    BY <1>3, <2>1
<1> HIDE DEF F
<1>5. Rows(c) = SubSeq(s, 1, m)
  BY DEF Rows, F
<1> HIDE DEF n, s
<1>6. s \in Seq(Ids) /\ Len(s) = n
  <2>1. s \in Seq(F)
    BY <1>2, <1>3, SeqDef
  <2>2. Len(s) = n
    BY <1>2, <1>3, <2>1, LenProperties
  <2>3. QED
    BY <1>1, <2>1, <2>2, SeqMonotonic
<1>7. m = IF n <= PageLimit THEN n ELSE PageLimit + 1
  BY <1>2, <1>6 DEF Min
<1> HIDE DEF m
<1>8. /\ Rows(c) \in Seq(Ids) /\ Len(Rows(c)) = m
      /\ \A i \in 1..m : Rows(c)[i] = s[i]
  <2>1. \A i \in 1..m : s[i] \in Ids
    BY <1>2, <1>6, <1>7, ElementOfSeq
  <2>2. m \in Nat
    BY <1>2, <1>7
  <2>3. /\ SubSeq(s, 1, m) \in Seq(Ids)
        /\ Len(SubSeq(s, 1, m)) = IF 1 <= m THEN m - 1 + 1 ELSE 0
        /\ \A i \in 1..(m - 1 + 1) : SubSeq(s, 1, m)[i] = s[1 + i - 1]
    BY <2>1, <2>2, SubSeqProperties
  <2>4. QED
    BY <1>5, <2>2, <2>3
<1>9. HasMore(Rows(c)) <=> n > PageLimit
  BY <1>2, <1>7, <1>8 DEF HasMore
<1>10. items \in Seq(Ids) /\ Len(items) = k /\ \A i \in 1..k : items[i] = s[i]
  <2>1. CASE n > PageLimit
    <3>1. items = SubSeq(Rows(c), 1, PageLimit) /\ k = PageLimit
      BY <1>2, <1>9, <2>1 DEF Items
    <3>2. \A i \in 1..PageLimit : Rows(c)[i] = s[i] /\ Rows(c)[i] \in Ids
      BY <1>2, <1>7, <1>8, <2>1, ElementOfSeq
    <3>3. /\ SubSeq(Rows(c), 1, PageLimit) \in Seq(Ids)
          /\ Len(SubSeq(Rows(c), 1, PageLimit))
               = IF 1 <= PageLimit THEN PageLimit - 1 + 1 ELSE 0
          /\ \A i \in 1..(PageLimit - 1 + 1) :
               SubSeq(Rows(c), 1, PageLimit)[i] = Rows(c)[1 + i - 1]
      BY <1>2, <3>2, SubSeqProperties
    <3>4. QED
      BY <1>2, <3>1, <3>2, <3>3
  <2>2. CASE ~(n > PageLimit)
    <3>1. items = Rows(c) /\ k = n /\ m = n
      BY <1>2, <1>7, <1>9, <2>2 DEF Items
    <3>2. QED
      BY <1>8, <3>1
  <2>3. QED
    BY <2>1, <2>2
<1> HIDE DEF items
<1>11. \A i \in 1..k : i \in 1..n /\ s[i] \in F /\ s[i] \in Nat
  <2>1. \A i \in 1..k : i \in 1..n
    BY <1>2
  <2> HIDE DEF k
  <2>2. QED
    BY <1>1, <1>3, <2>1
<1>12. ASSUME n > PageLimit
       PROVE  /\ k \in Nat \ {0}
              /\ NextCursor(Rows(c)) = items[k]
              /\ \A id \in F : id <= items[k] => \E i \in 1..k : items[i] = id
  <2>1. k = PageLimit /\ k \in 1..k
    BY <1>2, <1>12
  <2>2. NextCursor(Rows(c)) = items[k]
    BY <1>10 DEF NextCursor, Last, items
  <2>3. ASSUME NEW id \in F, id <= items[k] PROVE \E i \in 1..k : items[i] = id
    <3>1. PICK i \in 1..n : s[i] = id
      BY <1>4
    <3>2. items[k] = s[k] /\ s[k] \in Nat /\ s[i] \in Nat /\ k \in 1..n
      BY <1>1, <1>3, <1>10, <1>11, <2>1, <3>1
    <3>3. ~(k < i)
      BY <1>3, <2>3, <3>1, <3>2
    <3>4. i \in 1..k
      BY <1>2, <3>3
    <3>5. QED
      BY <1>10, <3>1, <3>4
  <2>4. QED
    BY <1>2, <2>1, <2>2, <2>3
<1>13. ASSUME ~(n > PageLimit)
       PROVE  \A id \in F : \E i \in 1..k : items[i] = id
  <2>1. k = n
    BY <1>2, <1>13
  <2>2. QED
    BY <1>4, <1>10, <2>1
<1> HIDE DEF k
<1>14. \A i, j \in 1..k : i < j => items[i] < items[j]
  BY <1>3, <1>10, <1>11
<1>15. \A i \in 1..k : items[i] \in F
  BY <1>10, <1>11
<1>16. QED
  BY <1>9, <1>10, <1>12, <1>13, <1>14, <1>15 DEF items, F

\* A page takes the walk of its caller on.
LEMMA PageWalks ==
  ASSUME WalkInv, NEW c \in Callers, Page(c)
  PROVE  WalkInv'
<1> DEFINE items == Items(Rows(c))
           D == Decoded(cursor[c])
           old == list[c]
           new == list'[c]
<1>1. PageTypeOK /\ Walked(c)
  BY DEF WalkInv
<1>2. /\ at[c] = "in" /\ list' = [list EXCEPT ![c] = old \o items]
      /\ due' = IF D = 0 THEN [due EXCEPT ![c] = {id \in committed : MayRead(c, id)}]
                         ELSE due
      /\ committed' = committed
  BY DEF Page
<1>3. \/ /\ HasMore(Rows(c))
         /\ cursor' = [cursor EXCEPT ![c] = NextCursor(Rows(c))]
         /\ at' = [at EXCEPT ![c] = "client"]
      \/ /\ ~HasMore(Rows(c))
         /\ cursor' = cursor /\ at' = [at EXCEPT ![c] = "end"]
  BY DEF Page
<1>4. /\ items \in Seq(Ids) /\ Len(items) \in Nat
      /\ \A i \in 1..Len(items) : items[i] \in Found(c)
      /\ \A i, j \in 1..Len(items) : i < j => items[i] < items[j]
  BY <1>1, PageIsPrefix
<1>5. HasMore(Rows(c)) =>
        /\ Len(items) \in Nat \ {0}
        /\ NextCursor(Rows(c)) = items[Len(items)]
        /\ \A id \in Found(c) :
             id <= items[Len(items)] => \E i \in 1..Len(items) : items[i] = id
  BY <1>1, PageIsPrefix
<1>6. ~HasMore(Rows(c)) => \A id \in Found(c) : \E i \in 1..Len(items) : items[i] = id
  BY <1>1, PageIsPrefix
<1> HIDE DEF items
<1>7. /\ old \in Seq(Ids) /\ Len(old) \in Nat /\ new = old \o items
      /\ new \in Seq(Ids) /\ Len(new) = Len(old) + Len(items)
      /\ \A i \in 1..Len(old) : new[i] = old[i]
      /\ \A i \in 1..Len(items) : new[Len(old) + i] = items[i]
  <2>1. old \in Seq(Ids) /\ Len(old) \in Nat /\ new = old \o items
    BY <1>1, <1>2 DEF PageTypeOK
  <2> HIDE DEF old, new
  <2>2. /\ old \o items \in Seq(Ids) /\ Len(old \o items) = Len(old) + Len(items)
        /\ \A i \in 1..(Len(old) + Len(items)) : (old \o items)[i] =
             IF i <= Len(old) THEN old[i] ELSE items[i - Len(old)]
    BY <1>4, <2>1, ConcatProperties
  <2>3. QED
    BY <1>4, <2>1, <2>2
<1>8. /\ D \in Nat
      /\ \A i \in 1..Len(old) : old[i] \in Nat \ {0} /\ old[i] <= D /\ MayRead(c, old[i])
      /\ \A i, j \in 1..Len(old) : i < j => old[i] < old[j]
      /\ \A id \in due[c] : id <= D => \E i \in 1..Len(old) : old[i] = id
  <2>1. D \in Nat
    BY <1>1 DEF PageTypeOK, Decoded
  <2>2. \A i \in 1..Len(old) : old[i] \in Nat \ {0}
    <3>1. \A i \in 1..Len(old) : old[i] \in Ids
      BY <1>7, ElementOfSeq
    <3>2. QED
      BY <3>1, PagesAssumption
  <2>3. QED
    BY <1>1, <1>2, <2>1, <2>2 DEF Walked, Listed
<1>9. \A i \in 1..Len(items) :
        items[i] \in Nat /\ items[i] > D /\ items[i] \in committed /\ MayRead(c, items[i])
  BY <1>1, <1>4, PagesAssumption DEF Found, PageTypeOK
<1>10. \A id \in due'[c] : id \in committed /\ MayRead(c, id)
  BY <1>1, <1>2 DEF Walked, PageTypeOK
<1> HIDE DEF old, new
<1>11. \A id \in due'[c] : id \in Nat \ {0}
  BY <1>1, <1>10, PagesAssumption DEF PageTypeOK
<1>12. \A id \in due'[c] : id <= D => \E i \in 1..Len(old) : old[i] = id
  <2>1. CASE D = 0
    BY <1>11, <2>1
  <2>2. CASE D # 0
    BY <1>2, <1>8, <2>2
  <2>3. QED
    BY <2>1, <2>2
<1>13. \A id \in due'[c] : ~(id <= D) => id \in Found(c)
  BY <1>8, <1>10, <1>11 DEF Found
<1>14. PageTypeOK'
  <2>1. cursor' \in [Callers -> Int]
    <3>1. HasMore(Rows(c)) => NextCursor(Rows(c)) \in Int
      BY <1>5, <1>9
    <3>2. QED
      BY <1>1, <1>3, <3>1 DEF PageTypeOK
  <2>2. list' \in [Callers -> Seq(Ids)]
    BY <1>1, <1>2, <1>7 DEF PageTypeOK, new
  <2>3. due' \in [Callers -> SUBSET Ids]
    BY <1>1, <1>2 DEF PageTypeOK
  <2>4. at' \in [Callers -> {"client", "guard", "in", "end"}]
    BY <1>1, <1>3 DEF PageTypeOK
  <2>5. QED
    BY <1>1, <1>2, <2>1, <2>2, <2>3, <2>4 DEF PageTypeOK
<1>15. \A i \in 1..Len(new) :
         \/ i \in 1..Len(old) /\ new[i] = old[i]
         \/ i - Len(old) \in 1..Len(items) /\ new[i] = items[i - Len(old)]
  <2> SUFFICES ASSUME NEW i \in 1..Len(new), ~(i \in 1..Len(old))
               PROVE  i - Len(old) \in 1..Len(items) /\ new[i] = items[i - Len(old)]
    BY <1>7
  <2>1. i - Len(old) \in 1..Len(items) /\ Len(old) + (i - Len(old)) = i
    BY <1>4, <1>7
  <2>2. QED
    BY <1>7, <2>1
<1>16. \A id : (\E i \in 1..Len(old) : old[i] = id) \/ (\E i \in 1..Len(items) : items[i] = id)
               => \E i \in 1..Len(new) : new[i] = id
  <2>1. \A i \in 1..Len(old) : i \in 1..Len(new)
    BY <1>4, <1>7
  <2>2. \A i \in 1..Len(items) : Len(old) + i \in 1..Len(new)
    BY <1>4, <1>7
  <2>3. QED
    BY <1>7, <2>1, <2>2
<1>17. Walked(c)'
  <2>1. \A i, j \in 1..Len(new) : i < j => new[i] < new[j]
    <3> HIDE DEF D
    <3> SUFFICES ASSUME NEW i \in 1..Len(new), NEW j \in 1..Len(new), i < j
                 PROVE  new[i] < new[j]
      OBVIOUS
    <3>1. CASE i \in 1..Len(old) /\ j \in 1..Len(old)
      BY <1>7, <1>8, <3>1
    <3>2. CASE i \in 1..Len(old) /\ ~(j \in 1..Len(old))
      <4>1. new[i] \in Nat /\ new[i] <= D
        BY <1>7, <1>8, <3>2
      <4>2. new[j] \in Nat /\ new[j] > D
        BY <1>9, <1>15, <3>2
      <4>3. QED
        BY <1>8, <4>1, <4>2
    <3>3. CASE ~(i \in 1..Len(old))
      <4>1. ~(j \in 1..Len(old))
        BY <1>4, <1>7, <3>3
      <4>2. /\ i - Len(old) \in 1..Len(items) /\ new[i] = items[i - Len(old)]
            /\ j - Len(old) \in 1..Len(items) /\ new[j] = items[j - Len(old)]
        BY <1>15, <3>3, <4>1
      <4>3. i - Len(old) < j - Len(old)
        BY <1>4, <1>7
      <4>4. QED
        BY <1>4, <4>2, <4>3
    <3>4. QED
      BY <3>1, <3>2, <3>3
  <2>2. \A i \in 1..Len(new) : MayRead(c, new[i])
    BY <1>8, <1>9, <1>15
  <2>3. CASE HasMore(Rows(c))
    <3> DEFINE last == items[Len(items)]
    <3>1. /\ cursor'[c] = last /\ at'[c] = "client" /\ Len(items) \in 1..Len(items)
          /\ last \in Nat /\ last > D /\ last > 0
      BY <1>1, <1>3, <1>5, <1>8, <1>9, <2>3 DEF PageTypeOK
    <3>2. Decoded(cursor'[c]) = last
      BY <3>1 DEF Decoded
    <3> HIDE DEF last
    <3>3. \A i \in 1..Len(items) : items[i] <= last
      <4>1. \A i \in 1..Len(items) : i = Len(items) \/ i < Len(items)
        BY <1>4
      <4>2. QED
        BY <1>4, <1>9, <3>1, <4>1 DEF last
    <3>4. \A i \in 1..Len(new) : new[i] <= last
      <4> HIDE DEF D
      <4>1. QED
        BY <1>8, <1>15, <3>1, <3>3
    <3>5. \A id \in due'[c] : id <= last => \E i \in 1..Len(new) : new[i] = id
      <4> HIDE DEF D
      <4>1. QED
        BY <1>5, <1>12, <1>13, <1>16, <2>3 DEF last
    <3>6. QED
      BY <1>2, <1>10, <2>1, <2>2, <3>1, <3>2, <3>4, <3>5 DEF Walked, Listed, MayRead, new
  <2>4. CASE ~HasMore(Rows(c))
    <3>1. at'[c] = "end"
      BY <1>1, <1>3, <2>4 DEF PageTypeOK
    <3>2. \A id \in due'[c] : \E i \in 1..Len(new) : new[i] = id
      <4> HIDE DEF D
      <4>1. QED
        BY <1>6, <1>12, <1>13, <1>16, <2>4
    <3>3. QED
      BY <1>2, <1>10, <2>1, <2>2, <3>1, <3>2 DEF Walked, Listed, MayRead, new
  <2>5. QED
    BY <2>3, <2>4
<1>18. ASSUME NEW d \in Callers, d # c PROVE Walked(d)'
  <2>1. /\ list'[d] = list[d] /\ due'[d] = due[d] /\ cursor'[d] = cursor[d]
        /\ at'[d] = at[d]
    BY <1>1, <1>2, <1>3, <1>18 DEF PageTypeOK
  <2>2. Walked(d)
    BY DEF WalkInv
  <2>3. \A id : Listed(d, id)' <=> Listed(d, id)
    BY <2>1 DEF Listed
  <2>4. \A id : MayRead(d, id)' <=> MayRead(d, id)
    BY DEF MayRead
  <2>5. QED
    BY <1>2, <2>1, <2>2, <2>3, <2>4 DEF Walked
<1>19. QED
  BY <1>14, <1>17, <1>18 DEF WalkInv

\* The steps that do not serve a page leave the walks where they are.
LEMMA SameWalks ==
  ASSUME WalkInv, UNCHANGED <<cursor, list, due>>,
         at' \in [Callers -> {"client", "guard", "in", "end"}],
         \A c \in Callers : at[c] = "end" <=> at'[c] = "end",
         committed' \subseteq Ids, IsFiniteSet(committed'), committed \subseteq committed'
  PROVE  WalkInv'
<1>1. PageTypeOK'
  BY DEF WalkInv, PageTypeOK
<1>2. ASSUME NEW c \in Callers PROVE Walked(c)'
  <2>1. Walked(c)
    BY DEF WalkInv
  <2>2. \A id : Listed(c, id)' <=> Listed(c, id)
    BY DEF Listed
  <2>3. \A id : MayRead(c, id)' <=> MayRead(c, id)
    BY DEF MayRead
  <2>4. QED
    BY <2>1, <2>2, <2>3 DEF Walked
<1>3. QED
  BY <1>1, <1>2 DEF WalkInv

LEMMA WalkStart == Init => WalkInv
<1> SUFFICES ASSUME Init PROVE WalkInv
  OBVIOUS
<1>1. PageTypeOK
  <2>1. <<>> \in Seq(Ids) /\ IsFiniteSet({})
    BY EmptySeq, FS_EmptySet
  <2>2. QED
    BY <2>1 DEF Init, RateInit, PageTypeOK, NoCursor, Garbage
<1>2. ASSUME NEW c \in Callers PROVE Walked(c)
  <2>1. 1..Len(list[c]) = {} /\ due[c] = {}
    BY DEF Init
  <2>2. QED
    BY <2>1 DEF Walked
<1>3. QED
  BY <1>1, <1>2 DEF WalkInv

LEMMA WalkKeeps == WalkInv /\ [Next]_vars => WalkInv'
<1> SUFFICES ASSUME WalkInv, [Next]_vars PROVE WalkInv'
  OBVIOUS
<1>1. /\ committed \subseteq Ids /\ IsFiniteSet(committed)
      /\ at \in [Callers -> {"client", "guard", "in", "end"}]
  BY DEF WalkInv, PageTypeOK
<1>2. ASSUME NEW c \in Callers, Send(c) \/ Allow(c) \/ Refuse(c) \/ LetThrough(c),
             UNCHANGED pageVars
      PROVE  WalkInv'
  <2>1. \E v \in {"client", "guard", "in"} : at' = [at EXCEPT ![c] = v]
    BY <1>2 DEF Send, Allow, Refuse, LetThrough
  <2>2. at[c] # "end"
    BY <1>2 DEF Send, Allow, Refuse, LetThrough
  <2>3. QED
    BY <1>1, <1>2, <2>1, <2>2, SameWalks DEF pageVars
<1>3. CASE Tick /\ UNCHANGED pageVars
  BY <1>1, <1>3, SameWalks DEF Tick, pageVars
<1>4. ASSUME NEW id \in Ids, Insert(id) \/ Commit(id) PROVE WalkInv'
  <2>1. committed' = committed \/ committed' = committed \union {id}
    BY <1>4 DEF Insert, Commit
  <2>2. committed' \subseteq Ids /\ IsFiniteSet(committed') /\ committed \subseteq committed'
    BY <1>1, <2>1, FS_AddElement
  <2>3. UNCHANGED <<rateVars, cursor, list, due>>
    BY <1>4 DEF Insert, Commit
  <2>4. QED
    BY <1>1, <2>2, <2>3, SameWalks DEF rateVars
<1>5. CASE UNCHANGED vars
  BY <1>1, <1>5, SameWalks DEF vars, pageVars, rateVars
<1>6. QED
  BY <1>2, <1>3, <1>4, <1>5, PageWalks DEF Next

\* A walk gives each order once, in the order of the ids, only orders of the
\* caller, and all that could be read when it began, whatever commits between
\* its pages (pagination.ts:12-22, orders.service.ts:58-72).
THEOREM WalkIsComplete == Spec => []WalkMissesNothing
<1>1. WalkInv => WalkMissesNothing
  <2> SUFFICES ASSUME WalkInv, NEW c \in Callers
               PROVE  /\ \A i, j \in DOMAIN list[c] : i < j => list[c][i] < list[c][j]
                      /\ \A i \in DOMAIN list[c] : MayRead(c, list[c][i])
                      /\ at[c] = "end" => due[c] \subseteq ToSet(list[c])
    BY DEF WalkMissesNothing
  <2>1. Walked(c) /\ list[c] \in Seq(Ids)
    BY DEF WalkInv, PageTypeOK
  <2>2. DOMAIN list[c] = 1..Len(list[c])
    BY <2>1, LenProperties
  <2>3. QED
    BY <2>1, <2>2 DEF Walked, Listed, ToSet
<1>2. QED
  BY <1>1, WalkStart, WalkKeeps, PTL DEF Spec
=============================================================================
