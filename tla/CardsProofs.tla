----------------------------- MODULE CardsProofs -----------------------------
(***************************************************************************)
(* What holds of the product cards and of the queue for any number of      *)
(* products, requests, orders, jobs and faults.                            *)
(***************************************************************************)
EXTENDS Cards, FiniteSetTheorems, WellFoundedInduction, TLAPS

(* The invariant.                                                          *)

CacheTyped ==
  /\ db \in [Products -> Nat]
  /\ DOMAIN cache = Products
  /\ lock \in [Products -> Callers \union {NoCaller}]
  /\ DOMAIN stage = Callers
  /\ DOMAIN key = Callers
  /\ DOMAIN got = Callers
  /\ DOMAIN order = Orders
  /\ DOMAIN left = Refreshes
  /\ \A r \in Callers : stage[r] # "idle" => key[r] \in Products
  /\ \A j \in Refreshes : left[j] \subseteq DOMAIN Batch

\* A call that has a card to write has that of the database, or a change has
\* overtaken it.
LoadsAreFresh ==
  \A r \in Callers : stage[r] = "loaded" => r \in overtaken \/ got[r] = db[key[r]]

\* A call that works behind a lock has it, unless the lock has run out under it.
LocksKept ==
  \A r \in Callers : Holding(r) => (r \in outlived <=> lock[key[r]] # r)

CardsInv == CacheTyped /\ LoadsAreFresh /\ StaleForCause /\ LocksKept

\* Steps after which nobody holds more than before.
LEMMA SameLocks ==
  ASSUME LocksKept, UNCHANGED <<lock, outlived>>,
         \A q \in Callers : Holding(q)' => Holding(q) /\ key'[q] = key[q]
  PROVE  LocksKept'
  BY DEF LocksKept

LEMMA CardsStart == Init => CardsInv
<1> SUFFICES ASSUME Init PROVE CardsInv
  OBVIOUS
<1> USE DEF Init, CacheInit
<1>1. CacheTyped
  BY CacheAssumption DEF CacheTyped, NoProduct, NoCaller
<1>2. LoadsAreFresh /\ StaleForCause
  BY DEF LoadsAreFresh, StaleForCause, Cached
<1>3. LocksKept
  BY DEF LocksKept, Holding
<1>4. QED
  BY <1>1, <1>2, <1>3 DEF CardsInv

-----------------------------------------------------------------------------
(* The steps of a call.                                                    *)

\* Steps that leave database, cache and loaded cards alone, and the locks of
\* the others.
LEMMA CallMoves ==
  ASSUME CardsInv, NEW r \in Callers,
         UNCHANGED <<db, cache, got, overtaken, excused, order, left>>,
         DOMAIN stage' = Callers, DOMAIN key' = Callers,
         \A q \in Callers \ {r} : stage'[q] = stage[q] /\ key'[q] = key[q],
         stage'[r] # "loaded",
         stage'[r] # "idle" => key'[r] \in Products,
         lock' \in [Products -> Callers \union {NoCaller}],
         \A q \in Callers \ {r} : q \in outlived' <=> q \in outlived,
         \A q \in Callers \ {r} : \A k \in Products : lock'[k] = q <=> lock[k] = q,
         Holding(r)' => (r \in outlived' <=> lock'[key'[r]] # r)
  PROVE  CardsInv'
<1> USE DEF CardsInv
<1>1. CacheTyped'
  BY DEF CacheTyped
<1>2. LoadsAreFresh'
  BY DEF LoadsAreFresh
<1>3. StaleForCause'
  BY DEF StaleForCause, Cached
<1>4. LocksKept'
  <2>1. \A q \in Callers \ {r} : Holding(q)' => Holding(q) /\ key[q] \in Products
    BY DEF Holding, CacheTyped
  <2>2. QED
    BY <2>1 DEF LocksKept
<1>5. QED
  BY <1>1, <1>2, <1>3, <1>4

LEMMA CallsKeep ==
  ASSUME CardsInv, NEW r \in Callers, UNCHANGED <<order, left>>,
         \/ \E k \in Products : Call(r, k) \/ ReadFails(r, k)
         \/ TakeLock(r) \/ LockTaken(r) \/ WaitedHit(r) \/ LockFails(r) \/ PollFails(r)
         \/ LoadFails(r) \/ Release(r) \/ ReleaseFails(r)
  PROVE  CardsInv'
<1> USE DEF CardsInv, CacheTyped, Goto
<1>1. ASSUME NEW k \in Products, Call(r, k) \/ ReadFails(r, k) PROVE CardsInv'
  <2>1. /\ UNCHANGED <<db, cache, got, overtaken, excused, lock, outlived>>
        /\ key' = [key EXCEPT ![r] = k]
        /\ stage' = [stage EXCEPT ![r] = "missed"] \/ stage' = [stage EXCEPT ![r] = "returned"]
    BY <1>1 DEF Call, ReadFails
  <2>2. ~Holding(r)'
    BY <2>1 DEF Holding
  <2>3. QED
    BY <2>1, <2>2, CallMoves
<1>2. CASE LockTaken(r) \/ WaitedHit(r) \/ PollFails(r) \/ LoadFails(r)
  <2>1. /\ UNCHANGED <<db, cache, got, overtaken, excused, lock, outlived, key>>
        /\ \E s \in {"waiting", "returned", "failing", "raised"} :
             stage' = [stage EXCEPT ![r] = s] /\ (s = "failing" => stage[r] = "locked")
        /\ stage[r] # "idle"
    BY <1>2 DEF LockTaken, WaitedHit, PollFails, LoadFails
  <2>2. Holding(r)' => Holding(r) /\ stage[r] = "locked"
    BY <2>1 DEF Holding
  <2>3. Holding(r)' => (r \in outlived' <=> lock'[key'[r]] # r)
    BY <2>1, <2>2 DEF LocksKept
  <2>4. QED
    BY <2>1, <2>3, CallMoves
<1>3. CASE TakeLock(r) \/ LockFails(r)
  <2>1. /\ UNCHANGED <<db, cache, got, overtaken, excused, key>>
        /\ key[r] \in Products
        /\ \/ lock' = lock
           \/ lock[key[r]] = NoCaller /\ lock' = [lock EXCEPT ![key[r]] = r]
        /\ outlived' \in {outlived, outlived \ {r}}
        /\ \/ stage' = [stage EXCEPT ![r] = "direct"]
           \/ /\ stage' = [stage EXCEPT ![r] = "locked"]
              /\ lock' = [lock EXCEPT ![key[r]] = r] /\ r \notin outlived'
    BY <1>3 DEF TakeLock, LockFails, LockFree
  <2>2. \A q \in Callers \ {r} : \A k \in Products : lock'[k] = q <=> lock[k] = q
    BY <2>1, CardsAssumption
  <2>3. Holding(r)' => lock'[key'[r]] = r /\ r \notin outlived'
    BY <2>1 DEF Holding
  <2>4. lock' \in [Products -> Callers \union {NoCaller}]
    BY <2>1
  <2>5. QED
    BY <2>1, <2>2, <2>3, <2>4, CallMoves
<1>4. CASE Release(r) \/ ReleaseFails(r)
  <2>1. /\ UNCHANGED <<db, cache, got, overtaken, excused, outlived, key>>
        /\ lock' = lock \/ (lock[key[r]] = r /\ lock' = [lock EXCEPT ![key[r]] = NoCaller])
        /\ key[r] \in Products
        /\ stage' = [stage EXCEPT ![r] = "raised"] \/ stage' = [stage EXCEPT ![r] = "returned"]
    BY <1>4 DEF Release, ReleaseFails, OwnLock
  <2>2. ~Holding(r)'
    BY <2>1 DEF Holding
  <2>3. \A q \in Callers \ {r} : \A k \in Products : lock'[k] = q <=> lock[k] = q
    BY <2>1, CardsAssumption
  <2>4. lock' \in [Products -> Callers \union {NoCaller}]
    BY <2>1
  <2>5. QED
    BY <2>1, <2>2, <2>3, <2>4, CallMoves
<1>5. QED
  BY <1>1, <1>2, <1>3, <1>4

LEMMA LoadsKeep ==
  ASSUME CardsInv, NEW r \in Callers, UNCHANGED <<order, left>>,
         Load(r) \/ Write(r) \/ WriteFails(r)
  PROVE  CardsInv'
<1> USE DEF CardsInv, CacheTyped, Goto, Forget
<1>1. CASE Load(r)
  <2>1. /\ UNCHANGED <<db, cache, lock, outlived, key, overtaken, excused>>
        /\ \/ /\ stage[r] = "locked" /\ stage' = [stage EXCEPT ![r] = "loaded"]
              /\ got' = [got EXCEPT ![r] = db[key[r]]]
           \/ stage[r] # "idle" /\ stage' = [stage EXCEPT ![r] = "returned"] /\ got' = got
    BY <1>1 DEF Load
  <2>2. CacheTyped'
    BY <2>1
  <2>3. LoadsAreFresh'
    BY <2>1 DEF LoadsAreFresh
  <2>4. StaleForCause'
    BY <2>1 DEF StaleForCause, Cached
  <2>5. \A q \in Callers : Holding(q)' => Holding(q) /\ key'[q] = key[q]
    BY <2>1 DEF Holding
  <2>6. QED
    BY <2>1, <2>2, <2>3, <2>4, <2>5, SameLocks
<1>2. CASE Write(r) \/ WriteFails(r)
  <2>1. /\ UNCHANGED <<db, lock, outlived, key>>
        /\ stage[r] = "loaded" /\ key[r] \in Products
        /\ stage' = [stage EXCEPT ![r] = "releasing"]
        /\ got' = [got EXCEPT ![r] = Miss] /\ overtaken' = overtaken \ {r}
        /\ \/ UNCHANGED <<cache, excused>>
           \/ /\ cache' = [cache EXCEPT ![key[r]] = got[r]]
              /\ excused' = IF r \in overtaken THEN excused \union {key[r]} ELSE excused \ {key[r]}
    BY <1>2 DEF Write, WriteFails
  <2>2. CacheTyped'
    BY <2>1
  <2>3. LoadsAreFresh'
    BY <2>1 DEF LoadsAreFresh
  <2>4. StaleForCause'
    <3>1. r \notin overtaken => got[r] = db[key[r]] /\ ~(got[r] < db[key[r]])
      BY <2>1 DEF LoadsAreFresh
    <3>2. QED
      BY <2>1, <3>1 DEF StaleForCause, Cached
  <2>5. \A q \in Callers : Holding(q)' => Holding(q) /\ key'[q] = key[q]
    BY <2>1 DEF Holding
  <2>6. QED
    BY <2>1, <2>2, <2>3, <2>4, <2>5, SameLocks
<1>3. QED
  BY <1>1, <1>2

LEMMA LocksEnd ==
  ASSUME CardsInv, NEW k \in Products, Unlock(k)
  PROVE  CardsInv'
<1> USE DEF CardsInv, CacheTyped
<1>1. /\ UNCHANGED <<db, cache, stage, key, got, overtaken, excused, order, left>>
      /\ lock' = [lock EXCEPT ![k] = NoCaller]
      /\ \/ ~Held(k) /\ outlived' = outlived
         \/ Held(k) /\ outlived' = outlived \union {lock[k]}
  BY DEF Unlock, LockExpires, LockOutlived
<1>2. CacheTyped' /\ LoadsAreFresh' /\ StaleForCause'
  BY <1>1 DEF LoadsAreFresh, StaleForCause, Cached
<1>3. LocksKept'
  <2> SUFFICES ASSUME NEW r \in Callers, Holding(r)'
               PROVE  r \in outlived' <=> lock'[key[r]] # r
    BY <1>1 DEF LocksKept
  <2>1. Holding(r) /\ key[r] \in Products /\ r # NoCaller
    BY <1>1, CardsAssumption DEF Holding
  <2>2. CASE lock[key[r]] = r
    <3>1. r \notin outlived
      BY <2>1, <2>2 DEF LocksKept
    <3>2. CASE key[r] = k
      BY <1>1, <2>1, <2>2, <3>2 DEF Held
    <3>3. CASE key[r] # k
      BY <1>1, <2>1, <2>2, <3>1, <3>3 DEF Held
    <3>4. QED
      BY <3>2, <3>3
  <2>3. CASE lock[key[r]] # r
    BY <1>1, <2>1, <2>3 DEF LocksKept
  <2>4. QED
    BY <2>2, <2>3
<1>4. QED
  BY <1>2, <1>3

-----------------------------------------------------------------------------
(* Orders, products and evictions.                                         *)

\* The database changes, and every product that did is excused or has an
\* order that has yet to delete its card.
LEMMA ChangesKeep ==
  ASSUME CardsInv, NEW K \in SUBSET Products, Changed(K),
         UNCHANGED <<cache, lock, outlived, stage, key, got, left>>,
         DOMAIN order' = Orders, excused \subseteq excused',
         \A b \in Orders : order[b] = "committed" => order'[b] = "committed",
         \A k \in K : k \in excused' \/ \E b \in Orders : order'[b] = "committed" /\ k \in Buys[b]
  PROVE  CardsInv'
<1> USE DEF CardsInv, CacheTyped
<1>1. /\ \A k \in Products : db'[k] = IF k \in K THEN db[k] + 1 ELSE db[k]
      /\ db' \in [Products -> Nat]
      /\ overtaken' = overtaken \union {r \in Callers : stage[r] = "loaded" /\ key[r] \in K}
  BY DEF Changed
<1>2. CacheTyped'
  BY <1>1
<1>3. LoadsAreFresh'
  BY <1>1 DEF LoadsAreFresh
<1>4. StaleForCause'
  <2> SUFFICES ASSUME NEW k \in Products, Cached(k)', cache'[k] < db'[k]
               PROVE  k \in excused' \/ \E b \in Orders : order'[b] = "committed" /\ k \in Buys[b]
    BY DEF StaleForCause
  <2>1. CASE k \in K
    BY <2>1
  <2>2. CASE k \notin K
    BY <1>1, <2>2 DEF StaleForCause, Cached
  <2>3. QED
    BY <2>1, <2>2
<1>5. \A q \in Callers : Holding(q)' => Holding(q) /\ key'[q] = key[q]
  BY DEF Holding
<1>6. QED
  BY <1>2, <1>3, <1>4, <1>5, SameLocks

LEMMA OrdersKeep ==
  ASSUME CardsInv, NEW b \in Orders, Buy(b) \/ Invalidate(b) \/ NotInvalidated(b) \/ Cancel(b)
  PROVE  CardsInv'
<1> USE DEF CardsInv
<1>1. Buys[b] \subseteq Products /\ DOMAIN order = Orders
  BY CardsAssumption DEF CacheTyped
<1>2. CASE Buy(b)
  BY <1>1, <1>2, ChangesKeep DEF Buy
<1>3. CASE Cancel(b)
  BY <1>1, <1>3, ChangesKeep DEF Cancel
<1>4. CASE Invalidate(b) \/ NotInvalidated(b)
  <2>1. /\ UNCHANGED <<db, lock, outlived, stage, key, got, overtaken, left>>
        /\ order[b] = "committed"
        /\ \A a \in Orders \ {b} : order'[a] = order[a]
        /\ DOMAIN order' = Orders
        /\ \/ /\ cache' = [k \in Products |-> IF k \in Buys[b] THEN Miss ELSE cache[k]]
              /\ excused' = excused \ Buys[b]
           \/ cache' = cache /\ excused' = excused \union Buys[b]
    BY <1>4 DEF Invalidate, NotInvalidated, Dropped, CardsOf, CacheTyped
  <2>2. CacheTyped' /\ LoadsAreFresh'
    BY <2>1 DEF CacheTyped, LoadsAreFresh
  <2>3. StaleForCause'
    <3> SUFFICES ASSUME NEW k \in Products, Cached(k)', cache'[k] < db'[k]
                 PROVE  k \in excused' \/ \E a \in Orders : order'[a] = "committed" /\ k \in Buys[a]
      BY DEF StaleForCause
    <3>1. cache'[k] = cache[k] /\ (k \in Buys[b] => k \in excused')
      BY <1>1, <2>1 DEF Cached, CacheTyped
    <3>2. CASE k \in Buys[b]
      BY <3>1, <3>2
    <3>3. CASE k \notin Buys[b]
      <4>1. k \in excused \/ \E a \in Orders : order[a] = "committed" /\ k \in Buys[a]
        BY <2>1, <3>1 DEF StaleForCause, Cached
      <4>2. QED
        BY <2>1, <3>3, <4>1
    <3>4. QED
      BY <3>2, <3>3
  <2>4. \A q \in Callers : Holding(q)' => Holding(q) /\ key'[q] = key[q]
    BY <2>1 DEF Holding
  <2>5. QED
    BY <2>1, <2>2, <2>3, <2>4, SameLocks
<1>5. QED
  BY <1>2, <1>3, <1>4

\* Cards that go, and steps of jobs that leave their calls without a lock or a
\* card in hand.
LEMMA DropsKeep ==
  ASSUME CardsInv, NEW K \in SUBSET Products,
         Dropped(K) \/ UNCHANGED <<cache, excused>>,
         UNCHANGED <<db, lock, outlived, order>>,
         overtaken' \subseteq overtaken,
         DOMAIN stage' = Callers, DOMAIN key' = Callers, DOMAIN got' = Callers,
         DOMAIN left' = Refreshes,
         \A j \in Refreshes : left'[j] \subseteq DOMAIN Batch,
         \A r \in Callers :
           \/ /\ stage'[r] = stage[r] /\ key'[r] = key[r] /\ got'[r] = got[r]
              /\ r \in overtaken => r \in overtaken'
           \/ stage'[r] = "idle"
           \/ stage'[r] = "asking" /\ key'[r] \in Products
  PROVE  CardsInv'
<1> USE DEF CardsInv
<1>1. CacheTyped'
  BY DEF CacheTyped, Dropped
<1>2. LoadsAreFresh'
  BY DEF LoadsAreFresh
<1>3. StaleForCause'
  BY DEF StaleForCause, Cached, Dropped
<1>4. \A q \in Callers : Holding(q)' => Holding(q) /\ key'[q] = key[q]
  BY DEF Holding
<1>5. QED
  BY <1>1, <1>2, <1>3, <1>4, SameLocks

\* The batch is worked off from its first position that is left.
LEMMA LeastPosition ==
  ASSUME NEW n \in Nat, NEW S \in SUBSET (1..n), S # {}
  PROVE  \E i \in S : \A h \in S : i <= h
<1> DEFINE Below(i) == {h \in 1..n : h < i}
           T == {Below(i) : i \in S}
<1>1. FiniteSubsetsOf(1..n) = SUBSET (1..n)
  <2>1. IsFiniteSet(1..n)
    BY FS_Interval
  <2>2. QED
    BY <2>1, FS_FiniteSubsetsOfFinite
<1>2. T \subseteq FiniteSubsetsOf(1..n) /\ T # {}
  <2>1. \A i \in S : Below(i) \in SUBSET (1..n)
    OBVIOUS
  <2> HIDE DEF Below
  <2>2. T \subseteq SUBSET (1..n) /\ T # {}
    BY <2>1
  <2> HIDE DEF T
  <2>3. QED
    BY <1>1, <2>2
<1>3. PICK B \in T : \A C \in T : <<C, B>> \notin StrictSubsetOrdering(1..n)
  BY <1>2, WFMin, FS_StrictSubsetOrderingWellFounded
<1>4. PICK i \in S : B = Below(i)
  BY <1>3
<1>5. ASSUME NEW h \in S, h < i PROVE FALSE
  <2>1. Below(h) \subseteq Below(i) /\ h \in Below(i) /\ h \notin Below(h)
    BY <1>5
  <2>2. Below(h) \in T /\ Below(h) \in SUBSET (1..n) /\ Below(i) \in SUBSET (1..n)
    OBVIOUS
  <2> HIDE DEF Below, T
  <2>3. <<Below(h), Below(i)>> \in StrictSubsetOrdering(1..n)
    BY <2>1, <2>2 DEF StrictSubsetOrdering
  <2>4. QED
    BY <1>3, <1>4, <2>2, <2>3
<1>6. QED
  BY <1>5

LEMMA JobsKeep ==
  ASSUME CardsInv, NEW j \in Jobs, JobStep(j) \/ RefreshStep(j) \/ RefreshFault(j)
  PROVE  CardsInv'
<1> USE DEF CardsInv, CacheTyped, cacheVars
<1>1. CASE Start(j)
  <2>1. Listed \subseteq DOMAIN Batch
    BY DEF Listed
  <2>2. QED
    BY <1>1, <2>1, DropsKeep DEF Start
<1>2. CASE RefreshNext(j) \/ NotDropped(j)
  <2> DEFINE i == NextLeft(j)
  <2>1. RefreshMoves(j) /\ j \in Refreshes /\ j \in Callers /\ left[j] # {}
    BY <1>2 DEF RefreshNext, NotDropped, RefreshMoves, Refreshes
  <2>2. left[j] \subseteq 1..Len(Batch) /\ Len(Batch) \in Nat /\ DOMAIN Batch = 1..Len(Batch)
    BY <2>1, CardsAssumption
  <2>3. \E h \in left[j] : \A g \in left[j] : h <= g
    BY <2>1, <2>2, LeastPosition
  <2>4. i \in left[j]
    BY <2>3 DEF NextLeft
  <2>5. Batch[i] \in Products
    BY <2>2, <2>4, CardsAssumption
  <2> HIDE DEF i
  <2>6. /\ left' = [left EXCEPT ![j] = @ \ {i}]
        /\ key' = [key EXCEPT ![j] = Batch[i]]
        /\ stage' = [stage EXCEPT ![j] = "asking"]
        /\ UNCHANGED <<db, lock, outlived, got, overtaken, order>>
    BY <2>1 DEF RefreshMoves, Goto, i
  <2>7. Dropped({Batch[i]}) \/ UNCHANGED <<cache, excused>>
    BY <1>2 DEF RefreshNext, NotDropped, i
  <2>8. QED
    BY <2>1, <2>5, <2>6, <2>7, DropsKeep
<1>3. CASE RefreshCall(j) \/ RefreshReadFails(j)
  <2>1. j \in Callers /\ key[j] \in Products /\ UNCHANGED <<order, left>>
    BY <1>3 DEF RefreshCall, RefreshReadFails, Refreshes
  <2>2. Call(j, key[j]) \/ ReadFails(j, key[j])
    BY <1>3 DEF RefreshCall, RefreshReadFails
  <2>3. QED
    BY <2>1, <2>2, CallsKeep
<1>4. CASE Finish(j)
  BY <1>4, DropsKeep DEF Finish
<1>5. CASE Again(j)
  BY <1>5, DropsKeep DEF Again
<1>6. QED
  BY <1>1, <1>2, <1>3, <1>4, <1>5 DEF JobStep, RefreshStep, RefreshFault

LEMMA Inductive == CardsInv /\ [Next]_vars => CardsInv'
<1> SUFFICES ASSUME CardsInv, [Next]_vars PROVE CardsInv'
  OBVIOUS
<1>1. CASE UNCHANGED vars
  BY <1>1, DropsKeep DEF vars, cacheVars, CardsInv, CacheTyped
<1>2. ASSUME NEW r \in Requests, Get(r) PROVE CardsInv'
  BY <1>2, CallsKeep, CardsAssumption DEF Get
<1>3. ASSUME NEW r \in Callers, Work(r) PROVE CardsInv'
  BY <1>3, CallsKeep, LoadsKeep DEF Work, CallStep, CallFault
<1>4. ASSUME NEW b \in Orders, Buy(b) \/ Invalidate(b) \/ NotInvalidated(b) \/ Cancel(b)
      PROVE  CardsInv'
  BY <1>4, OrdersKeep
<1>5. ASSUME NEW k \in Products, Create(k) PROVE CardsInv'
  BY <1>5, ChangesKeep DEF Create, CardsInv, CacheTyped
<1>6. ASSUME NEW k \in Products, Evict(k) PROVE CardsInv'
  BY <1>6, DropsKeep DEF Evict, Expire, CardsInv, CacheTyped
<1>7. ASSUME NEW k \in Products, Unlock(k) PROVE CardsInv'
  BY <1>7, LocksEnd
<1>8. ASSUME NEW j \in Jobs, JobStep(j) \/ RefreshStep(j) \/ RefreshFault(j) PROVE CardsInv'
  BY <1>8, JobsKeep
<1>9. CASE Die
  BY <1>9, DropsKeep DEF Die, CardsInv, CacheTyped
<1>10. QED
  BY <1>1, <1>2, <1>3, <1>4, <1>5, <1>6, <1>7, <1>8, <1>9 DEF Next

LEMMA Holds == Spec => []CardsInv
  BY CardsStart, Inductive, PTL DEF Spec

-----------------------------------------------------------------------------

\* A stale card has one of the causes that are named (OrdersService.create,
\* CacheAside.getOrLoad).
THEOREM StaleHasCause == Spec => []StaleForCause
<1>1. CardsInv => StaleForCause
  BY DEF CardsInv
<1>2. QED
  BY <1>1, Holds, PTL

\* Of two calls that load one card behind its lock, that lock has run out under
\* one: no other failure lets a second one in (getOrLoad).
THEOREM SingleFlight == Spec => []OneLoaderPerLock
<1>1. CardsInv => OneLoaderPerLock
  BY DEF CardsInv, LocksKept, OneLoaderPerLock
<1>2. QED
  BY <1>1, Holds, PTL

\* A lock is taken from a running call by its own release or by its expiry only
\* (RELEASE_IF_OWNED).
THEOREM LocksAreKept == Spec => OnlyOwnLockReleased
<1> DEFINE Kept == \A k \in Products :
                     Held(k) /\ lock'[k] # lock[k]
                       => stage'[lock[k]] # stage[lock[k]] \/ lock[k] \in outlived' \ outlived
<1>1. CardsInv /\ [Next]_vars => [Kept]_cacheVars
  <2> SUFFICES ASSUME CardsInv, [Next]_vars, lock' # lock PROVE Kept
    BY DEF cacheVars
  <2> USE DEF CardsInv, CacheTyped
  <2>1. ASSUME NEW r \in Callers, Work(r) PROVE Kept
    <3>1. TakeLock(r) \/ LockFails(r) \/ Release(r)
      BY <2>1 DEF Work, CallStep, CallFault, LockTaken, WaitedHit, Load, Write,
                  PollFails, LoadFails, WriteFails, ReleaseFails
    <3>2. CASE TakeLock(r) \/ LockFails(r)
      <4>1. key[r] \in Products /\ lock[key[r]] = NoCaller
            /\ lock' = [lock EXCEPT ![key[r]] = r]
        BY <3>2 DEF TakeLock, LockFails, LockFree
      <4>2. QED
        BY <4>1 DEF Held
    <3>3. CASE Release(r)
      <4>1. /\ lock[key[r]] = r /\ lock' = [lock EXCEPT ![key[r]] = NoCaller]
            /\ stage[r] \in {"releasing", "failing"}
            /\ stage'[r] \in {"raised", "returned"}
        BY <3>3 DEF Release, OwnLock, Goto
      <4>2. QED
        BY <4>1
    <3>4. QED
      BY <3>1, <3>2, <3>3
  <2>2. ASSUME NEW k \in Products, Unlock(k) PROVE Kept
    <3>1. /\ lock' = [lock EXCEPT ![k] = NoCaller]
          /\ Held(k) => outlived' = outlived \union {lock[k]}
      BY <2>2 DEF Unlock, LockExpires, LockOutlived
    <3>2. Held(k) => lock[k] \in Callers /\ lock[k] \notin outlived
      BY DEF Held, LocksKept
    <3>3. QED
      BY <3>1, <3>2
  <2>3. /\ \A r \in Requests : ~Get(r)
        /\ \A b \in Orders : ~(Buy(b) \/ Invalidate(b) \/ NotInvalidated(b) \/ Cancel(b))
        /\ \A k \in Products : ~(Create(k) \/ Evict(k))
        /\ \A j \in Jobs : ~(JobStep(j) \/ RefreshStep(j) \/ RefreshFault(j))
        /\ ~Die /\ ~UNCHANGED vars
    BY DEF Get, Call, ReadFails, Buy, Invalidate, NotInvalidated, Cancel, Create, Evict,
           Expire, JobStep, RefreshStep, RefreshFault, Start, Finish, Again, RefreshMoves,
           RefreshNext, NotDropped, RefreshCall, RefreshReadFails, Die, vars, cacheVars
  <2>4. QED
    BY <2>1, <2>2, <2>3 DEF Next
<1>2. QED
  BY <1>1, Holds, PTL DEF Spec, OnlyOwnLockReleased

-----------------------------------------------------------------------------
(* The queue.                                                              *)

\* A job that is not at its end has an attempt left.
QueueInv ==
  /\ DOMAIN job = Jobs
  /\ made \in [Jobs -> Nat]
  /\ stalled \in [Jobs -> Nat]
  /\ \A j \in Jobs : job[j] \in {"waiting", "active", "delayed"} => made[j] < Attempts
  /\ \A j \in Jobs : job[j] \in JobState
  /\ GivenUpForCause

LEMMA QueueStart == Init => QueueInv
  BY DEF Init, JobInit, QueueInv, GivenUpForCause, Attempts, JobState

LEMMA QueueStep == QueueInv /\ [Next]_vars => QueueInv'
<1> SUFFICES ASSUME QueueInv, [Next]_vars PROVE QueueInv'
  OBVIOUS
<1> USE DEF QueueInv, GivenUpForCause, Attempts, JobState
<1>1. CASE UNCHANGED jobVars
  BY <1>1 DEF jobVars
<1>2. ASSUME NEW j \in Jobs, TakeJob(j) \/ BackoffEnds(j) PROVE QueueInv'
  BY <1>2 DEF TakeJob, BackoffEnds
<1>3. ASSUME NEW j \in Jobs, Complete(j) PROVE QueueInv'
  BY <1>3 DEF Complete
<1>4. ASSUME NEW j \in Jobs, Throw(j) PROVE QueueInv'
  BY <1>4 DEF Throw, LastAttempt
<1>5. CASE WorkerDies
  BY <1>5 DEF WorkerDies, Active, Stall, MaxStalled
<1>6. ASSUME NEW j \in Jobs, JobStep(j) \/ RefreshStep(j) \/ RefreshFault(j) PROVE QueueInv'
  BY <1>1, <1>2, <1>3, <1>4, <1>6
     DEF JobStep, RefreshStep, RefreshFault, Start, Finish, Again, RefreshMoves,
         RefreshNext, NotDropped, RefreshCall, RefreshReadFails
<1>7. QED
  BY <1>1, <1>5, <1>6
     DEF Next, Get, Work, Buy, Invalidate, NotInvalidated, Cancel, Create, Evict, Unlock,
         Die, vars

\* A job is given up after three attempts, or when its worker died under it
\* twice (queue.ts).
THEOREM JobsGetTheirAttempts == Spec => []GivenUpForCause
<1>1. QueueInv => GivenUpForCause
  BY DEF QueueInv
<1>2. QED
  BY <1>1, QueueStart, QueueStep, PTL DEF Spec

-----------------------------------------------------------------------------
(* Calls and jobs that are not at their end.                               *)

\* The guard of CallStep(r) under Work(r).
CallReady(r) ==
  /\ r \in Refreshes => job[r] = "active"
  /\ \/ stage[r] \in {"missed", "locked", "direct", "loaded", "releasing", "failing"}
     \/ stage[r] = "waiting" /\ (LockFree(key[r]) \/ cache[key[r]] # Miss)

\* The guard of LockExpires(k).
ExpiryReady(k) == lock[k] # NoCaller /\ ~Held(k)

\* The guards of Start(j), Again(j), Finish(j), RefreshNext(j) and RefreshCall(j).
JobReady(j) ==
  \/ job[j] = "waiting" /\ Cardinality(Active) < Concurrency
  \/ job[j] = "delayed"
  \/ job[j] = "active" /\ j \notin Refreshes
  \/ job[j] = "active" /\ j \in Refreshes /\ stage[j] \in {"idle", "returned", "raised"}
  \/ job[j] = "active" /\ j \in Refreshes /\ stage[j] = "asking"

AllSettled ==
  /\ \A r \in Requests : stage[r] \in {"idle", "returned", "raised"}
  /\ \A j \in Jobs : job[j] \in {"completed", "failed"}

\* While a request or a job is not at its end, something that waits for nobody
\* takes it on.
CardsRun ==
  \/ AllSettled
  \/ \E r \in Callers : CallReady(r)
  \/ \E k \in Products : ExpiryReady(k)
  \/ \E j \in Jobs : JobReady(j)

\* A refresh is inside getOrLoad only while its job is active.
RefreshesInJobs ==
  /\ \A r \in Callers : stage[r] \in Stage
  /\ \A r \in Requests : stage[r] # "asking"
  /\ \A j \in Refreshes : stage[j] # "idle" => job[j] = "active"

GoOnInv == CardsInv /\ QueueInv /\ RefreshesInJobs

LEMMA RefreshesStart == Init => RefreshesInJobs
  BY CardsAssumption DEF Init, CacheInit, RefreshesInJobs, Refreshes, Stage

LEMMA RefreshesStep == GoOnInv /\ [Next]_vars => RefreshesInJobs'
<1> SUFFICES ASSUME GoOnInv, [Next]_vars PROVE RefreshesInJobs'
  OBVIOUS
<1>0. DOMAIN stage = Callers /\ DOMAIN job = Jobs /\ Refreshes \subseteq Callers \cap Jobs
     /\ Requests \subseteq Callers /\ Requests \cap Refreshes = {}
  BY CardsAssumption DEF GoOnInv, CardsInv, CacheTyped, QueueInv, Refreshes
<1> USE <1>0 DEF GoOnInv, RefreshesInJobs, Stage
<1>1. ASSUME UNCHANGED <<stage, job>> PROVE RefreshesInJobs'
  BY <1>1
<1>2. ASSUME NEW r \in Callers, r \in Refreshes => job[r] = "active", UNCHANGED job,
             NEW s \in Stage \ {"asking"}, Goto(r, s)
      PROVE  RefreshesInJobs'
  BY <1>2 DEF Goto
<1>3. ASSUME NEW r \in Requests, Get(r) PROVE RefreshesInJobs'
  <2>1. r \in Callers /\ r \notin Refreshes
    BY CardsAssumption
  <2>2. QED
    BY <1>2, <1>3, <2>1 DEF Get, Call, ReadFails, jobVars
<1>4. ASSUME NEW r \in Callers, Work(r) PROVE RefreshesInJobs'
  <2>1. UNCHANGED job /\ (r \in Refreshes => job[r] = "active")
    BY <1>4 DEF Work, jobVars
  <2>2. \E s \in Stage \ {"asking"} : Goto(r, s)
    BY <1>4 DEF Work, CallStep, CallFault, TakeLock, LockTaken, WaitedHit, Load, Write,
                Release, LockFails, PollFails, LoadFails, WriteFails, ReleaseFails
  <2>3. QED
    BY <1>2, <2>1, <2>2
<1>5. ASSUME NEW j \in Jobs, Start(j) \/ Again(j) PROVE RefreshesInJobs'
  BY <1>5 DEF Start, Again, TakeJob, BackoffEnds, cacheVars
<1>6. ASSUME NEW j \in Jobs, Finish(j) PROVE RefreshesInJobs'
  <2>1. /\ stage' = [r \in Callers |-> IF r = j THEN "idle" ELSE stage[r]]
        /\ \A i \in Jobs \ {j} : job'[i] = job[i]
    BY <1>6 DEF Finish, Throw, Complete
  <2>2. QED
    BY <2>1
<1>7. ASSUME NEW j \in Jobs, RefreshStep(j) \/ RefreshFault(j) PROVE RefreshesInJobs'
  <2>1. /\ j \in Refreshes /\ j \notin Requests /\ job[j] = "active" /\ UNCHANGED job
        /\ Goto(j, "asking") \/ Goto(j, "missed") \/ Goto(j, "returned")
    BY <1>7, CardsAssumption DEF RefreshStep, RefreshFault, RefreshMoves, RefreshNext, NotDropped,
           RefreshCall, RefreshReadFails, Call, ReadFails, jobVars
  <2>2. QED
    BY <2>1 DEF Goto
<1>8. CASE Die
  BY <1>8 DEF Die, WorkerDies, Active
<1>9. ASSUME \/ \E b \in Orders : Buy(b) \/ Invalidate(b) \/ NotInvalidated(b) \/ Cancel(b)
             \/ \E k \in Products : Create(k) \/ Evict(k) \/ Unlock(k)
             \/ UNCHANGED vars
      PROVE  RefreshesInJobs'
  <2>1. UNCHANGED <<stage, job>>
    BY <1>9 DEF Buy, Invalidate, NotInvalidated, Cancel, Create, Evict, Expire, Unlock,
                LockExpires, LockOutlived, jobVars, cacheVars, vars
  <2>2. QED
    BY <1>1, <2>1
<1>10. QED
  BY <1>3, <1>4, <1>5, <1>6, <1>7, <1>8, <1>9 DEF Next, JobStep

\* A call that is not at its end goes on, or the lock it waits for expires, or
\* the call that has the lock goes on.
LEMMA CallGoesOn ==
  ASSUME GoOnInv, NEW r \in Callers,
         stage[r] \notin {"idle", "asking", "returned", "raised"},
         \A c \in Callers : ~CallReady(c)
  PROVE  \E k \in Products : ExpiryReady(k)
<1> USE DEF GoOnInv, RefreshesInJobs, CallReady, Stage
<1>1. stage[r] = "waiting" /\ ~LockFree(key[r])
  OBVIOUS
<1>2. key[r] \in Products /\ lock[key[r]] \in Callers
  BY <1>1 DEF CardsInv, CacheTyped, LockFree
<1>3. ~Held(key[r])
  BY <1>2 DEF Held, Holding
<1>4. QED
  BY <1>1, <1>2, <1>3 DEF ExpiryReady, LockFree

\* Nobody waits for ever in the cache or in the queue: whoever waits for a
\* lock, waits for a call that goes on or for its expiry, and a job that waits
\* for a free worker waits for one that goes on (getOrLoad, queue-worker.ts).
THEOREM CardsGoOn == Spec => []CardsRun
<1>1. GoOnInv => CardsRun
  <2> SUFFICES ASSUME GoOnInv, ~AllSettled, \A r \in Callers : ~CallReady(r),
                      \A k \in Products : ~ExpiryReady(k), \A j \in Jobs : ~JobReady(j)
               PROVE  FALSE
    BY DEF CardsRun
  <2>1. \A r \in Callers : stage[r] \in {"idle", "returned", "raised"}
    <3>1. \A r \in Callers : stage[r] # "asking"
      BY CardsAssumption DEF GoOnInv, RefreshesInJobs, JobReady, Refreshes
    <3>2. QED
      BY <3>1, CallGoesOn
  <2>2. PICK j \in Jobs : job[j] \notin {"completed", "failed"}
    BY <2>1, CardsAssumption DEF AllSettled
  <2>3. \A i \in Jobs : job[i] # "active"
    BY <2>1 DEF JobReady, Refreshes
  <2>4. Cardinality(Active) = 0
    BY <2>3, FS_EmptySet DEF Active
  <2>5. job[j] = "waiting"
    BY <2>2, <2>3 DEF GoOnInv, QueueInv, JobState, JobReady
  <2>6. QED
    BY <2>4, <2>5, QueueAssumption DEF JobReady
<1>2. QED
  BY <1>1, CardsStart, QueueStart, RefreshesStart, Inductive, QueueStep, RefreshesStep, PTL
     DEF Spec, GoOnInv
=============================================================================
