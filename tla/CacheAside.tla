----------------------------- MODULE CacheAside -----------------------------
(***************************************************************************)
(* CacheAside.getOrLoad over the product cards (redis/cache-aside.ts,      *)
(* products/product-card.ts): read the cache; on a miss take the key's     *)
(* lock, load from the database, write, release; or wait for whoever has   *)
(* the lock.  Every await is a step.  A card is the version of the product *)
(* it was computed from.                                                   *)
(***************************************************************************)
EXTENDS Integers

CONSTANTS
  Products,   \* product ids somebody may ask for
  Existing,   \* the products there are from the start
  Callers,    \* calls of getOrLoad: requests and refresh jobs
  MaxVersion, \* bound: versions of a product
  MaxFaults   \* bound: errors of Redis or of a load, crashes, early lock expiries

ASSUME CacheAssumption ==
  /\ Existing \subseteq Products
  /\ MaxVersion \in Nat
  /\ MaxFaults \in Nat

VARIABLES
  db,         \* db[k]: version of product k in the database, NoProduct if none
  cache,      \* cache[k]: the cached card, NoProduct for a cached null, or Miss
  lock,       \* lock[k]: the caller whose token is in lock:<key>, or NoCaller
  stage,      \* stage[r]: where call r stands
  key,        \* key[r]: the product it is about
  got,        \* got[r]: what it loaded and has yet to write
  faults,
  overtaken,  \* auxiliary: loads the database moved past before they were written
  outlived,   \* auxiliary: calls whose lock has run out under them
  excused     \* auxiliary: keys whose cached card nothing will invalidate

cacheVars == <<db, cache, lock, stage, key, got, faults, overtaken, excused, outlived>>

-----------------------------------------------------------------------------

NoProduct == 0
Miss == -1
NoCaller == 0

Stage == {"idle", "asking", "missed", "waiting", "locked", "loaded", "direct", "releasing",
          "failing", "returned", "raised"}

CacheInit ==
  /\ db = [k \in Products |-> IF k \in Existing THEN 1 ELSE NoProduct]
  /\ cache = [k \in Products |-> Miss]
  /\ lock = [k \in Products |-> NoCaller]
  /\ stage = [r \in Callers |-> "idle"]
  /\ key \in [Callers -> {CHOOSE k \in Products : TRUE}]
  /\ got = [r \in Callers |-> Miss]
  /\ faults = 0
  /\ overtaken = {}
  /\ outlived = {}
  /\ excused = {}

Goto(r, s) == stage' = [stage EXCEPT ![r] = s]
Fault == faults < MaxFaults /\ faults' = faults + 1

\* getOrLoad starts: a hit returns, a miss goes on.
Call(r, k) ==
  /\ stage[r] \in {"idle", "asking"}
  /\ key' = [key EXCEPT ![r] = k]
  /\ Goto(r, IF cache[k] = Miss THEN "missed" ELSE "returned")
  /\ UNCHANGED <<db, cache, lock, got, faults, overtaken, excused, outlived>>

\* A read that fails is a miss.
ReadFails(r, k) ==
  /\ stage[r] \in {"idle", "asking"}
  /\ key' = [key EXCEPT ![r] = k]
  /\ Goto(r, "missed")
  /\ Fault
  /\ UNCHANGED <<db, cache, lock, got, overtaken, excused, outlived>>

\* Bug: SET without NX.
AlwaysFree(k) == TRUE

LockFree(k) == lock[k] = NoCaller

\* SET lock token PX lockMs NX, at once or after waiting.
TakeLock(r) ==
  /\ stage[r] \in {"missed", "waiting"}
  /\ LockFree(key[r])
  /\ lock' = [lock EXCEPT ![key[r]] = r]
  /\ outlived' = outlived \ {r}
  /\ Goto(r, "locked")
  /\ UNCHANGED <<db, cache, key, got, faults, overtaken, excused>>

LockTaken(r) ==
  /\ stage[r] = "missed"
  /\ ~LockFree(key[r])
  /\ Goto(r, "waiting")
  /\ UNCHANGED <<db, cache, lock, key, got, faults, overtaken, excused, outlived>>

\* The lock holder's card has appeared.
WaitedHit(r) ==
  /\ stage[r] = "waiting"
  /\ cache[key[r]] # Miss
  /\ Goto(r, "returned")
  /\ UNCHANGED <<db, cache, lock, key, got, faults, overtaken, excused, outlived>>

\* SET NX fails, at once or after waiting, or takes the lock and its answer is
\* lost: load without it, and do not cache.
LockFails(r) ==
  /\ stage[r] \in {"missed", "waiting"}
  /\ Fault
  /\ Goto(r, "direct")
  /\ \/ UNCHANGED lock
     \/ LockFree(key[r]) /\ lock' = [lock EXCEPT ![key[r]] = r]
  /\ UNCHANGED <<db, cache, key, got, overtaken, excused, outlived>>

\* EXISTS fails in the waiting loop, where nothing catches it.
PollFails(r) ==
  /\ stage[r] = "waiting"
  /\ Fault
  /\ Goto(r, "raised")
  /\ UNCHANGED <<db, cache, lock, key, got, overtaken, excused, outlived>>

\* loadProductCard reads the database.
Load(r) ==
  /\ \/ stage[r] = "locked" /\ Goto(r, "loaded") /\ got' = [got EXCEPT ![r] = db[key[r]]]
     \/ stage[r] = "direct" /\ Goto(r, "returned") /\ UNCHANGED got
  /\ UNCHANGED <<db, cache, lock, key, faults, overtaken, excused, outlived>>

LoadFails(r) ==
  /\ stage[r] \in {"locked", "direct"}
  /\ Fault
  /\ Goto(r, IF stage[r] = "locked" THEN "failing" ELSE "raised")
  /\ UNCHANGED <<db, cache, lock, key, got, overtaken, excused, outlived>>

\* What was loaded is out of the caller's hands.
Forget(r) ==
  /\ got' = [got EXCEPT ![r] = Miss]
  /\ overtaken' = overtaken \ {r}

\* SET key value EX ttl; a null too, with the shorter negative ttl.
Write(r) ==
  LET k == key[r] IN
  /\ stage[r] = "loaded"
  /\ Forget(r)
  /\ cache' = [cache EXCEPT ![k] = got[r]]
  /\ excused' = IF r \in overtaken THEN excused \union {k} ELSE excused \ {k}
  /\ Goto(r, "releasing")
  /\ UNCHANGED <<db, lock, key, faults, outlived>>

\* A write that fails is only logged.
WriteFails(r) ==
  /\ stage[r] = "loaded"
  /\ Fault
  /\ Forget(r)
  /\ Goto(r, "releasing")
  /\ UNCHANGED <<db, cache, lock, key, excused, outlived>>

\* Bug: a bare DEL of the lock key.
AnyLock(r) == TRUE

\* RELEASE_IF_OWNED
OwnLock(r) == lock[key[r]] = r

\* finally: the caller's own lock goes, in one script.
Release(r) ==
  /\ stage[r] \in {"releasing", "failing"}
  /\ lock' = IF OwnLock(r) THEN [lock EXCEPT ![key[r]] = NoCaller] ELSE lock
  /\ Goto(r, IF stage[r] = "failing" THEN "raised" ELSE "returned")
  /\ UNCHANGED <<db, cache, key, got, faults, overtaken, excused, outlived>>

ReleaseFails(r) ==
  /\ stage[r] \in {"releasing", "failing"}
  /\ Fault
  /\ Goto(r, IF stage[r] = "failing" THEN "raised" ELSE "returned")
  /\ UNCHANGED <<db, cache, lock, key, got, overtaken, excused, outlived>>

Holding(r) == stage[r] \in {"locked", "loaded", "releasing", "failing"}

\* The lock of k is that of a call that works behind it.
Held(k) == lock[k] # NoCaller /\ Holding(lock[k]) /\ key[lock[k]] = k

\* Bug: SET NX without PX.
NeverExpires(k) == FALSE

\* A lock left behind expires after lockMs.
LockExpires(k) ==
  /\ lock[k] # NoCaller
  /\ ~Held(k)
  /\ lock' = [lock EXCEPT ![k] = NoCaller]
  /\ UNCHANGED <<db, cache, stage, key, got, faults, overtaken, excused, outlived>>

\* A lock expires under a load that takes longer than lockMs.
LockOutlived(k) ==
  /\ Held(k)
  /\ Fault
  /\ lock' = [lock EXCEPT ![k] = NoCaller]
  /\ outlived' = outlived \union {lock[k]}
  /\ UNCHANGED <<db, cache, stage, key, got, overtaken, excused>>

Dropped(K) ==
  /\ cache' = [k \in Products |-> IF k \in K THEN Miss ELSE cache[k]]
  /\ excused' = excused \ K

\* The ttl runs out, or Redis evicts the key.
Expire(k) ==
  /\ cache[k] # Miss
  /\ Dropped({k})
  /\ UNCHANGED <<db, lock, stage, key, got, faults, overtaken, outlived>>

\* The database moves past what was loaded from it.
Changed(K) ==
  /\ db' = [k \in Products |-> IF k \in K THEN db[k] + 1 ELSE db[k]]
  /\ overtaken' = overtaken \union {r \in Callers : stage[r] = "loaded" /\ key[r] \in K}

\* The steps of a call that its caller does not choose.
CallStep(r) ==
  \/ TakeLock(r) \/ LockTaken(r) \/ WaitedHit(r) \/ Load(r) \/ Write(r) \/ Release(r)

CallFault(r) ==
  LockFails(r) \/ PollFails(r) \/ LoadFails(r) \/ WriteFails(r) \/ ReleaseFails(r)

-----------------------------------------------------------------------------

\* Single flight: of two calls that work behind one card's lock, that lock has
\* run out under one.  No other failure lets a second one in
\* (cache-aside.ts:45-73).
OneLoaderPerLock ==
  \A r, q \in Callers \ outlived :
    Holding(r) /\ Holding(q) /\ key[r] = key[q] => r = q

\* Nobody takes away a lock that a running call holds: it goes by that call's
\* own release, or runs out under it (RELEASE_IF_OWNED, cache-aside.ts:13-17).
OnlyOwnLockReleased ==
  [][\A k \in Products :
       Held(k) /\ lock'[k] # lock[k]
         => stage'[lock[k]] # stage[lock[k]] \/ lock[k] \in outlived' \ outlived]_cacheVars
=============================================================================
