-------------------------------- MODULE Cards --------------------------------
(***************************************************************************)
(* Product cards with everything that touches them: GET /products/{id},    *)
(* purchases that invalidate (OrdersService.create), cancellations and new *)
(* products that do not (changeStatus, ProductsService.create), and the    *)
(* catalog.refresh job of the queue's worker.                              *)
(***************************************************************************)
EXTENDS CacheAside, JobQueue, Sequences

CONSTANTS
  Requests,   \* GET /products/{id}
  Asks,       \* Asks[r]: the product request r asks for
  Orders,     \* POST /orders
  Buys,       \* Buys[b]: the products of order b
  Batch       \* the products catalog.refresh goes through, in order

VARIABLES
  order,      \* order[b]: where order b stands
  left        \* left[j]: positions in Batch that refresh job j has yet to do

vars == <<cacheVars, jobVars, order, left>>

Refreshes == Jobs \cap Callers

ASSUME CardsAssumption ==
  /\ Callers = Requests \union Refreshes
  /\ Requests \cap Refreshes = {}
  /\ NoCaller \notin Callers
  /\ Asks \in [Requests -> Products]
  /\ Buys \in [Orders -> SUBSET Products]
  /\ Batch \in Seq(Products)

-----------------------------------------------------------------------------

Init ==
  /\ CacheInit
  /\ JobInit
  /\ order = [b \in Orders |-> "idle"]
  /\ left = [j \in Refreshes |-> {}]

\* ProductsService.findOne
Get(r) ==
  /\ Call(r, Asks[r]) \/ ReadFails(r, Asks[r])
  /\ UNCHANGED <<jobVars, order, left>>

Work(r) ==
  /\ CallStep(r) \/ CallFault(r)
  /\ r \in Refreshes => job[r] = "active"
  /\ UNCHANGED <<jobVars, order, left>>

\* The checkout of order b commits.
Buy(b) ==
  /\ order[b] = "idle"
  /\ \A k \in Buys[b] : db[k] # NoProduct /\ db[k] < MaxVersion
  /\ Changed(Buys[b])
  /\ order' = [order EXCEPT ![b] = "committed"]
  /\ UNCHANGED <<cache, lock, stage, key, got, faults, excused, outlived, jobVars, left>>

\* Bug: the cards are deleted for a replay instead of for a new order.
NoCards(b) == {}

CardsOf(b) == Buys[b]

\* One DEL for the cards of its items.
Invalidate(b) ==
  /\ order[b] = "committed"
  /\ order' = [order EXCEPT ![b] = "invalidated"]
  /\ Dropped(CardsOf(b))
  /\ UNCHANGED <<db, lock, stage, key, got, faults, overtaken, outlived, jobVars, left>>

\* The DEL fails and is logged, or the process dies before it; a retry of the
\* request is a replay and does not invalidate either.
NotInvalidated(b) ==
  /\ order[b] = "committed"
  /\ Fault
  /\ order' = [order EXCEPT ![b] = "lost"]
  /\ excused' = excused \union Buys[b]
  /\ UNCHANGED <<db, cache, lock, stage, key, got, overtaken, outlived, jobVars, left>>

\* changeStatus to cancelled takes the order out of "sold".
Cancel(b) ==
  /\ order[b] = "invalidated"
  /\ \A k \in Buys[b] : db[k] < MaxVersion
  /\ Changed(Buys[b])
  /\ excused' = excused \union Buys[b]
  /\ order' = [order EXCEPT ![b] = "cancelled"]
  /\ UNCHANGED <<cache, lock, stage, key, got, faults, outlived, jobVars, left>>

\* POST /products: once per Idempotency-Key; the id may be cached as absent.
Create(k) ==
  /\ db[k] = NoProduct
  /\ Changed({k})
  /\ excused' = excused \union {k}
  /\ UNCHANGED <<cache, lock, stage, key, got, faults, outlived, jobVars, order, left>>

Evict(k) == Expire(k) /\ UNCHANGED <<jobVars, order, left>>

Unlock(k) ==
  /\ LockExpires(k) \/ LockOutlived(k)
  /\ UNCHANGED <<jobVars, order, left>>

-----------------------------------------------------------------------------

\* What the SELECT of catalog.refresh finds.
Listed == {i \in DOMAIN Batch : db[Batch[i]] # NoProduct}

Start(j) ==
  /\ TakeJob(j)
  /\ left' = [i \in Refreshes |-> IF i = j THEN Listed ELSE left[i]]
  /\ UNCHANGED <<cacheVars, order>>

\* catalog.refresh goes on to the first product that is left.
NextLeft(j) == CHOOSE i \in left[j] : \A h \in left[j] : i <= h

RefreshMoves(j) ==
  LET i == NextLeft(j) IN
  /\ j \in Refreshes
  /\ job[j] = "active"
  /\ stage[j] \in {"idle", "returned"}
  /\ left[j] # {}
  /\ left' = [left EXCEPT ![j] = @ \ {i}]
  /\ key' = [key EXCEPT ![j] = Batch[i]]
  /\ Goto(j, "asking")
  /\ UNCHANGED <<db, lock, got, overtaken, outlived, jobVars, order>>

\* It invalidates the card ...
RefreshNext(j) ==
  /\ RefreshMoves(j)
  /\ Dropped({Batch[NextLeft(j)]})
  /\ UNCHANGED faults

\* ... or the DEL fails and is logged.
NotDropped(j) ==
  /\ RefreshMoves(j)
  /\ Fault
  /\ UNCHANGED <<cache, excused>>

\* Then it calls getOrLoad, which hits a card that is still or again there.
RefreshCall(j) ==
  /\ j \in Refreshes
  /\ job[j] = "active"
  /\ stage[j] = "asking"
  /\ Call(j, key[j])
  /\ UNCHANGED <<jobVars, order, left>>

RefreshReadFails(j) ==
  /\ j \in Refreshes
  /\ job[j] = "active"
  /\ stage[j] = "asking"
  /\ ReadFails(j, key[j])
  /\ UNCHANGED <<jobVars, order, left>>

\* The processor returns or throws; a refresh throws when getOrLoad did.
Finish(j) ==
  /\ IF j \in Refreshes
     THEN \/ stage[j] = "raised" /\ Throw(j)
          \/ stage[j] \in {"idle", "returned"} /\ left[j] = {} /\ Complete(j)
     ELSE IF Fails(j) THEN Throw(j) ELSE Complete(j)
  /\ stage' = [r \in Callers |-> IF r = j THEN "idle" ELSE stage[r]]
  /\ left' = [i \in Refreshes |-> IF i = j THEN {} ELSE left[i]]
  /\ UNCHANGED <<db, cache, lock, key, got, faults, overtaken, excused, outlived, order>>

Again(j) == BackoffEnds(j) /\ UNCHANGED <<cacheVars, order, left>>

\* A refresh that dies leaves its lock behind.
Die ==
  /\ WorkerDies
  /\ Fault
  /\ stage' = [r \in Callers |-> IF r \in Active THEN "idle" ELSE stage[r]]
  /\ got' = [r \in Callers |-> IF r \in Active THEN Miss ELSE got[r]]
  /\ left' = [i \in Refreshes |-> IF i \in Active THEN {} ELSE left[i]]
  /\ overtaken' = overtaken \ Active
  /\ UNCHANGED <<db, cache, lock, key, excused, outlived, order>>

JobStep(j) == Start(j) \/ Finish(j) \/ Again(j)

RefreshStep(j) == RefreshNext(j) \/ RefreshCall(j)

RefreshFault(j) == NotDropped(j) \/ RefreshReadFails(j)

Next ==
  \/ \E r \in Requests : Get(r)
  \/ \E r \in Callers : Work(r)
  \/ \E b \in Orders : Buy(b) \/ Invalidate(b) \/ NotInvalidated(b) \/ Cancel(b)
  \/ \E k \in Products : Create(k) \/ Evict(k) \/ Unlock(k)
  \/ \E j \in Jobs : JobStep(j) \/ RefreshStep(j) \/ RefreshFault(j)
  \/ Die

Spec == Init /\ [][Next]_vars

\* Calls and jobs go on, and locks expire.
FairSpec ==
  /\ Spec
  /\ \A r \in Callers :
       WF_vars(CallStep(r) /\ UNCHANGED <<jobVars, order, left>>)
  /\ \A k \in Products : WF_vars(LockExpires(k) /\ UNCHANGED <<jobVars, order, left>>)
  /\ \A j \in Jobs : WF_vars(JobStep(j) \/ RefreshStep(j))

-----------------------------------------------------------------------------

Cached(k) == cache[k] # Miss

\* A cached card is behind the database only while an order that bought the
\* product has yet to delete it, or for one of the reasons nothing deletes it:
\* a load that a change overtook, a lost DEL, a cancellation, a new product
\* (orders.service.ts:40-46, cache-aside.ts:56-69).
StaleForCause ==
  \A k \in Products :
    Cached(k) /\ cache[k] < db[k] =>
      k \in excused \/ \E b \in Orders : order[b] = "committed" /\ k \in Buys[b]

\* Every GET /products/{id} is answered and every job comes to its end, through
\* dead lock holders, failed attempts and dead workers.
EverythingSettles ==
  <>[](/\ \A r \in Requests : stage[r] \in {"idle", "returned", "raised"}
       /\ \A j \in Jobs : job[j] \in {"completed", "failed"})
=============================================================================
