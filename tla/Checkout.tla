------------------------------ MODULE Checkout ------------------------------
(***************************************************************************)
(* POST /orders: placeOrder (orders/place-order.ts) runs checkout          *)
(* (checkout/checkout.ts) inside the transaction that IdempotencyStore.run *)
(* (common/idempotency.ts) opens for the Idempotency-Key.                  *)
(*                                                                         *)
(* PostgreSQL at READ COMMITTED: a statement sees what is committed; what  *)
(* a transaction wrote stays its own until it commits, and a second writer *)
(* of the same row (or key) waits for it.  So the variables below are the  *)
(* committed tables, and what a transaction holds is in pc and reserved.   *)
(* Every step is one statement; the INSERTs of order, items, task and      *)
(* outbox row conflict with nobody and are part of the commit.             *)
(***************************************************************************)
EXTENDS Shop

VARIABLES
  stored,    \* idempotency_keys: requests whose key row is committed
  orders,    \* orders: requests whose order is committed
  stock,     \* products.stock
  balance,   \* users.balance_cents
  pruned,    \* auxiliary: per key, how often its row was pruned
  pc,        \* pc[q]: where request q stands, finally its answer
  reserved,  \* reserved[q]: products q's transaction has updated
  original   \* original[q]: the request whose order q's answer carries

tables == <<stored, orders, stock, balance, pruned>>
checkoutVars == <<tables, pc, reserved, original>>

-----------------------------------------------------------------------------

\* "claim": about to insert the key; "lookup": the key is taken; "reserve",
\* "save": inside checkout, before and after the buyer is charged.
Open == {"claim", "lookup", "reserve", "save"}

\* "created", "replayed": 201; "reused": 422; "conflict": 409; "unknown": 404;
\* "lost": an error or no answer at all.
Answers == {"created", "replayed", "reused", "conflict", "unknown", "lost"}

CheckoutInit ==
  /\ stored = {}
  /\ orders = {}
  /\ stock = InitialStock
  /\ balance = InitialBalance
  /\ pruned = [k \in Keys |-> 0]
  /\ pc = [q \in Requests |-> "claim"]
  /\ reserved = [q \in Requests |-> {}]
  /\ original = [q \in Requests |-> q]

CheckoutTypeOK ==
  /\ stored \subseteq Requests
  /\ orders \subseteq Requests
  /\ stock \in [Catalog -> Nat]
  /\ balance \in [Accounts -> Nat]
  /\ pruned \in [Keys -> Nat]
  /\ pc \in [Requests -> Open \union Answers]
  /\ reserved \in [Requests -> SUBSET Catalog]
  /\ original \in [Requests -> Requests]

KeyRows(k) == {o \in stored : KeyOf[o] = k}

\* What an open transaction keeps others from: its key from the insert on, the
\* products it has updated, the account it has charged.
HoldsKey(q, k) == pc[q] \in {"reserve", "save"} /\ KeyOf[q] = k
HoldsProduct(q, p) == p \in reserved[q]
HoldsAccount(q, u) == pc[q] = "save" /\ Buyer(q) = u

KeyFree(k) == \A o \in Requests : ~HoldsKey(o, k)
ProductFree(p) == \A o \in Requests : ~HoldsProduct(o, p)
AccountFree(u) == \A o \in Requests : ~HoldsAccount(o, u)

MoveTo(q, s) == pc' = [pc EXCEPT ![q] = s]

\* COMMIT or ROLLBACK: q has its answer and lets go of its locks.
End(q, answer) ==
  /\ MoveTo(q, answer)
  /\ reserved' = [reserved EXCEPT ![q] = {}]

-----------------------------------------------------------------------------

\* Bug: looks for the row and inserts it without the unique key making it wait.
ClaimWithoutWaiting(q) ==
  /\ pc[q] = "claim"
  /\ MoveTo(q, IF KeyRows(KeyOf[q]) # {} THEN "lookup" ELSE "reserve")
  /\ UNCHANGED <<tables, reserved, original>>

\* INSERT INTO idempotency_keys ... ON CONFLICT DO NOTHING RETURNING: waits for
\* a transaction that is inserting the same key.
Claim(q) ==
  /\ pc[q] = "claim"
  /\ \/ KeyRows(KeyOf[q]) # {} /\ MoveTo(q, "lookup")
     \/ KeyRows(KeyOf[q]) = {} /\ KeyFree(KeyOf[q]) /\ MoveTo(q, "reserve")
  /\ UNCHANGED <<tables, reserved, original>>

\* Bug: the fingerprint is not compared.
LookupByKeyOnly(q) ==
  /\ pc[q] = "lookup"
  /\ \/ \E o \in KeyRows(KeyOf[q]) :
          End(q, "replayed") /\ original' = [original EXCEPT ![q] = o]
     \/ KeyRows(KeyOf[q]) = {} /\ End(q, "reused") /\ UNCHANGED original
  /\ UNCHANGED tables

\* SELECT fingerprint, result: the stored answer for the same body, an
\* IdempotencyKeyReuseError for another body or when the row is gone by now.
Lookup(q) ==
  /\ pc[q] = "lookup"
  /\ \/ \E o \in KeyRows(KeyOf[q]) :
          /\ BodyOf[o] = BodyOf[q]
          /\ End(q, "replayed")
          /\ original' = [original EXCEPT ![q] = o]
     \/ /\ \A o \in KeyRows(KeyOf[q]) : BodyOf[o] # BodyOf[q]
        /\ End(q, "reused")
        /\ UNCHANGED original
  /\ UNCHANGED tables

\* Bug: the lines in the order of the request.
IsAnyNext(q, p) == p \in Items(q) \ reserved[q]

\* The merged lines are taken in the order of their product ids.
IsNextLine(q, p) ==
  /\ p \in Items(q) \ reserved[q]
  /\ \A o \in Items(q) \ reserved[q] : p <= o

\* Bug: stock is read first and written back later, so nothing waits.
ReserveWithoutLock(q, p) ==
  /\ pc[q] = "reserve"
  /\ IsNextLine(q, p)
  /\ p \in Catalog
  /\ stock[p] >= Units(q, p)
  /\ reserved' = [reserved EXCEPT ![q] = @ \union {p}]
  /\ UNCHANGED <<tables, pc, original>>

\* UPDATE products ... WHERE stock >= $2: waits for the row, then looks again.
Reserve(q, p) ==
  /\ pc[q] = "reserve"
  /\ IsNextLine(q, p)
  /\ p \in Catalog
  /\ ProductFree(p)
  /\ stock[p] >= Units(q, p)
  /\ reserved' = [reserved EXCEPT ![q] = @ \union {p}]
  /\ UNCHANGED <<tables, pc, original>>

\* No row comes back: not enough stock (also seen without waiting), or no such
\* product.  The error rolls everything back, the key too.
ReserveRefused(q, p) ==
  /\ pc[q] = "reserve"
  /\ IsNextLine(q, p)
  /\ \/ p \notin Catalog /\ End(q, "unknown")
     \/ p \in Catalog /\ stock[p] < Units(q, p) /\ End(q, "conflict")
  /\ UNCHANGED <<tables, original>>

\* UPDATE users ... WHERE balance_cents >= $2, once all lines are reserved.
Charge(q) ==
  /\ pc[q] = "reserve"
  /\ Items(q) = reserved[q]
  /\ Buyer(q) \in Accounts
  /\ AccountFree(Buyer(q))
  /\ balance[Buyer(q)] >= Cost(q)
  /\ MoveTo(q, "save")
  /\ UNCHANGED <<tables, reserved, original>>

\* Bug: the error is answered, but the transaction is left open.
ChargeRefusedKeepsLocks(q) ==
  /\ pc[q] = "reserve"
  /\ Items(q) = reserved[q]
  /\ \/ Buyer(q) \notin Accounts /\ MoveTo(q, "unknown")
     \/ Buyer(q) \in Accounts /\ balance[Buyer(q)] < Cost(q) /\ MoveTo(q, "conflict")
  /\ UNCHANGED <<tables, reserved, original>>

ChargeRefused(q) ==
  /\ pc[q] = "reserve"
  /\ Items(q) = reserved[q]
  /\ \/ Buyer(q) \notin Accounts /\ End(q, "unknown")
     \/ Buyer(q) \in Accounts /\ balance[Buyer(q)] < Cost(q) /\ End(q, "conflict")
  /\ UNCHANGED <<tables, original>>

\* Bug: every line is charged to the stock once, whatever its quantity.
CommittedOneUnitEach(q) ==
  /\ stored' = stored \union {q}
  /\ orders' = orders \union {q}
  /\ stock' = [p \in Catalog |-> IF p \in reserved[q] THEN stock[p] - 1 ELSE stock[p]]
  /\ balance' = [balance EXCEPT ![Buyer(q)] = @ - Cost(q)]
  /\ UNCHANGED pruned

\* What COMMIT makes visible: order, items, task, outbox row, the reserved
\* stock, the charge, and the key with the order as its result.
Committed(q) ==
  /\ stored' = stored \union {q}
  /\ orders' = orders \union {q}
  /\ stock' = [p \in Catalog |->
                 IF p \in reserved[q] THEN stock[p] - Units(q, p) ELSE stock[p]]
  /\ balance' = [balance EXCEPT ![Buyer(q)] = @ - Cost(q)]
  /\ UNCHANGED pruned

CommitOrder(q) ==
  /\ pc[q] = "save"
  /\ Committed(q)
  /\ End(q, "created")
  /\ UNCHANGED original

\* A statement fails, the pod dies or the connection drops: rolled back.  Or
\* the COMMIT took effect and the answer was lost.
Lose(q) ==
  /\ pc[q] \in Open
  /\ Cardinality({o \in Requests : pc[o] = "lost"}) < MaxLost
  /\ UNCHANGED tables \/ (pc[q] = "save" /\ Committed(q))
  /\ End(q, "lost")
  /\ UNCHANGED original

\* prune.ts deletes keys older than 24 hours.
PruneKey(k) ==
  /\ KeyRows(k) # {}
  /\ SumFunctionOnSet(pruned, Keys) < MaxPrunes
  /\ stored' = stored \ KeyRows(k)
  /\ pruned' = [pruned EXCEPT ![k] = @ + 1]
  /\ UNCHANGED <<orders, stock, balance, pc, reserved, original>>

-----------------------------------------------------------------------------

\* What a request does by itself.
Step(q) ==
  \/ Claim(q)
  \/ Lookup(q)
  \/ \E p \in Products : Reserve(q, p) \/ ReserveRefused(q, p)
  \/ Charge(q)
  \/ ChargeRefused(q)
  \/ CommitOrder(q)

CheckoutNext ==
  \/ \E q \in Requests : Step(q) \/ Lose(q)
  \/ \E k \in Keys : PruneKey(k)

CheckoutSpec == CheckoutInit /\ [][CheckoutNext]_checkoutVars

\* A request whose statement can run runs it.
CheckoutFairSpec == CheckoutSpec /\ \A q \in Requests : WF_checkoutVars(Step(q))

-----------------------------------------------------------------------------

\* One key, one order, however many requests carry it and however they overlap
\* or get lost; only a key the retention job took away can order again.
OneOrderPerKey ==
  \A k \in Keys :
    Cardinality({o \in orders : KeyOf[o] = k}) <= 1 + pruned[k]

\* What is gone from stock and balances is exactly what the committed orders
\* took, and neither is ever overdrawn (checks in the two UPDATEs).
BooksBalance ==
  /\ \A p \in Catalog :
       /\ stock[p] >= 0
       /\ stock[p] = InitialStock[p] - SumFunctionOnSet([o \in Requests |-> Units(o, p)], orders)
  /\ \A u \in Accounts :
       /\ balance[u] >= 0
       /\ balance[u] = InitialBalance[u]
                         - SumFunctionOnSet([o \in Requests |-> Cost(o)],
                                            {o \in orders : Buyer(o) = u})

\* A replayed answer is the order of a request with the same key and the same
\* body, and that order was committed.
ReplayIsOriginal ==
  \A q \in Requests :
    pc[q] = "replayed" =>
      /\ original[q] \in orders \ {q}
      /\ KeyOf[original[q]] = KeyOf[q]
      /\ BodyOf[original[q]] = BodyOf[q]

\* q's next statement waits for a row or key of o's transaction.
WaitsFor(q, o) ==
  /\ q # o
  /\ \/ pc[q] = "claim" /\ KeyRows(KeyOf[q]) = {} /\ HoldsKey(o, KeyOf[q])
     \/ /\ pc[q] = "reserve"
        /\ \E p \in Catalog :
             IsNextLine(q, p) /\ stock[p] >= Units(q, p) /\ HoldsProduct(o, p)
     \/ /\ pc[q] = "reserve"
        /\ Items(q) = reserved[q]
        /\ Buyer(q) \in Accounts /\ balance[Buyer(q)] >= Cost(q)
        /\ HoldsAccount(o, Buyer(q))

\* Checkouts never wait for each other in a circle, whatever products they
\* share (locks are taken in one order: key, products by id, user).
NoDeadlock ==
  LET waiting == {q \in Requests : \E o \in Requests : WaitsFor(q, o)}
  IN  \A S \in (SUBSET waiting) \ {{}} :
        \E q \in S : \A o \in S : ~WaitsFor(q, o)

\* Key rows are unique, and belong to requests whose order is committed.
KeysUnique ==
  /\ stored \subseteq orders
  /\ \A o, s \in stored : KeyOf[o] = KeyOf[s] => o = s

\* A transaction past its claim is the only one of its key, and is not done.
ClaimsHold ==
  /\ \A q \in Requests : pc[q] \in Open => q \notin orders
  /\ \A q \in Requests :
       pc[q] \in {"reserve", "save"} => KeyRows(KeyOf[q]) = {}
  /\ \A q, o \in Requests :
       /\ q # o
       /\ pc[q] \in {"reserve", "save"}
       /\ pc[o] \in {"reserve", "save"}
       => KeyOf[q] # KeyOf[o]

\* What a transaction has reserved stays there for it until it commits.
ReservationsHold ==
  /\ \A q \in Requests : \A p \in reserved[q] :
       /\ pc[q] \in {"reserve", "save"}
       /\ p \in Items(q)
       /\ stock[p] >= Units(q, p)
  /\ \A q, o \in Requests : q # o => reserved[q] \cap reserved[o] = {}

\* A transaction has reserved its products from the smallest id up.
ReservedInOrder ==
  \A q \in Requests : \A p \in reserved[q] : \A r \in Items(q) \ reserved[q] : p < r

\* What a transaction has charged stays there for it, too.
ChargesHold ==
  /\ \A q \in Requests : pc[q] = "save" =>
       /\ reserved[q] = Items(q)
       /\ Buyer(q) \in Accounts
       /\ balance[Buyer(q)] >= Cost(q)
  /\ \A q, o \in Requests :
       q # o /\ pc[q] = "save" /\ pc[o] = "save" => Buyer(q) # Buyer(o)

\* Every order of a key is its present row, or one the retention job took away.
OrdersCounted ==
  \A k \in Keys :
    Cardinality({o \in orders : KeyOf[o] = k}) =
      pruned[k] + (IF KeyRows(k) = {} THEN 0 ELSE 1)

\* The inductive invariant of the checkout.
CheckoutInv ==
  /\ CheckoutTypeOK
  /\ KeysUnique
  /\ ClaimsHold
  /\ ReservationsHold
  /\ ChargesHold
  /\ ReplayIsOriginal

\* Every request gets an answer.
EveryRequestAnswered == \A q \in Requests : <>(pc[q] \in Answers)

\* To its callers, POST /orders is atomic.
Atomic == INSTANCE OrderBook WITH
  outcome <- [q \in Requests |-> IF pc[q] \in Open THEN "open" ELSE pc[q]]

ImplementsOrderBook == Atomic!Spec

\* A refused key "was already used with a different request body", says the
\* error (common/idempotency.ts:11).  But a row that the retention job takes
\* away between the INSERT and the SELECT refuses the same body too.
RefusedForAnotherBody ==
  \A q \in Requests :
    pc[q] = "reused" =>
      \E o \in Requests :
        pc[o] # "claim" /\ KeyOf[o] = KeyOf[q] /\ BodyOf[o] # BodyOf[q]
=============================================================================
