----------------------------- MODULE OrderBook -----------------------------
(***************************************************************************)
(* POST /orders as its caller may think of it: every request takes effect  *)
(* in one step.  It creates an order (stock, money, order and key          *)
(* together), or replays the stored one, or is refused with nothing        *)
(* changed.  No locks, statements or transactions here.                    *)
(***************************************************************************)
EXTENDS Integers

CONSTANTS
  Requests, Keys, KeyOf, BodyOf,
  Items(_),      \* the products a request orders
  Units(_, _),   \* how many of each
  Buyer(_),      \* who pays
  Cost(_),        \* how much
  Catalog, Accounts, InitialStock, InitialBalance

VARIABLES
  stored,   \* requests whose key row is in idempotency_keys
  orders,   \* requests whose order exists
  stock,
  balance,
  pruned,   \* auxiliary: per key, how often its row was pruned
  outcome   \* outcome[q]: "open", or the answer q got

vars == <<stored, orders, stock, balance, pruned, outcome>>

KeyRows(k) == {o \in stored : KeyOf[o] = k}

Init ==
  /\ stored = {}
  /\ orders = {}
  /\ stock = InitialStock
  /\ balance = InitialBalance
  /\ pruned = [k \in Keys |-> 0]
  /\ outcome = [q \in Requests |-> "open"]

Answer(q, a) ==
  /\ outcome[q] = "open"
  /\ outcome' = [outcome EXCEPT ![q] = a]

\* The whole purchase, which the key, the stock and the balance must allow.
Purchase(q) ==
  /\ KeyRows(KeyOf[q]) = {}
  /\ Items(q) \subseteq Catalog
  /\ \A p \in Items(q) : stock[p] >= Units(q, p)
  /\ Buyer(q) \in Accounts
  /\ balance[Buyer(q)] >= Cost(q)
  /\ stored' = stored \union {q}
  /\ orders' = orders \union {q}
  /\ stock' = [p \in Catalog |-> stock[p] - Units(q, p)]
  /\ balance' = [balance EXCEPT ![Buyer(q)] = @ - Cost(q)]
  /\ UNCHANGED pruned

Nothing == UNCHANGED <<stored, orders, stock, balance, pruned>>

Create(q) == Answer(q, "created") /\ Purchase(q)

Replay(q) ==
  /\ Answer(q, "replayed")
  /\ \E o \in KeyRows(KeyOf[q]) : BodyOf[o] = BodyOf[q]
  /\ Nothing

\* 422
Reuse(q) ==
  /\ Answer(q, "reused")
  /\ ~\E o \in KeyRows(KeyOf[q]) : BodyOf[o] = BodyOf[q]
  /\ Nothing

\* 409
Conflict(q) ==
  /\ Answer(q, "conflict")
  /\ \/ \E p \in Items(q) \cap Catalog : stock[p] < Units(q, p)
     \/ Buyer(q) \in Accounts /\ balance[Buyer(q)] < Cost(q)
  /\ Nothing

\* 404
Unknown(q) ==
  /\ Answer(q, "unknown")
  /\ ~(Items(q) \subseteq Catalog) \/ Buyer(q) \notin Accounts
  /\ Nothing

\* The request fails; its client cannot tell whether it bought anything.
Fail(q) == Answer(q, "lost") /\ (Purchase(q) \/ Nothing)

Prune(k) ==
  /\ KeyRows(k) # {}
  /\ stored' = stored \ KeyRows(k)
  /\ pruned' = [pruned EXCEPT ![k] = @ + 1]
  /\ UNCHANGED <<orders, stock, balance, outcome>>

Next ==
  \/ \E q \in Requests :
       Create(q) \/ Replay(q) \/ Reuse(q) \/ Conflict(q) \/ Unknown(q) \/ Fail(q)
  \/ \E k \in Keys : Prune(k)

Spec == Init /\ [][Next]_vars
=============================================================================
