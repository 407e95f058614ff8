---------------------------- MODULE OrderChanges ----------------------------
(***************************************************************************)
(* PATCH /orders/{id}/status: OrdersService.changeStatus                   *)
(* (orders/orders.service.ts) with order-status.ts and the order_events    *)
(* table.  One transaction locks the order, checks the transition, writes  *)
(* the status and the numbered event; the event is published on the        *)
(* process's Subject only after the commit, in a step of its own, so two   *)
(* changes may be published in another order than they committed in.       *)
(***************************************************************************)
EXTENDS Integers, Sequences

CONSTANTS
  Pods,        \* application processes
  Orders,      \* the orders that exist
  Changes,     \* PATCH requests
  OrderOf,     \* OrderOf[x]: the order change x is about
  NextOf,      \* NextOf[x]: the status it asks for
  Routes,      \* which process may serve which change, as functions
  MaxCrashes   \* bound: process crashes, failed transactions, lost answers of COMMIT

OrderStatus == {"pending", "paid", "processing", "shipped", "out_for_delivery",
                "delivered", "cancelled"}

ASSUME ChangesAssumption ==
  /\ OrderOf \in [Changes -> Int]
  /\ NextOf \in [Changes -> OrderStatus]
  /\ Routes \subseteq [Changes -> Pods]
  /\ MaxCrashes \in Nat

VARIABLES
  status,   \* orders.status
  log,      \* log[o]: the rows of order_events, at index seq
  step,     \* step[x]: where change x stands
  seen,     \* seen[x]: order.status as its transaction read it
  pod,      \* pod[x]: the process that serves it
  seqOf,    \* seqOf[x]: event.seq it recorded, 0 before
  crashes

changeVars == <<status, log, step, seen, pod, seqOf, crashes>>

-----------------------------------------------------------------------------

\* ORDER_TRANSITIONS
canTransition(from, to) ==
  \/ from = "pending" /\ to \in {"paid", "cancelled"}
  \/ from = "paid" /\ to \in {"processing", "cancelled"}
  \/ from = "processing" /\ to \in {"shipped", "cancelled"}
  \/ from = "shipped" /\ to = "out_for_delivery"
  \/ from = "out_for_delivery" /\ to = "delivered"

OrderEvent == [status : OrderStatus, previous : OrderStatus]

Step == {"idle", "locked", "committed", "published", "refused", "lost"}

\* checkout inserts orders as paid and records no event for it.
ChangesInit ==
  /\ status = [o \in Orders |-> "paid"]
  /\ log = [o \in Orders |-> << >>]
  /\ step = [x \in Changes |-> "idle"]
  /\ seen = [x \in Changes |-> "paid"]
  /\ pod \in Routes
  /\ seqOf = [x \in Changes |-> 0]
  /\ crashes = 0

Goto(x, s) == step' = [step EXCEPT ![x] = s]

\* Bug: findOne without the pessimistic_write lock.
LockIgnored(o) == TRUE

LockFree(o) == ~\E y \in Changes : step[y] = "locked" /\ OrderOf[y] = o

\* findOne ... FOR UPDATE waits for the row and reads the committed status.
Lock(x) ==
  LET o == OrderOf[x] IN
  /\ step[x] = "idle"
  /\ o \in Orders
  /\ LockFree(o)
  /\ Goto(x, "locked")
  /\ seen' = [seen EXCEPT ![x] = status[o]]
  /\ UNCHANGED <<status, log, pod, seqOf, crashes>>

\* 404 for an unknown order, 409 for a transition that is not allowed.
Refuse(x) ==
  /\ \/ step[x] = "idle" /\ OrderOf[x] \notin Orders
     \/ step[x] = "locked" /\ ~canTransition(seen[x], NextOf[x])
  /\ Goto(x, "refused")
  /\ UNCHANGED <<status, log, seen, pod, seqOf, crashes>>

\* The status and its event, numbered under the lock, commit together.
Records(x) ==
  LET o == OrderOf[x] IN
  /\ step[x] = "locked"
  /\ canTransition(seen[x], NextOf[x])
  /\ status' = [status EXCEPT ![o] = NextOf[x]]
  /\ log' = [log EXCEPT ![o] =
               Append(@, [status |-> NextOf[x], previous |-> seen[x]])]
  /\ seqOf' = [seqOf EXCEPT ![x] = Len(log[o]) + 1]
  /\ UNCHANGED <<seen, pod>>

Commit(x) == Records(x) /\ Goto(x, "committed") /\ UNCHANGED crashes

\* The answer to COMMIT is lost: the request fails, and the event that is in
\* the history is never published.
CommitUnheard(x) ==
  /\ Records(x)
  /\ crashes < MaxCrashes
  /\ crashes' = crashes + 1
  /\ Goto(x, "lost")

\* this.events.publish(event), once the commit has come back to the process.
Publish(x) ==
  /\ step[x] = "committed"
  /\ Goto(x, "published")
  /\ UNCHANGED <<status, log, seen, pod, seqOf, crashes>>

\* The transaction fails and rolls back.
Fail(x) ==
  /\ step[x] = "locked"
  /\ crashes < MaxCrashes
  /\ crashes' = crashes + 1
  /\ Goto(x, "lost")
  /\ UNCHANGED <<status, log, seen, pod, seqOf>>

\* Process p dies: what it had locked rolls back, what it had committed is
\* never published.
Crash(p) ==
  /\ crashes < MaxCrashes
  /\ crashes' = crashes + 1
  /\ step' = [x \in Changes |->
                IF pod[x] = p /\ step[x] \in {"locked", "committed"}
                THEN "lost" ELSE step[x]]
  /\ UNCHANGED <<status, log, seen, pod, seqOf>>

-----------------------------------------------------------------------------

ChangesTypeOK ==
  /\ status \in [Orders -> OrderStatus]
  /\ log \in [Orders -> Seq(OrderEvent)]
  /\ step \in [Changes -> Step]
  /\ seen \in [Changes -> OrderStatus]
  /\ pod \in [Changes -> Pods]
  /\ seqOf \in [Changes -> Nat]
  /\ crashes \in Nat

\* The events of an order are its history: each one starts where the one
\* before it ended, the first where checkout left the order, every one is an
\* allowed transition, and the last one is orders.status.  A status without
\* its event, or two concurrent changes that both build on one status, would
\* break it (the README: a change without its event is impossible).
StatusFollowsEvents ==
  \A o \in Orders :
    LET n == Len(log[o]) IN
    /\ \A i \in 1..n :
         /\ log[o][i].previous = IF i = 1 THEN "paid" ELSE log[o][i - 1].status
         /\ canTransition(log[o][i].previous, log[o][i].status)
    /\ status[o] = IF n = 0 THEN "paid" ELSE log[o][n].status
=============================================================================
