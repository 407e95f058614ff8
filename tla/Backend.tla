------------------------------ MODULE Backend ------------------------------
(***************************************************************************)
(* The checkout and the pipeline behind it as one system.  checkout.ts     *)
(* inserts the outbox row in the transaction that inserts the order, so    *)
(* the commit of an order is what PlaceOrder is in Relay.  A request and   *)
(* the event of the order it may create have the same number.              *)
(***************************************************************************)
EXTENDS Checkout, Delivery

BackendInit == CheckoutInit /\ Init

\* Bug: the row is inserted through the pool and not in the transaction, so it
\* is there whether the order commits or not.
InsertOnItsOwn(q) ==
  IF pc[q] = "save" /\ pc'[q] # "save"
    THEN PlaceOrder(q) /\ UNCHANGED consumerVars
    ELSE UNCHANGED vars

\* The outbox row becomes visible with its order, or not at all.
InsertOutboxRow(q) ==
  IF q \in orders' \ orders
    THEN PlaceOrder(q) /\ UNCHANGED consumerVars
    ELSE UNCHANGED vars

\* Relays, broker, consumers and the retention of their tables; orders come
\* from the checkout only.
Pipeline ==
  /\ Next
  /\ \A e \in Events : Placed(e)' = Placed(e)
  /\ UNCHANGED checkoutVars

BackendNext ==
  \/ \E q \in Requests : (Step(q) \/ Lose(q)) /\ InsertOutboxRow(q)
  \/ \E k \in Keys : PruneKey(k) /\ UNCHANGED vars
  \/ Pipeline

backendVars == <<checkoutVars, vars>>

BackendSpec == BackendInit /\ [][BackendNext]_backendVars

\* RelayFairness and ConsumerFairness, for the composed steps.
BackendFairSpec ==
  /\ BackendSpec
  /\ \A r \in Relays : WF_backendVars(RelayStep(r) /\ UNCHANGED <<consumerVars, checkoutVars>>)
  /\ \A e \in Events :
       WF_backendVars(BackoffElapses(e) /\ UNCHANGED <<consumerVars, checkoutVars>>)
  /\ \A h \in Handler :
       /\ WF_backendVars(HandlerStep(h) /\ UNCHANGED <<relayVars, checkoutVars>>)
       /\ WF_backendVars(ReturnToQueue(h) /\ UNCHANGED <<relayVars, checkoutVars>>)
  /\ \A m \in Msg :
       /\ WF_backendVars((\E h \in Handler : Receive(h, m)) /\ UNCHANGED <<relayVars, checkoutVars>>)
       /\ WF_backendVars(RetryExpires(m) /\ UNCHANGED <<consumerVars, relayVars, checkoutVars>>)
  /\ \A c \in Consumers : WF_backendVars(Replaced(c) /\ UNCHANGED <<relayVars, checkoutVars>>)

-----------------------------------------------------------------------------

ShippedUnits(p) == SumFunctionOnSet([o \in Requests |-> Units(o, p)], shipped)

\* A customer is told of what left the warehouse, and what left it was ordered
\* and bought with the stock it takes; one shipment per Idempotency-Key, and
\* one more for each time the key was pruned at most, however many requests
\* carried it, however many copies of the event were delivered, and whatever
\* crashed between.
ShippedAsSold ==
  /\ confirmed \subseteq shipped
  /\ shipped \subseteq orders
  /\ \A k \in Keys : Cardinality({o \in shipped : KeyOf[o] = k}) <= 1 + pruned[k]
  /\ \A p \in Catalog : ShippedUnits(p) + stock[p] <= InitialStock[p]

\* A customer who was answered 201, for a new order or a replayed one, has an
\* order that is shipped, under way, or in an operator's hands.
AnsweredIsCarried ==
  \A q \in Requests :
    pc[q] \in {"created", "replayed"} =>
      LET e == original[q] IN
      \/ outbox[e].status = "pending"
      \/ InTransit(e)
      \/ e \in shipped
      \/ e \in dlq
=============================================================================
