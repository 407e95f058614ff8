---------------------------- MODULE Fulfillment ----------------------------
(***************************************************************************)
(* The consuming half of the pipeline on its own: a work queue that        *)
(* somebody publishes to, each event up to MaxCopies times, and the        *)
(* consumers.                                                              *)
(***************************************************************************)
EXTENDS Consumer

CONSTANT MaxCopies  \* bound: messages published per event

fulfillmentVars == <<consumerVars, brokerVars>>

\* A message arrives, wanted or not: relays duplicate, and anyone may publish
\* to the exchange.
Arrive(e) ==
  /\ accepted[e] < MaxCopies
  /\ Accept(e)
  /\ UNCHANGED <<consumerVars, waiting, dlq, faults>>

Init == BrokerInit /\ ConsumerInit
Next == ConsumerNext \/ \E e \in Events : Arrive(e)
Spec == Init /\ [][Next]_fulfillmentVars
FairSpec == Spec /\ ConsumerFairness

-----------------------------------------------------------------------------

\* Every message is dealt with in the end: shipped and confirmed, or in the
\* dead-letter queue.
EventuallyFulfilled ==
  \A e \in Events :
    accepted[e] > 0 ~> (e \in shipped /\ e \in confirmed) \/ e \in dlq
=============================================================================
