------------------------------ MODULE Delivery ------------------------------
(***************************************************************************)
(* The whole pipeline: checkouts fill the outbox, relays carry its rows to *)
(* the broker, consumers turn the messages into shipments and confirmation *)
(* jobs.  Both halves share the broker.                                    *)
(***************************************************************************)
EXTENDS Relay, Consumer

vars == <<relayVars, consumerVars, brokerVars>>

Init == BrokerInit /\ RelayInit /\ ConsumerInit

Next ==
  \/ RelayNext /\ UNCHANGED consumerVars
  \/ ConsumerNext /\ UNCHANGED relayVars

Spec == Init /\ [][Next]_vars

-----------------------------------------------------------------------------

TypeOK == BrokerTypeOK /\ RelayTypeOK /\ ConsumerTypeOK

\* The order of event e is committed.
Placed(e) == outbox[e].status # "none"

\* An order's event always has somebody who answers for it: the outbox row
\* that is still pending, a message of it, its shipment, or the dead-letter
\* queue.  Holds through crashes of relays and consumers, lost sessions, lost
\* confirms and pruning.
NoOrderForgotten ==
  \A e \in Events :
    \/ outbox[e].status \in {"none", "pending"}
    \/ InTransit(e)
    \/ e \in shipped
    \/ e \in dlq

\* What a pass has drafted, or is about to draft, the broker can vouch for.
DraftsBacked ==
  \A r \in Relays : \A e \in Events :
    /\ draft[r][e].status # "pruned"
    /\ draft[r][e].status = "published" => accepted[e] > 0
    /\ draft[r][e].status = "failed" => e \in dlq
    /\ rpc[r] = "mark" /\ IsNext(r, e) => accepted[e] > 0
    /\ rpc[r] = "fail" /\ IsNext(r, e) => e \in dlq

\* Nothing is about an order that is not committed.
OnlyPlaced ==
  /\ \A e \in Events : accepted[e] > 0 \/ e \in dlq => Placed(e)
  /\ \A m \in Msg : work[m] > 0 \/ waiting[m] > 0 => Placed(m.event)
  /\ \A h \in Handler : stage[h] # "free" => Placed(Event(h))
  /\ \A r \in Relays :
       /\ \A e \in todo[r] : Placed(e)
       /\ \A e \in locked[r] : draft[r][e].status # "none"

\* A handler that goes on to the confirmation has a shipment behind it.
AppliedMeansShipped ==
  \A h \in Handler : stage[h] = "applied" => Event(h) \in shipped

\* The inductive invariant of the pipeline.
Inv ==
  /\ SettledMeansHandedOver
  /\ DraftsBacked
  /\ OnlyPlaced
  /\ NoMessageLost
  /\ ConfirmationOwed
  /\ ProcessedMeansShipped
  /\ AppliedMeansShipped

\* The pipeline implements what it promises.
Promise == INSTANCE OrderFulfillment WITH
  placed <- {e \in Events : Placed(e)},
  aside <- dlq

ImplementsPromise == Promise!Spec

\* Every placed order is shipped and its customer told, or an operator finds
\* its event in the dead-letter queue.
EveryOrderSettled ==
  \A e \in Events :
    Placed(e) ~> (e \in shipped /\ e \in confirmed) \/ e \in dlq
=============================================================================
