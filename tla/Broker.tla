------------------------------- MODULE Broker -------------------------------
(***************************************************************************)
(* RabbitMQ as src/events uses it (events/topology.ts): the work queue     *)
(* fulfillment.order-placed, the TTL queue that holds retries back, and    *)
(* the dead-letter queue.  The broker itself is outside the repository: it *)
(* is modelled from the queue arguments the code declares and from what    *)
(* the publisher and the consumer rely on.                                 *)
(*                                                                         *)
(* A queue is a bag: the work queue is shared by several consumers that    *)
(* each prefetch, returned messages rejoin it, so no order can be relied   *)
(* upon.                                                                   *)
(***************************************************************************)
EXTENDS Integers

CONSTANTS
  Events,         \* outbox rows = events, numbered in (created_at, id) order
  MaxRetries,     \* MAX_RETRIES: how often a consumer sends a message round again
  DeliveryLimit,  \* DELIVERY_LIMIT: x-delivery-limit of the quorum queue
  MaxFaults       \* bound: crashes, lost confirms, failed calls in one behaviour

ASSUME BrokerAssumption ==
  /\ Events \subseteq Nat
  /\ Events # {}
  /\ MaxRetries \in Nat
  /\ DeliveryLimit \in Nat
  /\ MaxFaults \in Nat

VARIABLES
  work,      \* messages ready in the work queue: a bag
  waiting,   \* messages sitting out their TTL in the retry queue: a bag
  dlq,       \* events with a message in the dead-letter queue
  accepted,  \* auxiliary: per event, messages the work queue took from a relay
  faults     \* faults so far, bounded by MaxFaults

brokerVars == <<work, waiting, dlq, accepted, faults>>

-----------------------------------------------------------------------------

\* A message: the event it carries, its x-retry header, and how often the
\* quorum queue got it back without an answer (x-delivery-count).
Msg == [event: Events, retry: 0..MaxRetries, returned: 0..DeliveryLimit]

Fresh(e) == [event |-> e, retry |-> 0, returned |-> 0]

\* The copy a consumer sends round again, and the message the queue takes back.
NextTry(m) == [event |-> m.event, retry |-> m.retry + 1, returned |-> 0]
OnceMore(m) ==
  [event |-> m.event, retry |-> m.retry, returned |-> m.returned + 1]

EmptyBag == [m \in Msg |-> 0]
Put(bag, m) == [bag EXCEPT ![m] = @ + 1]
Take(bag, m) == [bag EXCEPT ![m] = @ - 1]

BrokerInit ==
  /\ work = EmptyBag
  /\ waiting = EmptyBag
  /\ dlq = {}
  /\ accepted = [e \in Events |-> 0]
  /\ faults = 0

\* Something goes wrong once more.
Fault ==
  /\ faults < MaxFaults
  /\ faults' = faults + 1

\* A relay's publish reaches the work queue.
Accept(e) ==
  /\ work' = Put(work, Fresh(e))
  /\ accepted' = [accepted EXCEPT ![e] = @ + 1]

DeadLetter(e) == dlq' = dlq \union {e}

\* The channel that held m is gone.  The quorum queue counts the return and
\* dead-letters the message once its delivery limit is spent.
Returned(m) ==
  \/ /\ m.returned < DeliveryLimit
     /\ work' = Put(work, OnceMore(m))
     /\ UNCHANGED dlq
  \/ /\ m.returned = DeliveryLimit
     /\ DeadLetter(m.event)
     /\ UNCHANGED work

\* The TTL of a message in the retry queue runs out: the default exchange
\* routes it back to the work queue.
RetryExpires(m) ==
  /\ waiting[m] > 0
  /\ waiting' = Take(waiting, m)
  /\ work' = Put(work, m)
  /\ UNCHANGED <<dlq, accepted, faults>>

BrokerTypeOK ==
  /\ work \in [Msg -> Nat]
  /\ waiting \in [Msg -> Nat]
  /\ dlq \subseteq Events
  /\ accepted \in [Events -> Nat]
  /\ faults \in 0..MaxFaults
=============================================================================
