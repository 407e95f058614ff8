------------------------------ MODULE Consumer ------------------------------
(***************************************************************************)
(* The fulfilment consumer: events/consumer.ts (startConsumer, handle,     *)
(* applyOrderPlaced, scheduleRetry) run by the process consumer.ts, with   *)
(* the tables it writes and the job queue its afterEffect hook feeds.      *)
(*                                                                         *)
(* A consumer process works on as many messages at once as its prefetch    *)
(* allows; a handler is one of those places.  handle() suspends at every   *)
(* await, so all handlers of all processes interleave step by step.        *)
(***************************************************************************)
EXTENDS Broker

CONSTANTS
  Consumers,  \* consumer processes
  Slots,      \* PREFETCH: unacknowledged messages a process may have
  Malformed,  \* events whose payload parseOrderPlaced rejects
  Orderless   \* events about an order the shipments foreign key does not find

ASSUME ConsumerAssumption ==
  /\ Malformed \subseteq Events
  /\ Orderless \subseteq Events

VARIABLES
  up,         \* processes that consume; the others are shutting down
  stage,      \* stage[h]: where handler h stands
  held,       \* held[h]: the unacknowledged message of handler h
  processed,  \* processed_messages: events marked by a committed transaction
  shipped,    \* shipments: events whose order has a shipment
  confirmed   \* events whose confirmation job was added to the job queue

consumerVars == <<up, stage, held, processed, shipped, confirmed>>
dbVars == <<processed, shipped>>

-----------------------------------------------------------------------------

Handler == Consumers \X Slots

\* "lost": the process is gone and the broker has not taken the message back.
Stage == {"free", "received", "marked", "applied", "failed", "settle", "lost"}

NoMsg == CHOOSE m \in Msg : TRUE

Event(h) == held[h].event

ConsumerInit ==
  /\ up = Consumers
  /\ stage = [h \in Handler |-> "free"]
  /\ held = [h \in Handler |-> NoMsg]
  /\ processed = {}
  /\ shipped = {}
  /\ confirmed = {}

ConsumerTypeOK ==
  /\ up \subseteq Consumers
  /\ stage \in [Handler -> Stage]
  /\ held \in [Handler -> Msg]
  /\ processed \subseteq Events
  /\ shipped \subseteq Events
  /\ confirmed \subseteq Events

Goto(h, s) == stage' = [stage EXCEPT ![h] = s]

\* The message is answered and the handler is free again.
Finish(h) ==
  /\ Goto(h, "free")
  /\ held' = [held EXCEPT ![h] = NoMsg]

-----------------------------------------------------------------------------

\* The broker delivers to a process with a free place.
Receive(h, m) ==
  /\ h[1] \in up
  /\ stage[h] = "free"
  /\ work[m] > 0
  /\ work' = Take(work, m)
  /\ Goto(h, "received")
  /\ held' = [held EXCEPT ![h] = m]
  /\ UNCHANGED <<up, dbVars, confirmed, waiting, dlq, accepted, faults>>

\* parseOrderPlaced throws: rejected without requeue, so dead-lettered.
RejectMalformed(h) ==
  /\ stage[h] = "received"
  /\ Event(h) \in Malformed
  /\ DeadLetter(Event(h))
  /\ Finish(h)
  /\ UNCHANGED <<up, dbVars, confirmed, work, waiting, accepted, faults>>

\* The insert into processed_messages may not overtake one of the same event
\* that is not committed yet: it waits for that transaction.
MarkIsFree(h) ==
  \A h2 \in Handler : stage[h2] = "marked" => Event(h2) # Event(h)

\* Bug: the mark is committed before the effect, in a transaction of its own.
MarkAlone(h) ==
  /\ stage[h] = "received"
  /\ Event(h) \notin Malformed
  /\ processed' = processed \union {Event(h)}
  /\ Goto(h, IF Event(h) \in processed THEN "applied" ELSE "marked")
  /\ UNCHANGED <<up, held, shipped, confirmed, brokerVars>>

\* Bug: a duplicate is acknowledged straight away, without afterEffect.
MarkSkippingDuplicates(h) ==
  /\ stage[h] = "received"
  /\ Event(h) \notin Malformed
  /\ MarkIsFree(h)
  /\ Goto(h, IF Event(h) \in processed THEN "settle" ELSE "marked")
  /\ UNCHANGED <<up, held, dbVars, confirmed, brokerVars>>

\* INSERT INTO processed_messages ... ON CONFLICT DO NOTHING RETURNING: no row
\* comes back for a duplicate, and its transaction ends without an effect.
Mark(h) ==
  /\ stage[h] = "received"
  /\ Event(h) \notin Malformed
  /\ MarkIsFree(h)
  /\ Goto(h, IF Event(h) \in processed THEN "applied" ELSE "marked")
  /\ UNCHANGED <<up, held, dbVars, confirmed, brokerVars>>

\* What the commit of applyOrderPlaced makes visible: mark and shipment.
Ship(h) ==
  /\ processed' = processed \union {Event(h)}
  /\ shipped' = shipped \union {Event(h)}

\* Bug: shipments without the foreign key to orders.
ShipAnything(h) ==
  /\ stage[h] = "marked"
  /\ Ship(h)
  /\ Goto(h, "applied")
  /\ UNCHANGED <<up, held, confirmed, brokerVars>>

\* INSERT INTO shipments ... ON CONFLICT (order_id) DO NOTHING, then COMMIT.
CommitShipment(h) ==
  /\ stage[h] = "marked"
  /\ Event(h) \notin Orderless
  /\ Ship(h)
  /\ Goto(h, "applied")
  /\ UNCHANGED <<up, held, confirmed, brokerVars>>

\* The shipments foreign key finds no such order: the transaction rolls back.
OrderMissing(h) ==
  /\ stage[h] = "marked"
  /\ Event(h) \in Orderless
  /\ Goto(h, "failed")
  /\ UNCHANGED <<up, held, dbVars, confirmed, brokerVars>>

\* A statement or the COMMIT fails: everything is rolled back, or the COMMIT
\* took effect and only its answer was lost.
EffectFails(h) ==
  /\ \/ /\ stage[h] = "received"
        /\ Event(h) \notin Malformed
        /\ UNCHANGED dbVars
     \/ /\ stage[h] = "marked"
        /\ \/ Event(h) \notin Orderless /\ Ship(h)
           \/ UNCHANGED dbVars
  /\ Fault
  /\ Goto(h, "failed")
  /\ UNCHANGED <<up, held, confirmed, work, waiting, dlq, accepted>>

\* afterEffect, for duplicates too: the confirmation job is added under the
\* jobId eventId, so a job that is already there stays the only one.
EnqueueConfirmation(h) ==
  /\ stage[h] = "applied"
  /\ confirmed' = confirmed \union {Event(h)}
  /\ Goto(h, "settle")
  /\ UNCHANGED <<up, held, dbVars, brokerVars>>

\* enqueue() rejects or its two seconds run out, in which case the job may be
\* in the queue all the same.
EnqueueFails(h) ==
  /\ stage[h] = "applied"
  /\ Fault
  /\ confirmed' = confirmed \union {Event(h)} \/ UNCHANGED confirmed
  /\ Goto(h, "failed")
  /\ UNCHANGED <<up, held, dbVars, work, waiting, dlq, accepted>>

\* scheduleRetry: a copy of the message with the next x-retry header goes to
\* the retry queue, and its confirm is awaited before the ack.
ScheduleRetry(h) ==
  /\ stage[h] = "failed"
  /\ held[h].retry < MaxRetries
  /\ waiting' = Put(waiting, NextTry(held[h]))
  /\ Goto(h, "settle")
  /\ UNCHANGED <<up, held, dbVars, confirmed, work, dlq, accepted, faults>>

\* Bug: requeued instead of dead-lettered.
RequeueForever(h) ==
  /\ stage[h] = "failed"
  /\ held[h].retry = MaxRetries
  /\ work' = Put(work, held[h])
  /\ Finish(h)
  /\ UNCHANGED <<up, dbVars, confirmed, waiting, dlq, accepted, faults>>

\* Out of retries: rejected without requeue.
GiveUp(h) ==
  /\ stage[h] = "failed"
  /\ held[h].retry = MaxRetries
  /\ DeadLetter(Event(h))
  /\ Finish(h)
  /\ UNCHANGED <<up, dbVars, confirmed, work, waiting, accepted, faults>>

Ack(h) ==
  /\ stage[h] = "settle"
  /\ Finish(h)
  /\ UNCHANGED <<up, dbVars, confirmed, brokerVars>>

-----------------------------------------------------------------------------

\* The process dies: killed, its connection or channel closed (onClose exits),
\* or scheduleRetry rejected, which no one catches.  Open transactions roll
\* back; the process is started again.
ConsumerCrash(c) ==
  /\ Fault
  /\ \E h \in Handler : h[1] = c /\ stage[h] \notin {"free", "lost"}
  /\ stage' = [h \in Handler |->
                 IF h[1] = c /\ stage[h] # "free" THEN "lost" ELSE stage[h]]
  /\ up' = up \union {c}
  /\ UNCHANGED <<held, dbVars, confirmed, work, waiting, dlq, accepted>>

\* Bug: noAck, so the broker has nothing left to take back.
NothingToReturn(h) ==
  /\ stage[h] = "lost"
  /\ Finish(h)
  /\ UNCHANGED <<up, dbVars, confirmed, brokerVars>>

\* The broker notices and takes the message back.
ReturnToQueue(h) ==
  /\ stage[h] = "lost"
  /\ Returned(held[h])
  /\ Finish(h)
  /\ UNCHANGED <<up, dbVars, confirmed, waiting, accepted, faults>>

\* stop(): no more deliveries, the handlers in flight finish.
StopConsuming(c) ==
  /\ c \in up
  /\ Fault
  /\ up' = up \ {c}
  /\ UNCHANGED <<stage, held, dbVars, confirmed, work, waiting, dlq, accepted>>

\* ... and then the process leaves and its replacement starts.
Replaced(c) ==
  /\ c \notin up
  /\ \A h \in Handler : h[1] = c => stage[h] \in {"free", "lost"}
  /\ up' = up \union {c}
  /\ UNCHANGED <<stage, held, dbVars, confirmed, brokerVars>>

\* Marks older than 30 days are deleted.
PruneProcessed(e) ==
  /\ e \in processed
  /\ processed' = processed \ {e}
  /\ UNCHANGED <<up, stage, held, shipped, confirmed, brokerVars>>

-----------------------------------------------------------------------------

\* What a handler does by itself once it has a message.
HandlerStep(h) ==
  \/ RejectMalformed(h)
  \/ Mark(h)
  \/ CommitShipment(h)
  \/ OrderMissing(h)
  \/ EnqueueConfirmation(h)
  \/ ScheduleRetry(h)
  \/ GiveUp(h)
  \/ Ack(h)

ConsumerNext ==
  \/ \E h \in Handler :
       \/ \E m \in Msg : Receive(h, m)
       \/ HandlerStep(h)
       \/ EffectFails(h) \/ EnqueueFails(h)
       \/ ReturnToQueue(h)
  \/ \E m \in Msg : RetryExpires(m) /\ UNCHANGED consumerVars
  \/ \E c \in Consumers : ConsumerCrash(c) \/ StopConsuming(c) \/ Replaced(c)
  \/ \E e \in Events : PruneProcessed(e)

\* A running handler goes on, the broker delivers, returns and expires, and a
\* stopped process is replaced.
ConsumerFairness ==
  /\ \A h \in Handler : WF_<<consumerVars, brokerVars>>(HandlerStep(h))
  /\ \A h \in Handler : WF_<<consumerVars, brokerVars>>(ReturnToQueue(h))
  /\ \A m \in Msg :
       /\ WF_<<consumerVars, brokerVars>>(\E h \in Handler : Receive(h, m))
       /\ WF_<<consumerVars, brokerVars>>(RetryExpires(m) /\ UNCHANGED consumerVars)
  /\ \A c \in Consumers : WF_<<consumerVars, brokerVars>>(Replaced(c))

-----------------------------------------------------------------------------

\* The event is in a message that is not settled yet: queued, waiting for its
\* retry, or held by a handler that has not decided to acknowledge it.
InTransit(e) ==
  \/ \E m \in Msg : m.event = e /\ (work[m] > 0 \/ waiting[m] > 0)
  \/ \E h \in Handler : stage[h] \notin {"free", "settle"} /\ Event(h) = e

\* An accepted message is answered only when its work is done or buried
\* (handle acks after the effect; a retry is confirmed before the ack).
NoMessageLost ==
  \A e \in Events : accepted[e] > 0 => InTransit(e) \/ e \in shipped \/ e \in dlq

\* A mark never stands without its shipment, also when the marking
\* transaction was cut short (applyOrderPlaced writes both in one).
ProcessedMeansShipped == processed \subseteq shipped

\* The customer of a shipped order is told: the confirmation job is queued, or
\* a message of the event is still to come, or lies in the dead-letter queue.
\* The effect is committed before the job is added, so this rests on
\* duplicates running afterEffect too.
ConfirmationOwed ==
  \A e \in shipped : e \in confirmed \/ InTransit(e) \/ e \in dlq

\* Nothing ships, and nobody is told anything, about an order that is not there.
NothingForMissingOrders ==
  (shipped \union confirmed) \cap (Orderless \union Malformed) = {}
=============================================================================
