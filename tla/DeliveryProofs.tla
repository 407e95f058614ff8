--------------------------- MODULE DeliveryProofs ---------------------------
(***************************************************************************)
(* What holds of the pipeline for every number of events, relays,          *)
(* consumers and faults.  The inductive invariant is Inv: the relay half   *)
(* says what a drafted or committed outcome rests on, the consumer half    *)
(* says who answers for an accepted event.  From it: the pipeline          *)
(* implements OrderFulfillment, every second copy of an event comes from a *)
(* fault, nothing is done for an order that is not there, somebody can     *)
(* always go on with an order that is not done with, and, behind the       *)
(* checkout, what was sold is what is shipped.                             *)
(***************************************************************************)
EXTENDS Backend, CheckoutProofs

-----------------------------------------------------------------------------
(* Bags and messages.                                                      *)

\* A fresh message is a message (Fresh in Broker.tla, publisher.ts send).
LEMMA FreshType == \A e \in Events : Fresh(e) \in Msg /\ Fresh(e).event = e
  BY BrokerAssumption DEF Fresh, Msg

\* There are messages, so an idle handler has one to show.
LEMMA NoMsgType == NoMsg \in Msg
<1>1. PICK e \in Events : TRUE
  BY BrokerAssumption
<1>2. \E m \in Msg : TRUE
  BY <1>1, FreshType
<1>3. QED
  BY <1>2 DEF NoMsg

\* Put adds one copy of m and touches nothing else.
LEMMA PutFact ==
  ASSUME NEW bag \in [Msg -> Nat], NEW m \in Msg
  PROVE  /\ Put(bag, m) \in [Msg -> Nat]
         /\ \A n \in Msg : Put(bag, m)[n] = IF n = m THEN bag[n] + 1 ELSE bag[n]
  BY DEF Put

\* Take removes one copy of m, if there is one.
LEMMA TakeFact ==
  ASSUME NEW bag \in [Msg -> Nat], NEW m \in Msg, bag[m] > 0
  PROVE  /\ Take(bag, m) \in [Msg -> Nat]
         /\ \A n \in Msg : Take(bag, m)[n] = IF n = m THEN bag[n] - 1 ELSE bag[n]
<1>1. bag[m] \in Nat /\ bag[m] - 1 \in Nat
  OBVIOUS
<1>2. QED
  BY <1>1 DEF Take

\* The copy a retry schedules is a message of the same event
\* (scheduleRetry in events/consumer.ts).
LEMMA RetryCopy ==
  ASSUME NEW m \in Msg, m.retry < MaxRetries
  PROVE  NextTry(m) \in Msg /\ NextTry(m).event = m.event
  BY BrokerAssumption DEF Msg, NextTry

\* So is the message the broker takes back.
LEMMA ReturnedCopy ==
  ASSUME NEW m \in Msg, m.returned < DeliveryLimit
  PROVE  OnceMore(m) \in Msg /\ OnceMore(m).event = m.event
  BY BrokerAssumption DEF Msg, OnceMore

\* The event of a message is an event.
LEMMA MsgEvent == \A m \in Msg : m.event \in Events
  BY DEF Msg

-----------------------------------------------------------------------------
(* Types.                                                                  *)

\* The initial state is typed.
LEMMA TypeInit == Init => TypeOK
<1>1. BrokerInit => BrokerTypeOK
  BY BrokerAssumption DEF BrokerInit, BrokerTypeOK, EmptyBag
<1>2. RelayInit => RelayTypeOK
  BY DEF RelayInit, RelayTypeOK, NoDraft, NoRow, Row, Phase
<1>3. ConsumerInit => ConsumerTypeOK
  BY NoMsgType DEF ConsumerInit, ConsumerTypeOK, Stage
<1>4. QED
  BY <1>1, <1>2, <1>3 DEF Init, TypeOK

\* What each outcome makes of a row (the three UPDATEs in relay.ts runOnce).
LEMMA UpdatedFact ==
  ASSUME NEW row \in Row, NEW outcome \in {"mark", "fail", "backoff"}
  PROVE  /\ Updated(row, outcome) \in Row
         /\ outcome = "mark" => Updated(row, outcome).status = "published"
         /\ outcome = "fail" => Updated(row, outcome).status = "failed"
         /\ outcome = "backoff" => Updated(row, outcome).status = row.status
<1>1. CASE outcome = "mark"
  BY <1>1 DEF Updated, Published, Failed, BackedOff, Row
<1>2. CASE outcome = "fail"
  BY <1>2 DEF Updated, Published, Failed, BackedOff, Row
<1>3. CASE outcome = "backoff"
  BY <1>3 DEF Updated, Published, Failed, BackedOff, Row
<1>4. QED
  BY <1>1, <1>2, <1>3

\* Every step of a relay, of the backoff clock and of the pruning job keeps
\* the types (relay.ts, prune.ts).
LEMMA TypeRelay == TypeOK /\ RelayNext /\ UNCHANGED consumerVars => TypeOK'
<1> SUFFICES ASSUME TypeOK, RelayNext, UNCHANGED consumerVars
             PROVE  TypeOK'
  OBVIOUS
<1> USE BrokerAssumption DEF TypeOK, BrokerTypeOK, RelayTypeOK
<1>1. ConsumerTypeOK'
  BY DEF ConsumerTypeOK, consumerVars
<1>2. ASSUME NEW e \in Events, Accept(e)
      PROVE  work' \in [Msg -> Nat] /\ accepted' \in [Events -> Nat]
  BY <1>2, FreshType, PutFact DEF Accept
<1>3. ASSUME Fault PROVE faults' \in 0..MaxFaults
  BY <1>3 DEF Fault
<1>4. ASSUME NEW e \in Events, DeadLetter(e) PROVE dlq' \subseteq Events
  BY <1>4 DEF DeadLetter
<1>5. ASSUME NEW r \in Relays, EndPass(r)
      PROVE  /\ rpc' \in [Relays -> Phase]
             /\ locked' \in [Relays -> SUBSET Events]
             /\ todo' \in [Relays -> SUBSET Events]
             /\ draft' \in [Relays -> [Events -> Row]]
  BY <1>5 DEF EndPass, Phase, NoDraft, NoRow, Row
<1>6. ASSUME NEW e \in Events, PlaceOrder(e) \/ BackoffElapses(e) \/ PruneOutbox(e)
      PROVE  TypeOK'
  <2>1. CASE PlaceOrder(e)
    BY <2>1, <1>1 DEF PlaceOrder, NewRow, Row, brokerVars
  <2>2. CASE BackoffElapses(e)
    BY <2>2, <1>1 DEF BackoffElapses, Row, brokerVars
  <2>3. CASE PruneOutbox(e)
    BY <2>3, <1>1 DEF PruneOutbox, NoRow, Row, brokerVars
  <2>4. QED
    BY <1>6, <2>1, <2>2, <2>3
<1>7. ASSUME NEW r \in Relays, RelayStep(r)
      PROVE  TypeOK'
  <2>1. CASE SelectBatch(r)
    <3>1. Oldest(Due \ LockedRows) \subseteq Events
      BY DEF Oldest, Due
    <3>2. QED
      BY <2>1, <3>1, <1>1 DEF SelectBatch, Begin, Phase, NoRow, Row, brokerVars
  <2>2. ASSUME NEW e \in Events, PublishConfirmed(r, e)
        PROVE  TypeOK'
    BY <2>2, <1>1, <1>2 DEF PublishConfirmed, Phase
  <2>3. ASSUME NEW e \in Events, BuryConfirmed(r, e)
        PROVE  TypeOK'
    BY <2>3, <1>1, <1>4 DEF BuryConfirmed, Phase
  <2>4. ASSUME NEW e \in Events, UpdateRow(r, e)
        PROVE  TypeOK'
    <3>1. Updated(draft[r][e], rpc[r]) \in Row
      BY <2>4, UpdatedFact DEF UpdateRow
    <3>2. QED
      BY <2>4, <3>1, <1>1 DEF UpdateRow, Phase, brokerVars
  <2>5. CASE Commit(r)
    BY <2>5, <1>1, <1>5 DEF Commit, brokerVars
  <2>6. CASE Abort(r)
    BY <2>6, <1>1, <1>5 DEF Abort, brokerVars
  <2>7. QED
    BY <1>7, <2>1, <2>2, <2>3, <2>4, <2>5, <2>6 DEF RelayStep
<1>8. ASSUME NEW r \in Relays, RelayFault(r)
      PROVE  TypeOK'
  <2>1. ASSUME NEW e \in Events, PublishFails(r, e)
        PROVE  TypeOK'
    BY <2>1, <1>1, <1>2, <1>3 DEF PublishFails, AfterFailure, Phase
  <2>2. ASSUME NEW e \in Events, BuryFails(r, e)
        PROVE  TypeOK'
    BY <2>2, <1>1, <1>3, <1>4 DEF BuryFails, Phase
  <2>3. CASE LoseSession(r)
    BY <2>3, <1>1, <1>3 DEF LoseSession
  <2>4. CASE RelayCrash(r)
    BY <2>4, <1>1, <1>3, <1>5 DEF RelayCrash
  <2>5. QED
    BY <1>8, <2>1, <2>2, <2>3, <2>4 DEF RelayFault
<1>9. QED
  BY <1>6, <1>7, <1>8 DEF RelayNext

\* Every step of a consumer process, of its broker channel and of the pruning
\* job keeps the types (consumer.ts, prune.ts).
LEMMA TypeConsumer == TypeOK /\ ConsumerNext /\ UNCHANGED relayVars => TypeOK'
<1> SUFFICES ASSUME TypeOK, ConsumerNext, UNCHANGED relayVars
             PROVE  TypeOK'
  OBVIOUS
<1> USE BrokerAssumption DEF TypeOK, BrokerTypeOK, ConsumerTypeOK
<1>1. RelayTypeOK'
  BY DEF RelayTypeOK, relayVars
<1>2. ASSUME Fault PROVE faults' \in 0..MaxFaults
  BY <1>2 DEF Fault
<1>3. ASSUME NEW h \in Handler, NEW s \in Stage, Goto(h, s)
      PROVE  stage' \in [Handler -> Stage]
  BY <1>3 DEF Goto
<1>4. ASSUME NEW h \in Handler, Finish(h)
      PROVE  stage' \in [Handler -> Stage] /\ held' \in [Handler -> Msg]
  BY <1>4, NoMsgType DEF Finish, Goto, Stage
<1>5. \A h \in Handler : held[h] \in Msg /\ Event(h) \in Events
  BY MsgEvent DEF Event
<1>6. ASSUME NEW h \in Handler, DeadLetter(Event(h)) PROVE dlq' \subseteq Events
  BY <1>6, <1>5 DEF DeadLetter
<1>7. ASSUME NEW h \in Handler, Ship(h)
      PROVE  processed' \subseteq Events /\ shipped' \subseteq Events
  BY <1>7, <1>5 DEF Ship
<1>8. ASSUME NEW h \in Handler, NEW m \in Msg, Receive(h, m)
      PROVE  TypeOK'
  BY <1>8, <1>1, TakeFact DEF Receive, Goto, Stage, dbVars
<1>9. ASSUME NEW h \in Handler, HandlerStep(h)
      PROVE  TypeOK'
  <2>1. CASE RejectMalformed(h)
    BY <2>1, <1>1, <1>4, <1>6 DEF RejectMalformed, dbVars
  <2>2. CASE Mark(h)
    BY <2>2, <1>1 DEF Mark, Goto, Stage, dbVars, brokerVars
  <2>3. CASE CommitShipment(h)
    BY <2>3, <1>1, <1>7 DEF CommitShipment, Goto, Stage, brokerVars
  <2>4. CASE OrderMissing(h)
    BY <2>4, <1>1 DEF OrderMissing, Goto, Stage, dbVars, brokerVars
  <2>5. CASE EnqueueConfirmation(h)
    BY <2>5, <1>1, <1>5 DEF EnqueueConfirmation, Goto, Stage, dbVars, brokerVars
  <2>6. CASE ScheduleRetry(h)
    BY <2>6, <1>1, <1>5, RetryCopy, PutFact DEF ScheduleRetry, Goto, Stage, dbVars
  <2>7. CASE GiveUp(h)
    BY <2>7, <1>1, <1>4, <1>6 DEF GiveUp, dbVars
  <2>8. CASE Ack(h)
    BY <2>8, <1>1, <1>4 DEF Ack, dbVars, brokerVars
  <2>9. QED
    BY <1>9, <2>1, <2>2, <2>3, <2>4, <2>5, <2>6, <2>7, <2>8 DEF HandlerStep
<1>10. ASSUME NEW h \in Handler, EffectFails(h)
       PROVE  TypeOK'
  BY <1>10, <1>1, <1>2, <1>7 DEF EffectFails, Goto, Stage, dbVars
<1>11. ASSUME NEW h \in Handler, EnqueueFails(h)
       PROVE  TypeOK'
  BY <1>11, <1>1, <1>2, <1>5 DEF EnqueueFails, Goto, Stage, dbVars
<1>12. ASSUME NEW h \in Handler, ReturnToQueue(h)
       PROVE  TypeOK'
  <2>1. work' \in [Msg -> Nat] /\ dlq' \subseteq Events
    <3>1. CASE held[h].returned < DeliveryLimit /\ work' = Put(work, OnceMore(held[h]))
               /\ UNCHANGED dlq
      <4>1. OnceMore(held[h]) \in Msg
        BY <3>1, <1>5, ReturnedCopy
      <4>2. QED
        BY <4>1, <3>1, PutFact
    <3>2. CASE DeadLetter(held[h].event) /\ UNCHANGED work
      BY <3>2, <1>6 DEF Event
    <3>3. QED
      BY <3>1, <3>2, <1>12 DEF ReturnToQueue, Returned
  <2>2. QED
    BY <2>1, <1>12, <1>1, <1>4 DEF ReturnToQueue, dbVars
<1>13. ASSUME NEW m \in Msg, RetryExpires(m), UNCHANGED consumerVars
       PROVE  TypeOK'
  <2>1. waiting' \in [Msg -> Nat]
    BY <1>13, TakeFact DEF RetryExpires
  <2>2. work' \in [Msg -> Nat]
    BY <1>13, PutFact DEF RetryExpires
  <2>3. QED
    BY <2>1, <2>2, <1>13, <1>1 DEF RetryExpires, consumerVars
<1>14. ASSUME NEW c \in Consumers, ConsumerCrash(c)
       PROVE  TypeOK'
  BY <1>14, <1>1, <1>2 DEF ConsumerCrash, Stage, dbVars
<1>15. ASSUME NEW c \in Consumers, StopConsuming(c) \/ Replaced(c)
       PROVE  TypeOK'
  BY <1>15, <1>1, <1>2 DEF StopConsuming, Replaced, dbVars, brokerVars
<1>16. ASSUME NEW e \in Events, PruneProcessed(e)
       PROVE  TypeOK'
  BY <1>16, <1>1 DEF PruneProcessed, brokerVars
<1>17. QED
  BY <1>8, <1>9, <1>10, <1>11, <1>12, <1>13, <1>14, <1>15, <1>16 DEF ConsumerNext

\* Type correctness of the pipeline.
THEOREM TypeCorrect == Spec => []TypeOK
<1>1. TypeOK /\ UNCHANGED vars => TypeOK'
  BY DEF TypeOK, BrokerTypeOK, RelayTypeOK, ConsumerTypeOK,
         vars, brokerVars, relayVars, consumerVars
<1>2. TypeOK /\ [Next]_vars => TypeOK'
  BY <1>1, TypeRelay, TypeConsumer DEF Next
<1>3. QED
  BY <1>2, TypeInit, PTL DEF Spec

-----------------------------------------------------------------------------
(* The inductive invariant.                                                *)

\* It holds of an empty shop.
LEMMA InvInit == Init => Inv
<1> SUFFICES ASSUME Init PROVE Inv
  OBVIOUS
<1> USE DEF Init, BrokerInit, RelayInit, ConsumerInit
<1>1. SettledMeansHandedOver
  BY DEF SettledMeansHandedOver, NoDraft, NoRow
<1>2. DraftsBacked
  BY DEF DraftsBacked, NoDraft, NoRow
<1>3. \A m \in Msg : ~(work[m] > 0 \/ waiting[m] > 0)
  BY DEF EmptyBag
<1>4. OnlyPlaced
  BY <1>3 DEF OnlyPlaced
<1>5. NoMessageLost /\ ConfirmationOwed /\ ProcessedMeansShipped
  BY DEF NoMessageLost, ConfirmationOwed, ProcessedMeansShipped
<1>6. AppliedMeansShipped
  BY DEF AppliedMeansShipped
<1>7. QED
  BY <1>1, <1>2, <1>4, <1>5, <1>6 DEF Inv

\* What a relay step may do to the broker: messages and dead letters are only
\* added, and only for events of committed orders.
BrokerGrows ==
  /\ work' \in [Msg -> Nat]
  /\ accepted' \in [Events -> Nat]
  /\ \A m \in Msg : work'[m] >= work[m]
  /\ \A m \in Msg : work'[m] # work[m] => accepted'[m.event] > 0
  /\ \A e \in Events : accepted'[e] >= accepted[e]
  /\ \A e \in Events : accepted'[e] # accepted[e] => InTransit(e)'
  /\ dlq \subseteq dlq'
  /\ waiting' = waiting

\* A relay step that adds nothing.
LEMMA GrowsIdle ==
  ASSUME TypeOK, UNCHANGED <<work, waiting, accepted>>, dlq \subseteq dlq'
  PROVE  BrokerGrows
  BY DEF BrokerGrows, TypeOK, BrokerTypeOK

\* A publish that arrives (Accept in Broker.tla; publisher.ts send).
LEMMA GrowsAccept ==
  ASSUME TypeOK, NEW e \in Events, Accept(e), UNCHANGED waiting, dlq \subseteq dlq'
  PROVE  /\ BrokerGrows
         /\ accepted'[e] > 0
         /\ \A m \in Msg : work'[m] # work[m] => m.event = e
         /\ \A f \in Events : accepted'[f] # accepted[f] => f = e
<1> USE DEF TypeOK, BrokerTypeOK
<1>1. /\ Fresh(e) \in Msg
      /\ Fresh(e).event = e
  BY FreshType
<1>2. /\ accepted'[e] = accepted[e] + 1
      /\ \A f \in Events : f # e => accepted'[f] = accepted[f]
  BY DEF Accept
<1>3. \A m \in Msg : work'[m] = IF m = Fresh(e) THEN work[m] + 1 ELSE work[m]
  BY <1>1, PutFact DEF Accept
<1>4. InTransit(e)'
  BY <1>1, <1>3 DEF InTransit
<1>5. \A m \in Msg : work'[m] >= work[m] /\ (work'[m] # work[m] => m.event = e)
  BY <1>1, <1>3
<1>6. \A f \in Events : accepted'[f] >= accepted[f] /\ (accepted'[f] # accepted[f] => f = e)
  BY <1>2
<1>7. accepted'[e] > 0
  BY <1>2
<1>8. work' \in [Msg -> Nat] /\ accepted' \in [Events -> Nat]
  BY <1>1, PutFact DEF Accept
<1>9. QED
  BY <1>4, <1>5, <1>6, <1>7, <1>8 DEF BrokerGrows

\* The consumer half of the invariant is untouched by a relay step.
LEMMA GrowsKeepsConsumer ==
  ASSUME TypeOK, Inv, BrokerGrows, UNCHANGED consumerVars
  PROVE  /\ NoMessageLost'
         /\ ConfirmationOwed'
         /\ ProcessedMeansShipped'
         /\ AppliedMeansShipped'
<1> USE DEF TypeOK, BrokerTypeOK, BrokerGrows, Inv, consumerVars
<1>1. \A e \in Events : InTransit(e) => InTransit(e)'
  BY DEF InTransit, Event
<1>2. NoMessageLost'
  BY <1>1 DEF NoMessageLost
<1>3. ConfirmationOwed'
  BY <1>1 DEF ConfirmationOwed, ConsumerTypeOK
<1>4. ProcessedMeansShipped' /\ AppliedMeansShipped'
  BY DEF ProcessedMeansShipped, AppliedMeansShipped, Event
<1>5. QED
  BY <1>2, <1>3, <1>4

\* A pass is at one row at a time.
LEMMA NextIsUnique ==
  ASSUME TypeOK, NEW r \in Relays, NEW e \in Events, NEW f \in Events,
         IsNext(r, e), IsNext(r, f)
  PROVE  e = f
  BY BrokerAssumption DEF IsNext

\* No relay step, and no order, prune or clock tick, breaks the invariant.
LEMMA InvRelay == TypeOK /\ Inv /\ RelayNext /\ UNCHANGED consumerVars => Inv'
<1> SUFFICES ASSUME TypeOK, Inv, RelayNext, UNCHANGED consumerVars
             PROVE  Inv'
  OBVIOUS
<1> USE DEF TypeOK, BrokerTypeOK, RelayTypeOK, Inv
<1>1. TypeOK'
  BY TypeRelay
<1>2. ASSUME BrokerGrows, SettledMeansHandedOver', DraftsBacked', OnlyPlaced'
      PROVE  Inv'
  BY <1>2, GrowsKeepsConsumer
<1>3. ASSUME UNCHANGED brokerVars PROVE BrokerGrows
  BY <1>3, GrowsIdle DEF brokerVars
<1>4. ASSUME BrokerGrows, UNCHANGED outbox PROVE SettledMeansHandedOver'
  BY <1>4 DEF BrokerGrows, SettledMeansHandedOver
<1>5. ASSUME BrokerGrows, NEW e \in Events, Placed(e),
             \A f \in Events : Placed(f) => Placed(f)',
             \A m \in Msg : work'[m] # work[m] => m.event = e,
             \A f \in Events : accepted'[f] # accepted[f] => f = e,
             dlq' \subseteq dlq \union {e},
             UNCHANGED <<locked, draft>>,
             \A r \in Relays : todo'[r] \subseteq todo[r]
      PROVE  OnlyPlaced'
  BY <1>5, MsgEvent DEF BrokerGrows, OnlyPlaced, consumerVars, Event, ConsumerTypeOK
<1>6. ASSUME NEW e \in Events, PlaceOrder(e)
      PROVE  Inv'
  <2>1. BrokerGrows
    BY <1>3, <1>6 DEF PlaceOrder
  <2>2. SettledMeansHandedOver'
    BY <1>6 DEF PlaceOrder, SettledMeansHandedOver, NewRow, brokerVars
  <2>3. DraftsBacked'
    BY <1>6 DEF PlaceOrder, DraftsBacked, IsNext, brokerVars
  <2>4. OnlyPlaced'
    BY <1>6, MsgEvent DEF PlaceOrder, OnlyPlaced, Placed, NewRow, brokerVars,
       consumerVars, ConsumerTypeOK, Event
  <2>5. QED
    BY <1>2, <2>1, <2>2, <2>3, <2>4
<1>7. ASSUME NEW e \in Events, BackoffElapses(e)
      PROVE  Inv'
  <2>1. BrokerGrows
    BY <1>3, <1>7 DEF BackoffElapses
  <2>2. SettledMeansHandedOver'
    BY <1>7 DEF BackoffElapses, SettledMeansHandedOver, brokerVars, Row
  <2>3. DraftsBacked'
    BY <1>7 DEF BackoffElapses, DraftsBacked, IsNext, brokerVars
  <2>4. OnlyPlaced'
    BY <1>7, MsgEvent DEF BackoffElapses, OnlyPlaced, Placed, Row, brokerVars,
       consumerVars, ConsumerTypeOK, Event
  <2>5. QED
    BY <1>2, <2>1, <2>2, <2>3, <2>4
<1>8. ASSUME NEW e \in Events, PruneOutbox(e)
      PROVE  Inv'
  <2>1. BrokerGrows
    BY <1>3, <1>8 DEF PruneOutbox
  <2>2. SettledMeansHandedOver'
    BY <1>8 DEF PruneOutbox, SettledMeansHandedOver, NoRow, brokerVars
  <2>3. DraftsBacked'
    BY <1>8 DEF PruneOutbox, DraftsBacked, IsNext, brokerVars
  <2>4. OnlyPlaced'
    BY <1>8, MsgEvent DEF PruneOutbox, OnlyPlaced, Placed, NoRow, brokerVars,
       consumerVars, ConsumerTypeOK, Event
  <2>5. QED
    BY <1>2, <2>1, <2>2, <2>3, <2>4
<1>9. ASSUME NEW r \in Relays, SelectBatch(r)
      PROVE  Inv'
  <2> DEFINE rows == Oldest(Due \ LockedRows)
  <2>1. /\ rows \subseteq Events
        /\ \A e \in rows : outbox[e].status = "pending"
    BY DEF Oldest, Due
  <2>2. /\ UNCHANGED <<outbox, brokerVars>>
        /\ rpc' = [rpc EXCEPT ![r] = "publish"]
        /\ locked' = [locked EXCEPT ![r] = rows]
        /\ todo' = [todo EXCEPT ![r] = rows]
        /\ draft' = [draft EXCEPT ![r] =
                       [e \in Events |-> IF e \in rows THEN outbox[e] ELSE NoRow]]
    BY <1>9 DEF SelectBatch, Begin
  <2> HIDE DEF rows
  <2>3. BrokerGrows
    BY <1>3, <2>2
  <2>4. SettledMeansHandedOver'
    BY <2>2, <2>3, <1>4
  <2>5. DraftsBacked'
    BY <2>1, <2>2 DEF DraftsBacked, IsNext, NoRow, brokerVars
  <2>6. OnlyPlaced'
    BY <2>1, <2>2 DEF OnlyPlaced, Placed, brokerVars, consumerVars, Event
  <2>7. QED
    BY <1>2, <2>3, <2>4, <2>5, <2>6
<1>10. ASSUME NEW r \in Relays, NEW e \in Events, PublishConfirmed(r, e)
       PROVE  Inv'
  <2>1. /\ BrokerGrows
        /\ accepted'[e] > 0
        /\ \A m \in Msg : work'[m] # work[m] => m.event = e
        /\ \A f \in Events : accepted'[f] # accepted[f] => f = e
    BY <1>10, GrowsAccept DEF PublishConfirmed
  <2>2. SettledMeansHandedOver'
    BY <2>1, <1>4, <1>10 DEF PublishConfirmed
  <2>3. DraftsBacked'
    <3>1. /\ rpc' = [rpc EXCEPT ![r] = "mark"]
          /\ IsNext(r, e)
          /\ UNCHANGED <<todo, draft, dlq>>
      BY <1>10 DEF PublishConfirmed
    <3>2. \A s \in Relays, f \in Events : IsNext(s, f)' = IsNext(s, f)
      BY <3>1 DEF IsNext
    <3>3. \A f \in Events : IsNext(r, f) => f = e
      BY <3>1, NextIsUnique
    <3>4. QED
      BY <2>1, <3>1, <3>2, <3>3 DEF DraftsBacked, BrokerGrows
  <2>4. OnlyPlaced'
    <3>1. Placed(e)
      BY <1>10 DEF PublishConfirmed, IsNext, OnlyPlaced
    <3>2. QED
      BY <1>5, <1>10, <2>1, <3>1 DEF PublishConfirmed, Placed
  <2>5. QED
    BY <1>2, <2>1, <2>2, <2>3, <2>4
<1>11. ASSUME NEW r \in Relays, NEW e \in Events, PublishFails(r, e)
       PROVE  Inv'
  <2>1. /\ BrokerGrows
        /\ \A m \in Msg : work'[m] # work[m] => m.event = e
        /\ \A f \in Events : accepted'[f] # accepted[f] => f = e
    <3>1. CASE Accept(e)
      BY <3>1, <1>11, GrowsAccept DEF PublishFails
    <3>2. CASE UNCHANGED <<work, accepted>>
      BY <3>2, <1>11, GrowsIdle DEF PublishFails
    <3>3. QED
      BY <1>11, <3>1, <3>2 DEF PublishFails
  <2>2. SettledMeansHandedOver'
    BY <2>1, <1>4, <1>11 DEF PublishFails
  <2>3. rpc' = [rpc EXCEPT ![r] = AfterFailure(draft[r][e])]
    BY <1>11 DEF PublishFails
  <2>4. rpc'[r] \notin {"mark", "fail"}
    BY <2>3 DEF AfterFailure
  <2>5. DraftsBacked'
    <3>1. UNCHANGED <<todo, draft, dlq>>
      BY <1>11 DEF PublishFails
    <3>2. \A s \in Relays, f \in Events : IsNext(s, f)' = IsNext(s, f)
      BY <3>1 DEF IsNext
    <3>3. QED
      BY <2>1, <2>3, <2>4, <3>1, <3>2 DEF DraftsBacked, BrokerGrows
  <2>6. OnlyPlaced'
    <3>1. Placed(e)
      BY <1>11 DEF PublishFails, IsNext, OnlyPlaced
    <3>2. QED
      BY <1>5, <1>11, <2>1, <3>1 DEF PublishFails, Placed
  <2>7. QED
    BY <1>2, <2>1, <2>2, <2>5, <2>6
<1>12. ASSUME NEW r \in Relays, NEW e \in Events, BuryConfirmed(r, e)
       PROVE  Inv'
  <2>1. BrokerGrows
    BY <1>12, GrowsIdle DEF BuryConfirmed, DeadLetter
  <2>2. SettledMeansHandedOver'
    BY <2>1, <1>4, <1>12 DEF BuryConfirmed
  <2>3. DraftsBacked'
    <3>1. /\ rpc' = [rpc EXCEPT ![r] = "fail"]
          /\ IsNext(r, e)
          /\ UNCHANGED <<todo, draft, accepted>>
          /\ dlq' = dlq \union {e}
      BY <1>12 DEF BuryConfirmed, DeadLetter
    <3>2. \A s \in Relays, f \in Events : IsNext(s, f)' = IsNext(s, f)
      BY <3>1 DEF IsNext
    <3>3. \A f \in Events : IsNext(r, f) => f = e
      BY <3>1, NextIsUnique
    <3>4. QED
      BY <3>1, <3>2, <3>3 DEF DraftsBacked
  <2>4. OnlyPlaced'
    <3>1. Placed(e)
      BY <1>12 DEF BuryConfirmed, IsNext, OnlyPlaced
    <3>2. QED
      BY <1>5, <1>12, <2>1, <3>1 DEF BuryConfirmed, DeadLetter, Placed
  <2>5. QED
    BY <1>2, <2>1, <2>2, <2>3, <2>4
<1>13. ASSUME NEW r \in Relays, NEW e \in Events, BuryFails(r, e)
       PROVE  Inv'
  <2>1. dlq \subseteq dlq' /\ dlq' \subseteq dlq \union {e}
    BY <1>13 DEF BuryFails, DeadLetter
  <2>2. BrokerGrows
    BY <2>1, <1>13, GrowsIdle DEF BuryFails
  <2>3. SettledMeansHandedOver'
    BY <2>2, <1>4, <1>13 DEF BuryFails
  <2>4. DraftsBacked'
    BY <2>1, <1>13 DEF BuryFails, DraftsBacked, IsNext
  <2>5. OnlyPlaced'
    <3>1. Placed(e)
      BY <1>13 DEF BuryFails, IsNext, OnlyPlaced
    <3>2. QED
      BY <1>5, <1>13, <2>1, <2>2, <3>1 DEF BuryFails, Placed
  <2>6. QED
    BY <1>2, <2>2, <2>3, <2>4, <2>5
<1>14. ASSUME NEW r \in Relays, NEW e \in Events, UpdateRow(r, e)
       PROVE  Inv'
  <2>1. rpc[r] \in {"mark", "fail", "backoff"} /\ IsNext(r, e)
    BY <1>14 DEF UpdateRow
  <2>2. /\ UNCHANGED <<outbox, locked, brokerVars>>
        /\ draft' = [draft EXCEPT ![r][e] = Updated(draft[r][e], rpc[r])]
        /\ todo' = [todo EXCEPT ![r] = todo[r] \ {e}]
        /\ rpc' = [rpc EXCEPT ![r] = "publish"]
    BY <1>14 DEF UpdateRow
  <2> DEFINE row == Updated(draft[r][e], rpc[r])
  <2>3. /\ row.status # "pruned"
        /\ row.status = "published" => accepted[e] > 0
        /\ row.status = "failed" => e \in dlq
        /\ row.status = "none" => draft[r][e].status = "none"
    BY <2>1, UpdatedFact DEF DraftsBacked
  <2>4. \A s \in Relays, f \in Events :
          draft'[s][f] = IF s = r /\ f = e THEN row ELSE draft[s][f]
    BY <2>2
  <2> HIDE DEF row
  <2>5. BrokerGrows
    BY <1>3, <2>2
  <2>6. SettledMeansHandedOver'
    BY <2>2, <2>5, <1>4
  <2>7. DraftsBacked'
    <3>1. ASSUME NEW s \in Relays, NEW f \in Events, rpc'[s] \in {"mark", "fail"}
          PROVE  s # r /\ IsNext(s, f)' = IsNext(s, f)
      BY <3>1, <2>2 DEF IsNext
    <3>2. QED
      BY <3>1, <2>2, <2>3, <2>4 DEF DraftsBacked, brokerVars
  <2>8. OnlyPlaced'
    BY <2>2, <2>3, <2>4 DEF OnlyPlaced, Placed, brokerVars, consumerVars, Event
  <2>9. QED
    BY <1>2, <2>5, <2>6, <2>7, <2>8
<1>15. ASSUME NEW r \in Relays, EndPass(r), UNCHANGED <<accepted, dlq>>
       PROVE  DraftsBacked'
  BY <1>15 DEF EndPass, DraftsBacked, IsNext, NoDraft, NoRow
<1>16. ASSUME NEW r \in Relays, EndPass(r), UNCHANGED <<work, waiting, accepted, dlq>>,
              \A e \in Events : Placed(e) => Placed(e)'
       PROVE  OnlyPlaced'
  BY <1>16, MsgEvent DEF EndPass, OnlyPlaced, consumerVars, Event, ConsumerTypeOK
<1>17. ASSUME NEW r \in Relays, Commit(r)
       PROVE  Inv'
  <2>1. \A e \in Events :
          outbox'[e] = IF e \in locked[r] THEN draft[r][e] ELSE outbox[e]
    BY <1>17 DEF Commit
  <2>2. EndPass(r) /\ UNCHANGED brokerVars
    BY <1>17 DEF Commit
  <2>3. BrokerGrows
    BY <1>3, <2>2
  <2>4. SettledMeansHandedOver'
    BY <2>1, <2>2 DEF SettledMeansHandedOver, DraftsBacked, brokerVars
  <2>5. DraftsBacked'
    BY <2>2, <1>15 DEF EndPass, brokerVars
  <2>6. OnlyPlaced'
    <3>1. \A e \in Events : Placed(e) => Placed(e)'
      BY <2>1 DEF Placed, OnlyPlaced
    <3>2. QED
      BY <1>16, <2>2, <3>1 DEF brokerVars
  <2>7. QED
    BY <1>2, <2>3, <2>4, <2>5, <2>6
<1>18. ASSUME NEW r \in Relays, Abort(r) \/ RelayCrash(r)
       PROVE  Inv'
  <2>1. EndPass(r) /\ UNCHANGED <<outbox, work, waiting, accepted, dlq>>
    BY <1>18 DEF Abort, RelayCrash, brokerVars
  <2>2. BrokerGrows
    BY <2>1, GrowsIdle
  <2>3. SettledMeansHandedOver'
    BY <2>1, <2>2, <1>4
  <2>4. DraftsBacked'
    BY <2>1, <1>15 DEF EndPass
  <2>5. OnlyPlaced'
    BY <2>1, <1>16 DEF Placed
  <2>6. QED
    BY <1>2, <2>2, <2>3, <2>4, <2>5
<1>19. ASSUME NEW r \in Relays, LoseSession(r)
       PROVE  Inv'
  <2>1. BrokerGrows
    BY <1>19, GrowsIdle DEF LoseSession
  <2>2. SettledMeansHandedOver'
    BY <1>19, <2>1, <1>4 DEF LoseSession
  <2>3. DraftsBacked'
    BY <1>19 DEF LoseSession, DraftsBacked, IsNext
  <2>4. OnlyPlaced'
    BY <1>19 DEF LoseSession, OnlyPlaced, Placed, consumerVars, Event
  <2>5. QED
    BY <1>2, <2>1, <2>2, <2>3, <2>4
<1>20. QED
  BY <1>6, <1>7, <1>8, <1>9, <1>10, <1>11, <1>12, <1>13, <1>14, <1>17, <1>18, <1>19
  DEF RelayNext, RelayStep, RelayFault

\* What a consumer step owes: nothing accepted or shipped is dropped, and what
\* it moves stays within placed orders.
Accounted ==
  /\ accepted' = accepted
  /\ dlq \subseteq dlq'
  /\ \A e \in dlq' : Placed(e)
  /\ \A m \in Msg : work'[m] > 0 \/ waiting'[m] > 0 => Placed(m.event)
  /\ \A h \in Handler : stage'[h] # "free" => Placed(held'[h].event)
  /\ \A e \in Events : InTransit(e) =>
       InTransit(e)' \/ e \in dlq' \/ (e \in shipped' /\ e \in confirmed')
  /\ shipped \subseteq shipped'
  /\ \A e \in shipped' : e \in shipped \/ InTransit(e)'
  /\ confirmed \subseteq confirmed'
  /\ processed' \subseteq shipped'
  /\ \A h \in Handler : stage'[h] = "applied" => held'[h].event \in shipped'

\* Such a step keeps the invariant.
LEMMA AccountedKeepsInv ==
  ASSUME TypeOK, TypeOK', Inv, UNCHANGED relayVars, Accounted
  PROVE  Inv'
<1> USE DEF Inv, Accounted, relayVars
<1>1. SettledMeansHandedOver'
  BY DEF SettledMeansHandedOver
<1>2. DraftsBacked'
  BY DEF DraftsBacked, IsNext
<1>3. OnlyPlaced'
  BY DEF OnlyPlaced, Placed, Event
<1>4. NoMessageLost'
  BY DEF NoMessageLost
<1>5. ConfirmationOwed'
  BY DEF ConfirmationOwed, TypeOK, ConsumerTypeOK
<1>6. ProcessedMeansShipped'
  BY DEF ProcessedMeansShipped
<1>7. AppliedMeansShipped'
  BY DEF AppliedMeansShipped, Event
<1>8. QED
  BY <1>1, <1>2, <1>3, <1>4, <1>5, <1>6, <1>7

\* A handler that goes from one unsettled stage to another, with the queues as
\* they are, loses nothing.
LEMMA StageStep ==
  ASSUME TypeOK, Inv, NEW h \in Handler, NEW s \in Stage \ {"free", "settle"},
         stage[h] # "free", Goto(h, s),
         s = "applied" => Event(h) \in shipped',
         shipped' \subseteq shipped \union {Event(h)},
         shipped \subseteq shipped', processed' \subseteq shipped',
         confirmed \subseteq confirmed',
         UNCHANGED <<held, work, waiting, dlq, accepted>>
  PROVE  Accounted
<1> USE DEF TypeOK, ConsumerTypeOK, Inv
<1>1. \A g \in Handler : stage'[g] = IF g = h THEN s ELSE stage[g]
  BY DEF Goto
<1>2. \A e \in Events : InTransit(e) => InTransit(e)'
  BY <1>1 DEF InTransit, Event
<1>3. InTransit(Event(h))'
  BY <1>1 DEF InTransit, Event
<1>4. \A g \in Handler : stage'[g] # "free" => Placed(held'[g].event)
  BY <1>1 DEF OnlyPlaced, Event
<1>5. \A g \in Handler : stage'[g] = "applied" => held'[g].event \in shipped'
  BY <1>1 DEF AppliedMeansShipped, Event
<1>6. /\ \A e \in dlq' : Placed(e)
      /\ \A m \in Msg : work'[m] > 0 \/ waiting'[m] > 0 => Placed(m.event)
  BY DEF OnlyPlaced, BrokerTypeOK
<1>7. QED
  BY <1>2, <1>3, <1>4, <1>5, <1>6 DEF Accounted, Event

\* A handler that answers its message leaves the event with someone else: the
\* dead-letter queue, a queue, or shipment and confirmation.
LEMMA FinishStep ==
  ASSUME TypeOK, Inv, NEW h \in Handler, stage[h] # "free", Finish(h),
         \/ stage[h] = "settle"
         \/ Event(h) \in dlq'
         \/ \E m \in Msg : m.event = Event(h) /\ work'[m] > 0,
         work' \in [Msg -> Nat],
         \A m \in Msg : work'[m] >= work[m],
         \A m \in Msg : work'[m] # work[m] => m.event = Event(h),
         dlq \subseteq dlq', dlq' \subseteq dlq \union {Event(h)},
         UNCHANGED <<waiting, accepted, processed, shipped, confirmed>>
  PROVE  Accounted
<1> USE DEF TypeOK, ConsumerTypeOK, BrokerTypeOK, Inv
<1>1. \A g \in Handler : /\ stage'[g] = IF g = h THEN "free" ELSE stage[g]
                         /\ held'[g] = IF g = h THEN NoMsg ELSE held[g]
  BY DEF Finish, Goto
<1>2. Placed(Event(h))
  BY DEF OnlyPlaced
<1>3. \A m \in Msg : work[m] > 0 => work'[m] > 0
  OBVIOUS
<1>4. ASSUME NEW e \in Events, InTransit(e)
      PROVE  InTransit(e)' \/ e \in dlq'
  <2>1. CASE \E m \in Msg : m.event = e /\ (work[m] > 0 \/ waiting[m] > 0)
    BY <2>1, <1>3 DEF InTransit
  <2>2. CASE \E g \in Handler : stage[g] \notin {"free", "settle"} /\ Event(g) = e
    BY <2>2, <1>1 DEF InTransit, Event
  <2>3. QED
    BY <1>4, <2>1, <2>2 DEF InTransit
<1>5. \A g \in Handler : /\ stage'[g] # "free" => Placed(held'[g].event)
                         /\ stage'[g] = "applied" => held'[g].event \in shipped'
  BY <1>1 DEF OnlyPlaced, AppliedMeansShipped, Event
<1>6. /\ \A e \in dlq' : Placed(e)
      /\ \A m \in Msg : work'[m] > 0 \/ waiting'[m] > 0 => Placed(m.event)
  BY <1>2 DEF OnlyPlaced
<1>7. QED
  BY <1>4, <1>5, <1>6 DEF Accounted, ProcessedMeansShipped

\* No consumer step, no message in motion and no pruned mark breaks the
\* invariant.
LEMMA InvConsumer == TypeOK /\ Inv /\ ConsumerNext /\ UNCHANGED relayVars => Inv'
<1> SUFFICES ASSUME TypeOK, Inv, ConsumerNext, UNCHANGED relayVars
             PROVE  Inv'
  OBVIOUS
<1> USE DEF TypeOK, BrokerTypeOK, ConsumerTypeOK, Inv
<1>1. TypeOK'
  BY TypeConsumer
<1>2. Accounted => Inv'
  BY <1>1, AccountedKeepsInv
<1>3. ASSUME NEW h \in Handler, NEW m \in Msg, Receive(h, m)
      PROVE  Accounted
  <2>1. /\ stage[h] = "free"
        /\ work[m] > 0
        /\ work' = Take(work, m)
        /\ UNCHANGED <<up, processed, shipped, confirmed, waiting, dlq, accepted>>
    BY <1>3 DEF Receive, dbVars
  <2>2. \A g \in Handler : /\ stage'[g] = IF g = h THEN "received" ELSE stage[g]
                           /\ held'[g] = IF g = h THEN m ELSE held[g]
    BY <1>3 DEF Receive, Goto
  <2>3. \A n \in Msg : work'[n] = IF n = m THEN work[n] - 1 ELSE work[n]
    BY <2>1, TakeFact
  <2>4. Placed(m.event)
    BY <2>1 DEF OnlyPlaced
  <2>5. ASSUME NEW e \in Events, InTransit(e)
        PROVE  InTransit(e)'
    <3>1. CASE e = m.event
      BY <3>1, <2>2 DEF InTransit, Event
    <3>2. CASE e # m.event /\ \E n \in Msg : n.event = e /\ (work[n] > 0 \/ waiting[n] > 0)
      BY <3>2, <2>1, <2>3 DEF InTransit
    <3>3. CASE \E g \in Handler : stage[g] \notin {"free", "settle"} /\ Event(g) = e
      BY <3>3, <2>1, <2>2 DEF InTransit, Event
    <3>4. QED
      BY <2>5, <3>1, <3>2, <3>3 DEF InTransit
  <2>6. \A n \in Msg : work'[n] > 0 \/ waiting'[n] > 0 => Placed(n.event)
    BY <2>1, <2>3, <2>4 DEF OnlyPlaced
  <2>7. \A g \in Handler : /\ stage'[g] # "free" => Placed(held'[g].event)
                           /\ stage'[g] = "applied" => held'[g].event \in shipped'
    BY <2>1, <2>2, <2>4 DEF OnlyPlaced, AppliedMeansShipped, Event
  <2>8. QED
    BY <2>1, <2>5, <2>6, <2>7 DEF Accounted, OnlyPlaced, ProcessedMeansShipped
<1>4. ASSUME NEW h \in Handler, RejectMalformed(h) \/ GiveUp(h) \/ Ack(h)
      PROVE  Accounted
  <2>1. /\ stage[h] # "free"
        /\ Finish(h)
        /\ UNCHANGED <<work, waiting, accepted, processed, shipped, confirmed>>
        /\ \/ stage[h] = "settle" /\ UNCHANGED dlq
           \/ DeadLetter(Event(h))
    BY <1>4 DEF RejectMalformed, GiveUp, Ack, dbVars, brokerVars
  <2>2. /\ dlq \subseteq dlq'
        /\ dlq' \subseteq dlq \union {Event(h)}
        /\ stage[h] = "settle" \/ Event(h) \in dlq'
    BY <2>1 DEF DeadLetter
  <2>3. QED
    BY <2>1, <2>2, FinishStep
<1>5. ASSUME NEW h \in Handler, Mark(h)
      PROVE  Accounted
  <2>1. CASE Event(h) \in processed
    BY <2>1, <1>5, StageStep DEF Mark, dbVars, brokerVars, ProcessedMeansShipped, Stage
  <2>2. CASE Event(h) \notin processed
    BY <2>2, <1>5, StageStep DEF Mark, dbVars, brokerVars, ProcessedMeansShipped, Stage
  <2>3. QED
    BY <2>1, <2>2
<1>6. ASSUME NEW h \in Handler, CommitShipment(h)
      PROVE  Accounted
  BY <1>6, StageStep DEF CommitShipment, Ship, brokerVars, ProcessedMeansShipped, Stage
<1>7. ASSUME NEW h \in Handler, OrderMissing(h)
      PROVE  Accounted
  BY <1>7, StageStep DEF OrderMissing, dbVars, brokerVars, ProcessedMeansShipped, Stage
<1>8. ASSUME NEW h \in Handler, EffectFails(h)
      PROVE  Accounted
  <2>1. /\ stage[h] # "free"
        /\ Goto(h, "failed")
        /\ UNCHANGED <<held, confirmed, work, waiting, dlq, accepted>>
        /\ Ship(h) \/ UNCHANGED dbVars
    BY <1>8 DEF EffectFails
  <2>2. /\ shipped \subseteq shipped'
        /\ shipped' \subseteq shipped \union {Event(h)}
        /\ processed' \subseteq shipped'
    BY <2>1 DEF Ship, dbVars, ProcessedMeansShipped
  <2>3. QED
    BY <2>1, <2>2, StageStep DEF Stage
<1>9. ASSUME NEW h \in Handler, EnqueueFails(h)
      PROVE  Accounted
  <2>1. /\ stage[h] # "free"
        /\ Goto(h, "failed")
        /\ confirmed \subseteq confirmed'
        /\ UNCHANGED <<held, processed, shipped, work, waiting, dlq, accepted>>
    BY <1>9 DEF EnqueueFails, dbVars
  <2>2. QED
    BY <2>1, StageStep DEF Stage, ProcessedMeansShipped
<1>10. ASSUME NEW h \in Handler, EnqueueConfirmation(h)
       PROVE  Accounted
  <2>1. /\ stage[h] = "applied"
        /\ confirmed' = confirmed \union {Event(h)}
        /\ UNCHANGED <<held, processed, shipped, work, waiting, dlq, accepted>>
    BY <1>10 DEF EnqueueConfirmation, dbVars, brokerVars
  <2>2. \A g \in Handler : stage'[g] = IF g = h THEN "settle" ELSE stage[g]
    BY <1>10 DEF EnqueueConfirmation, Goto
  <2>3. Event(h) \in shipped' /\ Event(h) \in confirmed'
    BY <2>1 DEF AppliedMeansShipped
  <2>4. \A e \in Events : InTransit(e) => InTransit(e)' \/ e = Event(h)
    BY <2>1, <2>2 DEF InTransit, Event
  <2>5. \A g \in Handler : /\ stage'[g] # "free" => Placed(held'[g].event)
                           /\ stage'[g] = "applied" => held'[g].event \in shipped'
    BY <2>1, <2>2 DEF OnlyPlaced, AppliedMeansShipped, Event
  <2>6. QED
    BY <2>1, <2>3, <2>4, <2>5 DEF Accounted, OnlyPlaced, ProcessedMeansShipped
<1>11. ASSUME NEW h \in Handler, ScheduleRetry(h)
       PROVE  Accounted
  <2>1. /\ stage[h] = "failed"
        /\ waiting' = Put(waiting, NextTry(held[h]))
        /\ UNCHANGED <<held, processed, shipped, confirmed, work, dlq, accepted>>
    BY <1>11 DEF ScheduleRetry, dbVars
  <2>2. \A g \in Handler : stage'[g] = IF g = h THEN "settle" ELSE stage[g]
    BY <1>11 DEF ScheduleRetry, Goto
  <2>3. NextTry(held[h]) \in Msg /\ NextTry(held[h]).event = Event(h)
    BY <1>11, RetryCopy DEF ScheduleRetry, Event
  <2>4. \A m \in Msg :
          waiting'[m] = IF m = NextTry(held[h]) THEN waiting[m] + 1 ELSE waiting[m]
    BY <2>1, <2>3, PutFact
  <2>5. Placed(Event(h))
    BY <2>1 DEF OnlyPlaced
  <2>6. ASSUME NEW e \in Events, InTransit(e)
        PROVE  InTransit(e)'
    <3>1. CASE e = Event(h)
      BY <3>1, <2>3, <2>4 DEF InTransit
    <3>2. CASE \E m \in Msg : m.event = e /\ (work[m] > 0 \/ waiting[m] > 0)
      BY <3>2, <2>1, <2>4 DEF InTransit
    <3>3. CASE e # Event(h) /\ \E g \in Handler : stage[g] \notin {"free", "settle"} /\ Event(g) = e
      BY <3>3, <2>1, <2>2 DEF InTransit, Event
    <3>4. QED
      BY <2>6, <3>1, <3>2, <3>3 DEF InTransit
  <2>7. \A m \in Msg : work'[m] > 0 \/ waiting'[m] > 0 => Placed(m.event)
    BY <2>1, <2>3, <2>4, <2>5 DEF OnlyPlaced
  <2>8. \A g \in Handler : /\ stage'[g] # "free" => Placed(held'[g].event)
                           /\ stage'[g] = "applied" => held'[g].event \in shipped'
    BY <2>1, <2>2 DEF OnlyPlaced, AppliedMeansShipped, Event
  <2>9. QED
    BY <2>1, <2>6, <2>7, <2>8 DEF Accounted, OnlyPlaced, ProcessedMeansShipped
<1>12. ASSUME NEW h \in Handler, ReturnToQueue(h)
       PROVE  Accounted
  <2>1. /\ stage[h] # "free"
        /\ Finish(h)
        /\ UNCHANGED <<waiting, accepted, processed, shipped, confirmed>>
    BY <1>12 DEF ReturnToQueue, dbVars
  <2>2. CASE /\ held[h].returned < DeliveryLimit
             /\ work' = Put(work, OnceMore(held[h]))
             /\ UNCHANGED dlq
    <3>1. OnceMore(held[h]) \in Msg /\ OnceMore(held[h]).event = Event(h)
      BY <2>2, ReturnedCopy DEF Event
    <3>2. /\ work' \in [Msg -> Nat]
          /\ \A m \in Msg : work'[m] = IF m = OnceMore(held[h]) THEN work[m] + 1 ELSE work[m]
      BY <2>2, <3>1, PutFact
    <3>3. /\ \E m \in Msg : m.event = Event(h) /\ work'[m] > 0
          /\ \A m \in Msg : work'[m] >= work[m]
          /\ \A m \in Msg : work'[m] # work[m] => m.event = Event(h)
      BY <3>1, <3>2
    <3>4. QED
      BY <2>1, <2>2, <3>2, <3>3, FinishStep
  <2>3. CASE DeadLetter(held[h].event) /\ UNCHANGED work
    <3>1. /\ Event(h) \in dlq'
          /\ dlq \subseteq dlq'
          /\ dlq' \subseteq dlq \union {Event(h)}
      BY <2>3 DEF DeadLetter, Event
    <3>2. QED
      BY <2>1, <2>3, <3>1, FinishStep
  <2>4. QED
    BY <1>12, <2>2, <2>3 DEF ReturnToQueue, Returned
<1>13. ASSUME NEW m \in Msg, RetryExpires(m), UNCHANGED consumerVars
       PROVE  Accounted
  <2>1. waiting[m] > 0 /\ UNCHANGED <<dlq, accepted>>
    BY <1>13 DEF RetryExpires
  <2>2. /\ \A n \in Msg : work'[n] = IF n = m THEN work[n] + 1 ELSE work[n]
        /\ \A n \in Msg : waiting'[n] = IF n = m THEN waiting[n] - 1 ELSE waiting[n]
    BY <1>13, PutFact, TakeFact DEF RetryExpires
  <2>3. UNCHANGED <<stage, held, processed, shipped, confirmed>>
    BY <1>13 DEF consumerVars
  <2>4. \A e \in Events : InTransit(e) => InTransit(e)'
    BY <2>2, <2>3 DEF InTransit, Event
  <2>5. \A n \in Msg : work'[n] > 0 \/ waiting'[n] > 0 => Placed(n.event)
    BY <2>1, <2>2 DEF OnlyPlaced
  <2>6. QED
    BY <2>1, <2>3, <2>4, <2>5
    DEF Accounted, OnlyPlaced, ProcessedMeansShipped, AppliedMeansShipped, Event
<1>14. ASSUME NEW c \in Consumers, ConsumerCrash(c)
       PROVE  Accounted
  <2>1. UNCHANGED <<held, processed, shipped, confirmed, work, waiting, dlq, accepted>>
    BY <1>14 DEF ConsumerCrash, dbVars
  <2>2. \A g \in Handler : \/ stage'[g] = stage[g]
                           \/ stage[g] # "free" /\ stage'[g] = "lost"
    BY <1>14 DEF ConsumerCrash
  <2>3. \A e \in Events : InTransit(e) => InTransit(e)'
    BY <2>1, <2>2 DEF InTransit, Event
  <2>4. \A g \in Handler : /\ stage'[g] # "free" => Placed(held'[g].event)
                           /\ stage'[g] = "applied" => held'[g].event \in shipped'
    BY <2>1, <2>2 DEF OnlyPlaced, AppliedMeansShipped, Event
  <2>5. QED
    BY <2>1, <2>3, <2>4 DEF Accounted, OnlyPlaced, ProcessedMeansShipped
<1>15. ASSUME \/ \E c \in Consumers : StopConsuming(c) \/ Replaced(c)
              \/ \E e \in Events : PruneProcessed(e)
       PROVE  Accounted
  <2>1. /\ UNCHANGED <<stage, held, shipped, confirmed, work, waiting, dlq, accepted>>
        /\ processed' \subseteq processed
    BY <1>15 DEF StopConsuming, Replaced, PruneProcessed, dbVars, brokerVars
  <2>2. \A e \in Events : InTransit(e) => InTransit(e)'
    BY <2>1 DEF InTransit, Event
  <2>3. QED
    BY <2>1, <2>2
    DEF Accounted, OnlyPlaced, ProcessedMeansShipped, AppliedMeansShipped, Event
<1>16. QED
  BY <1>2, <1>3, <1>4, <1>5, <1>6, <1>7, <1>8, <1>9, <1>10, <1>11, <1>12, <1>13,
     <1>14, <1>15
  DEF ConsumerNext, HandlerStep

\* The inductive invariant holds in every reachable state.
THEOREM Invariance == Spec => []Inv
<1>1. TypeOK /\ Inv /\ UNCHANGED vars => Inv'
  BY DEF Inv, SettledMeansHandedOver, DraftsBacked, IsNext, OnlyPlaced, Placed,
         NoMessageLost, ConfirmationOwed, InTransit, Event,
         ProcessedMeansShipped, AppliedMeansShipped,
         vars, brokerVars, relayVars, consumerVars
<1>2. TypeOK /\ Inv /\ [Next]_vars => Inv'
  BY <1>1, InvRelay, InvConsumer DEF Next
<1>3. QED
  BY <1>2, InvInit, TypeCorrect, PTL DEF Spec

-----------------------------------------------------------------------------
(* What follows from the invariant.                                        *)

\* No committed order's event is ever without somebody who answers for it.
THEOREM NothingForgotten == Spec => []NoOrderForgotten
<1>1. TypeOK /\ Inv => NoOrderForgotten
  BY DEF TypeOK, RelayTypeOK, Row, Inv, NoOrderForgotten, SettledMeansHandedOver,
         NoMessageLost
<1>2. QED
  BY <1>1, TypeCorrect, Invariance, PTL

\* The customer of a shipped order is told, or will be, or an operator knows.
THEOREM ConfirmationNeverDropped == Spec => []ConfirmationOwed
<1>1. Inv => ConfirmationOwed
  BY DEF Inv
<1>2. QED
  BY <1>1, Invariance, PTL

\* No accepted message is answered before its work is done or buried, also
\* when relays add further copies and bury rows (handle, GiveUp).
THEOREM NoMessageDropped == Spec => []NoMessageLost
<1>1. Inv => NoMessageLost
  BY DEF Inv
<1>2. QED
  BY <1>1, Invariance, PTL

\* A row leaves the relay's query only when the broker has its event.
THEOREM HandedOver == Spec => []SettledMeansHandedOver
<1>1. Inv => SettledMeansHandedOver
  BY DEF Inv
<1>2. QED
  BY <1>1, Invariance, PTL

\* The inbox mark and the shipment are there together.
THEOREM MarkHasShipment == Spec => []ProcessedMeansShipped
<1>1. Inv => ProcessedMeansShipped
  BY DEF Inv
<1>2. QED
  BY <1>1, Invariance, PTL

-----------------------------------------------------------------------------
(* Row locks and the finality of outcomes.                                 *)

\* A step that takes no lock and leaves held rows alone keeps the locks apart.
LEMMA LocksShrink ==
  ASSUME LocksExclusive,
         \A r \in Relays : locked'[r] \subseteq locked[r],
         \A r \in Relays : \A e \in locked'[r] : outbox'[e].status = outbox[e].status
  PROVE  LocksExclusive'
  BY DEF LocksExclusive

\* Every step keeps the locks apart (FOR UPDATE SKIP LOCKED).
LEMMA LocksStep == TypeOK /\ LocksExclusive /\ [Next]_vars => LocksExclusive'
<1> SUFFICES ASSUME TypeOK, LocksExclusive, [Next]_vars
             PROVE  LocksExclusive'
  OBVIOUS
<1> USE DEF TypeOK, RelayTypeOK
<1>1. CASE UNCHANGED relayVars
  BY <1>1, LocksShrink DEF relayVars
<1>2. ASSUME NEW e \in Events, PlaceOrder(e) \/ BackoffElapses(e) \/ PruneOutbox(e)
      PROVE  LocksExclusive'
  <2>1. /\ UNCHANGED locked
        /\ \A f \in Events : outbox'[f].status = outbox[f].status \/
             (f = e /\ outbox[e].status # "pending")
    BY <1>2 DEF PlaceOrder, BackoffElapses, PruneOutbox, Row
  <2>2. QED
    BY <2>1 DEF LocksExclusive
<1>3. ASSUME NEW r \in Relays, SelectBatch(r)
      PROVE  LocksExclusive'
  <2> DEFINE rows == Oldest(Due \ LockedRows)
  <2>1. /\ \A e \in rows : outbox[e].status = "pending"
        /\ \A s \in Relays : rows \cap locked[s] = {}
    BY DEF Oldest, Due, LockedRows
  <2>2. locked' = [locked EXCEPT ![r] = rows] /\ UNCHANGED outbox
    BY <1>3 DEF SelectBatch, Begin
  <2> HIDE DEF rows
  <2>3. QED
    BY <2>1, <2>2 DEF LocksExclusive
<1>4. ASSUME NEW r \in Relays, Commit(r)
      PROVE  LocksExclusive'
  <2>1. /\ \A e \in Events :
             outbox'[e] = IF e \in locked[r] THEN draft[r][e] ELSE outbox[e]
        /\ locked' = [locked EXCEPT ![r] = {}]
    BY <1>4 DEF Commit, EndPass
  <2>2. \A s \in Relays : \A e \in locked'[s] :
          e \in Events /\ e \notin locked[r] /\ e \in locked[s]
    BY <2>1 DEF LocksExclusive
  <2>3. QED
    BY <2>1, <2>2, LocksShrink
<1>5. ASSUME NEW r \in Relays,
             \/ \E e \in Events : \/ PublishConfirmed(r, e)
                                  \/ BuryConfirmed(r, e)
                                  \/ UpdateRow(r, e)
                                  \/ PublishFails(r, e)
                                  \/ BuryFails(r, e)
             \/ Abort(r) \/ LoseSession(r) \/ RelayCrash(r)
      PROVE  LocksExclusive'
  <2>1. UNCHANGED outbox /\ \A s \in Relays : locked'[s] \subseteq locked[s]
    BY <1>5 DEF PublishConfirmed, BuryConfirmed, UpdateRow, PublishFails, BuryFails,
                Abort, LoseSession, RelayCrash, EndPass
  <2>2. QED
    BY <2>1, LocksShrink
<1>6. QED
  BY <1>1, <1>2, <1>3, <1>4, <1>5
  DEF Next, RelayNext, RelayStep, RelayFault, vars

\* Two passes never hold the same row.
THEOREM LocksApart == Spec => []LocksExclusive
<1>1. Init => LocksExclusive
  BY DEF Init, RelayInit, LocksExclusive
<1>2. QED
  BY <1>1, LocksStep, TypeCorrect, PTL DEF Spec

\* An outcome, once committed, is never overwritten.
THEOREM OutcomesStand == Spec => OutcomeIsFinal
<1> DEFINE Stands == \A e \in Events :
      outbox[e].status \in {"published", "failed", "pruned"} =>
        outbox'[e].status \in {outbox[e].status, "pruned"}
<1>1. TypeOK /\ LocksExclusive /\ [Next]_vars => [Stands]_outbox
  <2> SUFFICES ASSUME TypeOK, LocksExclusive, [Next]_vars, outbox' # outbox
               PROVE  Stands
    OBVIOUS
  <2> USE DEF TypeOK, RelayTypeOK
  <2>1. ASSUME NEW e \in Events, PlaceOrder(e) \/ BackoffElapses(e) \/ PruneOutbox(e)
        PROVE  Stands
    BY <2>1 DEF PlaceOrder, BackoffElapses, PruneOutbox, NoRow, Row
  <2>2. ASSUME NEW r \in Relays, Commit(r)
        PROVE  Stands
    BY <2>2 DEF Commit, LocksExclusive
  <2>3. QED
    BY <2>1, <2>2
    DEF Next, RelayNext, RelayStep, RelayFault, SelectBatch, Begin, PublishConfirmed,
        BuryConfirmed, UpdateRow, Abort, PublishFails, BuryFails, LoseSession,
        RelayCrash, vars, relayVars
<1>2. QED
  BY <1>1, TypeCorrect, LocksApart, PTL DEF Spec, OutcomeIsFinal

-----------------------------------------------------------------------------
(* The pipeline implements its promise: the four things a step can mean.   *)

\* Nothing the promise talks about changes.
LEMMA MapsToStutter ==
  ASSUME \A e \in Events : Placed(e)' <=> Placed(e),
         UNCHANGED <<shipped, dlq>>
  PROVE  UNCHANGED Promise!vars
<1>1. {e \in Events : Placed(e)}' = {e \in Events : Placed(e)}
  OBVIOUS
<1>2. QED
  BY <1>1 DEF Promise!vars

\* The commit of a checkout places its order (PlaceOrder in Relay.tla).
LEMMA MapsToPlace ==
  ASSUME NEW e \in Events, ~Placed(e), Placed(e)',
         \A f \in Events \ {e} : Placed(f)' <=> Placed(f),
         UNCHANGED <<shipped, dlq>>
  PROVE  Promise!Next
<1>1. {f \in Events : Placed(f)}' = {f \in Events : Placed(f)} \union {e}
  OBVIOUS
<1>2. Promise!Place(e)
  BY <1>1 DEF Promise!Place
<1>3. QED
  BY <1>2 DEF Promise!Next

\* A committed effect ships the order, unless it is shipped already
\* (applyOrderPlaced in events/consumer.ts).
LEMMA MapsToShip ==
  ASSUME NEW e \in Events, Placed(e),
         shipped' = shipped \union {e},
         UNCHANGED <<outbox, dlq>>
  PROVE  [Promise!Next]_(Promise!vars)
<1>1. {f \in Events : Placed(f)}' = {f \in Events : Placed(f)}
  BY DEF Placed
<1>2. CASE e \in shipped
  BY <1>1, <1>2 DEF Promise!vars
<1>3. CASE e \notin shipped
  <2>1. Promise!Ship(e)
    BY <1>1, <1>3 DEF Promise!Ship
  <2>2. QED
    BY <2>1 DEF Promise!Next
<1>4. QED
  BY <1>2, <1>3

\* A dead letter puts the event aside, unless one lies there already.
LEMMA MapsToPutAside ==
  ASSUME NEW e \in Events, Placed(e), DeadLetter(e),
         UNCHANGED <<outbox, shipped>>
  PROVE  [Promise!Next]_(Promise!vars)
<1>1. {f \in Events : Placed(f)}' = {f \in Events : Placed(f)}
  BY DEF Placed
<1>2. CASE e \in dlq
  BY <1>1, <1>2 DEF Promise!vars, DeadLetter
<1>3. CASE e \notin dlq
  <2>1. Promise!PutAside(e)
    BY <1>1, <1>3 DEF Promise!PutAside, DeadLetter
  <2>2. QED
    BY <2>1 DEF Promise!Next
<1>4. QED
  BY <1>2, <1>3

-----------------------------------------------------------------------------
(* The steps of the pipeline.                                              *)

\* What the checkouts, the relays and the pruning job do is allowed.
LEMMA RelayImplements ==
  ASSUME TypeOK, Inv, LocksExclusive, RelayNext, UNCHANGED consumerVars
  PROVE  [Promise!Next]_(Promise!vars)
<1> USE DEF TypeOK, RelayTypeOK
<1>1. UNCHANGED shipped
  BY DEF consumerVars
<1>2. ASSUME NEW e \in Events, PlaceOrder(e)
      PROVE  [Promise!Next]_(Promise!vars)
  <2>1. /\ ~Placed(e)
        /\ Placed(e)'
        /\ \A f \in Events \ {e} : Placed(f)' <=> Placed(f)
        /\ UNCHANGED dlq
    BY <1>2 DEF PlaceOrder, Placed, NewRow, brokerVars
  <2>2. QED
    BY <1>1, <2>1, MapsToPlace
<1>3. ASSUME NEW e \in Events, BackoffElapses(e) \/ PruneOutbox(e)
      PROVE  [Promise!Next]_(Promise!vars)
  <2>1. (\A f \in Events : Placed(f)' <=> Placed(f)) /\ UNCHANGED dlq
    BY <1>3 DEF BackoffElapses, PruneOutbox, Placed, NoRow, Row, brokerVars
  <2>2. QED
    BY <1>1, <2>1, MapsToStutter
<1>4. ASSUME NEW r \in Relays, NEW e \in Events,
             BuryConfirmed(r, e) \/ BuryFails(r, e)
      PROVE  [Promise!Next]_(Promise!vars)
  <2>1. Placed(e)
    BY <1>4 DEF BuryConfirmed, BuryFails, IsNext, Inv, OnlyPlaced
  <2>2. UNCHANGED outbox /\ (DeadLetter(e) \/ UNCHANGED dlq)
    BY <1>4 DEF BuryConfirmed, BuryFails
  <2>3. CASE DeadLetter(e)
    BY <1>1, <2>1, <2>2, <2>3, MapsToPutAside
  <2>4. CASE UNCHANGED dlq
    BY <1>1, <2>2, <2>4, MapsToStutter DEF Placed
  <2>5. QED
    BY <2>2, <2>3, <2>4
<1>5. ASSUME NEW r \in Relays, Commit(r)
      PROVE  [Promise!Next]_(Promise!vars)
  <2>1. \A e \in locked[r] : outbox[e].status = "pending" /\ draft[r][e].status # "none"
    BY DEF LocksExclusive, Inv, OnlyPlaced
  <2>2. /\ \A e \in Events :
             outbox'[e] = IF e \in locked[r] THEN draft[r][e] ELSE outbox[e]
        /\ UNCHANGED dlq
    BY <1>5 DEF Commit, brokerVars
  <2>3. \A e \in Events : Placed(e)' <=> Placed(e)
    BY <2>1, <2>2 DEF Placed
  <2>4. QED
    BY <1>1, <2>2, <2>3, MapsToStutter
<1>6. ASSUME NEW r \in Relays,
             \/ \E e \in Events : \/ PublishConfirmed(r, e)
                                  \/ PublishFails(r, e)
                                  \/ UpdateRow(r, e)
             \/ SelectBatch(r) \/ Abort(r) \/ LoseSession(r) \/ RelayCrash(r)
      PROVE  [Promise!Next]_(Promise!vars)
  <2>1. UNCHANGED <<outbox, dlq>>
    BY <1>6 DEF PublishConfirmed, PublishFails, UpdateRow, SelectBatch, Begin,
                Abort, LoseSession, RelayCrash, brokerVars
  <2>2. QED
    BY <1>1, <2>1, MapsToStutter DEF Placed
<1>7. QED
  BY <1>2, <1>3, <1>4, <1>5, <1>6 DEF RelayNext, RelayStep, RelayFault

\* So is what the consumers and the broker do.
LEMMA ConsumerImplements ==
  ASSUME TypeOK, Inv, ConsumerNext, UNCHANGED relayVars
  PROVE  [Promise!Next]_(Promise!vars)
<1> USE DEF TypeOK, ConsumerTypeOK
<1>1. UNCHANGED outbox
  BY DEF relayVars
<1>2. \A h \in Handler : stage[h] # "free" => Event(h) \in Events /\ Placed(Event(h))
  BY MsgEvent DEF Inv, OnlyPlaced, Event
<1>3. ASSUME UNCHANGED <<shipped, dlq>>
      PROVE  [Promise!Next]_(Promise!vars)
  BY <1>1, <1>3, MapsToStutter DEF Placed
<1>4. ASSUME NEW h \in Handler, CommitShipment(h) \/ EffectFails(h)
      PROVE  [Promise!Next]_(Promise!vars)
  <2>1. stage[h] # "free" /\ UNCHANGED dlq /\ (Ship(h) \/ UNCHANGED shipped)
    BY <1>4 DEF CommitShipment, EffectFails, brokerVars, dbVars
  <2>2. CASE Ship(h)
    BY <1>1, <1>2, <2>1, <2>2, MapsToShip DEF Ship
  <2>3. QED
    BY <1>3, <2>1, <2>2
<1>5. ASSUME NEW h \in Handler, RejectMalformed(h) \/ GiveUp(h) \/ ReturnToQueue(h)
      PROVE  [Promise!Next]_(Promise!vars)
  <2>1. /\ stage[h] # "free"
        /\ UNCHANGED shipped
        /\ DeadLetter(Event(h)) \/ UNCHANGED dlq
    BY <1>5 DEF RejectMalformed, GiveUp, ReturnToQueue, Returned, Event, dbVars
  <2>2. CASE DeadLetter(Event(h))
    BY <1>1, <1>2, <2>1, <2>2, MapsToPutAside
  <2>3. QED
    BY <1>3, <2>1, <2>2
<1>6. CASE \/ \E h \in Handler :
                \/ \E m \in Msg : Receive(h, m)
                \/ Mark(h) \/ OrderMissing(h)
                \/ EnqueueConfirmation(h) \/ EnqueueFails(h)
                \/ ScheduleRetry(h) \/ Ack(h)
           \/ \E m \in Msg : RetryExpires(m) /\ UNCHANGED consumerVars
           \/ \E c \in Consumers : ConsumerCrash(c) \/ StopConsuming(c) \/ Replaced(c)
           \/ \E e \in Events : PruneProcessed(e)
  <2>1. UNCHANGED <<shipped, dlq>>
    BY <1>6 DEF Receive, Mark, OrderMissing, EnqueueConfirmation, EnqueueFails,
                ScheduleRetry, Ack, RetryExpires, ConsumerCrash, StopConsuming,
                Replaced, PruneProcessed, brokerVars, dbVars, consumerVars
  <2>2. QED
    BY <1>3, <2>1
<1>7. QED
  BY <1>4, <1>5, <1>6 DEF ConsumerNext, HandlerStep

\* The pipeline implements the promise: an order is shipped once, only when it
\* was committed, or its event is put aside; nothing else is (Relay.tla,
\* Consumer.tla against OrderFulfillment.tla).
THEOREM PromiseKept == Spec => ImplementsPromise
<1>1. Init => Promise!Init
  BY DEF Init, BrokerInit, RelayInit, ConsumerInit, NoDraft, NoRow, Placed,
         Promise!Init
<1>2. TypeOK /\ Inv /\ LocksExclusive /\ [Next]_vars => [Promise!Next]_(Promise!vars)
  <2> SUFFICES ASSUME TypeOK, Inv, LocksExclusive, [Next]_vars
               PROVE  [Promise!Next]_(Promise!vars)
    OBVIOUS
  <2>1. CASE RelayNext /\ UNCHANGED consumerVars
    BY <2>1, RelayImplements
  <2>2. CASE ConsumerNext /\ UNCHANGED relayVars
    BY <2>2, ConsumerImplements
  <2>3. CASE UNCHANGED vars
    BY <2>3, MapsToStutter DEF vars, relayVars, consumerVars, brokerVars, Placed
  <2>4. QED
    BY <2>1, <2>2, <2>3 DEF Next
<1>3. QED
  BY <1>1, <1>2, TypeCorrect, Invariance, LocksApart, PTL
  DEF Spec, ImplementsPromise, Promise!Spec

-----------------------------------------------------------------------------
(* Copies of an event.                                                     *)

\* A pass works through rows it has locked and has not drafted yet.
PassesHold ==
  \A r \in Relays :
    /\ locked[r] # {} => todo[r] \subseteq locked[r]
    /\ \A e \in todo[r] : draft[r][e].status = "pending"
    /\ rpc[r] = "idle" => locked[r] = {} /\ todo[r] = {}

Settled(e) == outbox[e].status \in {"published", "failed", "pruned"}

\* Pass r has published e and still holds its row.
VouchedBy(r, e) ==
  /\ e \in locked[r]
  /\ draft[r][e].status = "published" \/ (rpc[r] = "mark" /\ IsNext(r, e))

Vouched(e) == Settled(e) \/ \E r \in Relays : VouchedBy(r, e)

\* Passes that do not know they have lost their rows, and may publish e.
Unaware(e) == {r \in Relays : locked[r] = {} /\ rpc[r] = "publish" /\ e \in todo[r]}

\* One copy of an event is accounted for by its row, every other one, and
\* every one that may still come of a lost session, by a fault.
CopiesHold ==
  \A e \in Events :
    accepted[e] + Cardinality(Unaware(e)) <= faults + IF Vouched(e) THEN 1 ELSE 0

CopiesInv == PassesHold /\ CopiesHold

LEMMA UnawareFinite ==
  \A e \in Events : IsFiniteSet(Unaware(e)) /\ Cardinality(Unaware(e)) \in Nat
<1>1. \A e \in Events : IsFiniteSet(Unaware(e))
  BY RelayAssumption, FS_Subset DEF Unaware
<1>2. QED
  BY <1>1, FS_CardinalityType

LEMMA CopiesStart == Init => CopiesInv
<1> SUFFICES ASSUME Init PROVE CopiesInv
  OBVIOUS
<1>1. PassesHold
  BY DEF Init, RelayInit, PassesHold
<1>2. \A e \in Events : Unaware(e) = {}
  BY DEF Init, RelayInit, Unaware
<1>3. \A e \in Events : Cardinality(Unaware(e)) = 0
  BY <1>2, FS_EmptySet
<1>4. \A e \in Events : accepted[e] = 0 /\ faults = 0
  BY DEF Init, BrokerInit
<1>5. ASSUME NEW e \in Events
      PROVE  accepted[e] + Cardinality(Unaware(e)) <= faults + IF Vouched(e) THEN 1 ELSE 0
  <2>1. (IF Vouched(e) THEN 1 ELSE 0) \in {0, 1}
    OBVIOUS
  <2>2. QED
    BY <1>3, <1>4, <2>1
<1>6. CopiesHold
  BY <1>5 DEF CopiesHold
<1>7. QED
  BY <1>1, <1>6 DEF CopiesInv

\* Steps that add no copy, no unaware pass, and take no voucher without a
\* fault.
LEMMA NothingAdded ==
  ASSUME TypeOK, CopiesHold, NEW e \in Events,
         accepted'[e] = accepted[e],
         Unaware(e)' \subseteq Unaware(e),
         \/ faults' = faults /\ (Vouched(e) => Vouched(e)')
         \/ faults' = faults + 1
  PROVE  accepted'[e] + Cardinality(Unaware(e)') <= faults' + IF Vouched(e)' THEN 1 ELSE 0
<1>1. /\ Cardinality(Unaware(e)') \in Nat
      /\ Cardinality(Unaware(e)') <= Cardinality(Unaware(e))
      /\ Cardinality(Unaware(e)) \in Nat
  BY UnawareFinite, FS_Subset, FS_CardinalityType
<1>2. accepted[e] + Cardinality(Unaware(e)) <= faults + IF Vouched(e) THEN 1 ELSE 0
  BY DEF CopiesHold
<1>3. accepted[e] \in Nat /\ faults \in Nat
  BY BrokerAssumption DEF TypeOK, BrokerTypeOK
<1>4. QED
  BY <1>1, <1>2, <1>3

\* The steps of a pass are steps of its own entries.
OthersUntouched(r) ==
  \A s \in Relays \ {r} :
    rpc'[s] = rpc[s] /\ locked'[s] = locked[s] /\ todo'[s] = todo[s] /\ draft'[s] = draft[s]

LEMMA OthersKeep ==
  ASSUME NEW r \in Relays, OthersUntouched(r), NEW e \in Events
  PROVE  /\ \A s \in Relays \ {r} : VouchedBy(s, e)' <=> VouchedBy(s, e)
         /\ Unaware(e)' \subseteq Unaware(e) \union {r}
         /\ Unaware(e)' \ {r} = Unaware(e) \ {r}
  BY DEF OthersUntouched, VouchedBy, Unaware, IsNext

-----------------------------------------------------------------------------
(* The copies through the steps.                                           *)

\* Rows that are placed, become due again or are pruned are held by no pass.
LEMMA TableKeeps ==
  ASSUME TypeOK, LocksExclusive, CopiesInv, NEW e \in Events,
         PlaceOrder(e) \/ BackoffElapses(e) \/ PruneOutbox(e)
  PROVE  CopiesInv'
<1> USE DEF CopiesInv
<1>1. /\ UNCHANGED <<rpc, locked, todo, draft, brokerVars>>
      /\ \A f \in Events : Settled(f) => Settled(f)'
  BY DEF PlaceOrder, BackoffElapses, PruneOutbox, Settled, NoRow, NewRow, TypeOK, RelayTypeOK, Row
<1>2. PassesHold'
  BY <1>1 DEF PassesHold
<1>3. \A f \in Events : Unaware(f)' = Unaware(f) /\ (Vouched(f) => Vouched(f)')
  BY <1>1 DEF Unaware, Vouched, VouchedBy, IsNext
<1>4. CopiesHold'
  BY <1>1, <1>3, NothingAdded DEF CopiesHold, brokerVars
<1>5. QED
  BY <1>2, <1>4

LEMMA SelectKeeps ==
  ASSUME TypeOK, LocksExclusive, CopiesInv, NEW r \in Relays, SelectBatch(r)
  PROVE  CopiesInv'
<1> DEFINE rows == Oldest(Due \ LockedRows)
<1> USE DEF CopiesInv, TypeOK, RelayTypeOK
<1>1. rows \subseteq Events /\ \A e \in rows : outbox[e].status = "pending"
  BY DEF Oldest, Due
<1>2. /\ rpc[r] = "idle" /\ rows # {}
      /\ rpc' = [rpc EXCEPT ![r] = "publish"]
      /\ locked' = [locked EXCEPT ![r] = rows]
      /\ todo' = [todo EXCEPT ![r] = rows]
      /\ draft' = [draft EXCEPT ![r] =
                     [e \in Events |-> IF e \in rows THEN outbox[e] ELSE NoRow]]
      /\ UNCHANGED <<outbox, brokerVars>>
  BY DEF SelectBatch, Begin
<1> HIDE DEF rows
<1>3. OthersUntouched(r)
  BY <1>2 DEF OthersUntouched
<1>4. PassesHold'
  <2>1. /\ locked'[r] = rows /\ todo'[r] = rows /\ rpc'[r] = "publish"
        /\ \A e \in rows : draft'[r][e].status = "pending"
    BY <1>1, <1>2
  <2>2. QED
    BY <1>3, <2>1 DEF PassesHold, OthersUntouched
<1>5. ASSUME NEW e \in Events
      PROVE  Unaware(e)' \subseteq Unaware(e) /\ (Vouched(e) => Vouched(e)')
  <2>1. r \notin Unaware(e)'
    BY <1>2 DEF Unaware
  <2>2. ~VouchedBy(r, e)
    BY <1>2 DEF VouchedBy, PassesHold
  <2>3. QED
    BY <1>2, <1>3, <2>1, <2>2, OthersKeep DEF Vouched, Settled
<1>6. CopiesHold'
  BY <1>2, <1>5, NothingAdded DEF CopiesHold, brokerVars
<1>7. QED
  BY <1>4, <1>6

\* A confirmed publish: the row vouches for it, or the session was lost and
\* its fault does.
LEMMA PublishKeeps ==
  ASSUME TypeOK, LocksExclusive, CopiesInv, NEW r \in Relays, NEW e \in Events,
         PublishConfirmed(r, e)
  PROVE  CopiesInv'
<1> USE DEF CopiesInv, TypeOK, RelayTypeOK, BrokerTypeOK
<1>1. /\ rpc[r] = "publish" /\ IsNext(r, e)
      /\ accepted' = [accepted EXCEPT ![e] = @ + 1]
      /\ rpc' = [rpc EXCEPT ![r] = "mark"]
      /\ UNCHANGED <<outbox, locked, todo, draft, faults>>
  BY DEF PublishConfirmed, Accept
<1>2. OthersUntouched(r)
  BY <1>1 DEF OthersUntouched
<1>3. PassesHold'
  BY <1>1 DEF PassesHold
<1>4. r \notin Unaware(e)' /\ \A f \in Events : Unaware(f)' \subseteq Unaware(f)
  BY <1>1, <1>2, OthersKeep DEF Unaware
<1>5. \A f \in Events : Vouched(f) => Vouched(f)'
  <2>1. \A f \in Events : VouchedBy(r, f) => VouchedBy(r, f)'
    BY <1>1 DEF VouchedBy
  <2>2. QED
    BY <1>1, <1>2, <2>1, OthersKeep DEF Vouched, Settled
<1>6. accepted'[e] + Cardinality(Unaware(e)') <= faults' + IF Vouched(e)' THEN 1 ELSE 0
  <2>1. /\ accepted[e] + Cardinality(Unaware(e)) <= faults + IF Vouched(e) THEN 1 ELSE 0
        /\ accepted[e] \in Nat /\ faults \in Nat /\ accepted'[e] = accepted[e] + 1
    BY <1>1, BrokerAssumption DEF CopiesHold
  <2>2. CASE locked[r] = {}
    <3>1. r \in Unaware(e) /\ Unaware(e)' \subseteq Unaware(e) \ {r}
      BY <1>1, <1>4, <2>2 DEF Unaware, IsNext
    <3>2. IsFiniteSet(Unaware(e)) /\ IsFiniteSet(Unaware(e) \ {r})
          /\ Cardinality(Unaware(e) \ {r}) = Cardinality(Unaware(e)) - 1
          /\ Cardinality(Unaware(e)) \in Nat
      BY <3>1, UnawareFinite, FS_RemoveElement
    <3>3. /\ Cardinality(Unaware(e)') \in Nat
          /\ Cardinality(Unaware(e)') <= Cardinality(Unaware(e)) - 1
      BY <3>1, <3>2, FS_Subset, FS_CardinalityType
    <3>4. QED
      BY <1>1, <1>5, <2>1, <3>2, <3>3
  <2>3. CASE locked[r] # {}
    <3>1. e \in locked[r] /\ outbox[e].status = "pending" /\ draft[r][e].status = "pending"
      BY <1>1, <2>3 DEF PassesHold, IsNext, LocksExclusive
    <3>2. \A s \in Relays \ {r} : e \notin locked[s]
      BY <3>1 DEF LocksExclusive
    <3>3. ~Vouched(e)
      BY <1>1, <3>1, <3>2 DEF Vouched, VouchedBy, Settled
    <3>4. VouchedBy(r, e)'
      BY <1>1, <3>1 DEF VouchedBy, IsNext
    <3>5. Vouched(e)'
      BY <3>4 DEF Vouched
    <3>6. /\ Cardinality(Unaware(e)') \in Nat /\ Cardinality(Unaware(e)) \in Nat
          /\ Cardinality(Unaware(e)') <= Cardinality(Unaware(e))
      BY <1>4, UnawareFinite, FS_Subset, FS_CardinalityType
    <3>7. QED
      BY <1>1, <2>1, <3>3, <3>5, <3>6
  <2>4. QED
    BY <2>2, <2>3
<1>7. \A f \in Events \ {e} : accepted'[f] = accepted[f]
  BY <1>1
<1>8. CopiesHold'
  BY <1>1, <1>4, <1>5, <1>6, <1>7, NothingAdded DEF CopiesHold
<1>9. QED
  BY <1>3, <1>8

\* A pass that goes on to an outcome other than a confirmed publish.
LEMMA FailsKeep ==
  ASSUME TypeOK, CopiesInv, NEW r \in Relays, NEW e \in Events,
         PublishFails(r, e) \/ BuryConfirmed(r, e) \/ BuryFails(r, e)
  PROVE  CopiesInv'
<1> USE DEF CopiesInv, TypeOK, RelayTypeOK, BrokerTypeOK
<1>1. /\ rpc[r] \in {"publish", "bury"}
      /\ \E p \in {"bury", "backoff", "fail"} : rpc' = [rpc EXCEPT ![r] = p]
      /\ UNCHANGED <<outbox, locked, todo, draft>>
      /\ \/ accepted' = accepted /\ faults' \in {faults, faults + 1}
         \/ accepted' = [accepted EXCEPT ![e] = @ + 1] /\ faults' = faults + 1
  BY DEF PublishFails, BuryConfirmed, BuryFails, Accept, AfterFailure, Fault
<1>2. OthersUntouched(r)
  BY <1>1 DEF OthersUntouched
<1>3. PassesHold'
  BY <1>1 DEF PassesHold
<1>4. \A f \in Events : Unaware(f)' \subseteq Unaware(f) /\ (Vouched(f) => Vouched(f)')
  <2>1. \A f \in Events : r \notin Unaware(f)'
    BY <1>1 DEF Unaware
  <2>2. \A f \in Events : VouchedBy(r, f) => VouchedBy(r, f)'
    BY <1>1 DEF VouchedBy
  <2>3. QED
    BY <1>1, <1>2, <2>1, <2>2, OthersKeep DEF Vouched, Settled
<1>5. ASSUME NEW f \in Events
      PROVE  accepted'[f] + Cardinality(Unaware(f)') <= faults' + IF Vouched(f)' THEN 1 ELSE 0
  <2>1. /\ accepted[f] + Cardinality(Unaware(f)) <= faults + IF Vouched(f) THEN 1 ELSE 0
        /\ accepted[f] \in Nat /\ faults \in Nat
    BY BrokerAssumption DEF CopiesHold
  <2>2. /\ Cardinality(Unaware(f)') \in Nat /\ Cardinality(Unaware(f)) \in Nat
        /\ Cardinality(Unaware(f)') <= Cardinality(Unaware(f))
    BY <1>4, UnawareFinite, FS_Subset, FS_CardinalityType
  <2>3. \/ accepted'[f] = accepted[f] /\ faults' \in {faults, faults + 1}
        \/ accepted'[f] = accepted[f] + 1 /\ faults' = faults + 1
    <3>1. CASE accepted' = accepted /\ faults' \in {faults, faults + 1}
      BY <3>1
    <3>2. CASE accepted' = [accepted EXCEPT ![e] = @ + 1] /\ faults' = faults + 1
      BY <3>2
    <3>3. QED
      BY <1>1, <3>1, <3>2
  <2>4. QED
    BY <1>4, <2>1, <2>2, <2>3
<1>6. CopiesHold'
  BY <1>5 DEF CopiesHold
<1>7. QED
  BY <1>3, <1>6

\* The row has its outcome: a pass that published it goes on vouching for it.
LEMMA UpdateKeeps ==
  ASSUME TypeOK, LocksExclusive, CopiesInv, NEW r \in Relays, NEW e \in Events,
         UpdateRow(r, e)
  PROVE  CopiesInv'
<1> USE DEF CopiesInv, TypeOK, RelayTypeOK
<1> DEFINE row == Updated(draft[r][e], rpc[r])
<1>1. row \in Row /\ (rpc[r] = "mark" => row.status = "published")
  BY UpdatedFact DEF UpdateRow
<1>2. /\ rpc[r] \in {"mark", "fail", "backoff"}
      /\ IsNext(r, e)
      /\ locked[r] # {}
      /\ draft' = [draft EXCEPT ![r][e] = row]
      /\ todo' = [todo EXCEPT ![r] = @ \ {e}]
      /\ rpc' = [rpc EXCEPT ![r] = "publish"]
      /\ UNCHANGED <<outbox, locked, brokerVars>>
  BY DEF UpdateRow, SessionAlive
<1> HIDE DEF row
<1>3. OthersUntouched(r)
  BY <1>2 DEF OthersUntouched
<1>4. PassesHold'
  <2>1. /\ locked'[r] # {} => todo'[r] \subseteq locked'[r]
        /\ rpc'[r] = "publish"
        /\ \A f \in todo'[r] : draft'[r][f] = draft[r][f] /\ f \in todo[r]
    BY <1>2 DEF PassesHold
  <2>2. QED
    BY <1>3, <2>1 DEF PassesHold, OthersUntouched
<1>5. ASSUME NEW f \in Events
      PROVE  Unaware(f)' \subseteq Unaware(f) /\ (Vouched(f) => Vouched(f)')
  <2>1. r \notin Unaware(f)'
    BY <1>2 DEF Unaware
  <2>2. VouchedBy(r, f) => VouchedBy(r, f)'
    <3>1. CASE f = e
      <4>1. draft[r][e].status = "pending"
        BY <1>2 DEF PassesHold, IsNext
      <4>2. VouchedBy(r, e) => rpc[r] = "mark"
        BY <4>1 DEF VouchedBy
      <4>3. draft'[r][e] = row
        BY <1>2
      <4>4. QED
        BY <1>1, <1>2, <3>1, <4>2, <4>3 DEF VouchedBy
    <3>2. CASE f # e
      <4>1. ~IsNext(r, f)
        BY <1>2, <3>2, NextIsUnique
      <4>2. draft'[r][f] = draft[r][f]
        BY <1>2, <3>2
      <4>3. QED
        BY <1>2, <4>1, <4>2 DEF VouchedBy
    <3>3. QED
      BY <3>1, <3>2
  <2>3. QED
    BY <1>2, <1>3, <2>1, <2>2, OthersKeep DEF Vouched, Settled
<1>6. CopiesHold'
  BY <1>2, <1>5, NothingAdded DEF CopiesHold, brokerVars
<1>7. QED
  BY <1>4, <1>6

\* COMMIT: what a pass vouched for, the row now does.
LEMMA CommitKeeps ==
  ASSUME TypeOK, LocksExclusive, CopiesInv, NEW r \in Relays, Commit(r)
  PROVE  CopiesInv'
<1> USE DEF CopiesInv, TypeOK, RelayTypeOK
<1>1. /\ rpc[r] = "publish" /\ todo[r] = {}
      /\ \A e \in Events :
           outbox'[e] = IF e \in locked[r] THEN draft[r][e] ELSE outbox[e]
      /\ rpc' = [rpc EXCEPT ![r] = "idle"]
      /\ locked' = [locked EXCEPT ![r] = {}]
      /\ todo' = [todo EXCEPT ![r] = {}]
      /\ draft' = [draft EXCEPT ![r] = NoDraft]
      /\ UNCHANGED brokerVars
  BY DEF Commit, EndPass
<1>2. OthersUntouched(r)
  BY <1>1 DEF OthersUntouched
<1>3. PassesHold'
  <2>1. rpc'[r] = "idle" /\ locked'[r] = {} /\ todo'[r] = {}
    BY <1>1
  <2>2. QED
    BY <1>2, <2>1 DEF PassesHold, OthersUntouched
<1>4. ASSUME NEW e \in Events
      PROVE  Unaware(e)' \subseteq Unaware(e) /\ (Vouched(e) => Vouched(e)')
  <2>1. r \notin Unaware(e)'
    BY <1>1 DEF Unaware
  <2>2. VouchedBy(r, e) => Settled(e)'
    BY <1>1 DEF VouchedBy, Settled
  <2>3. Settled(e) => Settled(e)'
    BY <1>1 DEF Settled, LocksExclusive
  <2>4. QED
    BY <1>2, <2>1, <2>2, <2>3, OthersKeep DEF Vouched
<1>5. CopiesHold'
  BY <1>1, <1>4, NothingAdded DEF CopiesHold, brokerVars
<1>6. QED
  BY <1>3, <1>5

\* A pass that ends without a commit: by itself only after its session, and
\* with it everything it could vouch for, is gone.
LEMMA EndKeeps ==
  ASSUME TypeOK, CopiesInv, NEW r \in Relays, Abort(r) \/ RelayCrash(r)
  PROVE  CopiesInv'
<1> USE DEF CopiesInv, TypeOK, RelayTypeOK
<1>1. /\ rpc' = [rpc EXCEPT ![r] = "idle"]
      /\ locked' = [locked EXCEPT ![r] = {}]
      /\ todo' = [todo EXCEPT ![r] = {}]
      /\ draft' = [draft EXCEPT ![r] = NoDraft]
      /\ UNCHANGED <<outbox, accepted>>
      /\ \/ faults' = faults /\ locked[r] = {}
         \/ faults' = faults + 1
  BY DEF Abort, RelayCrash, EndPass, SessionAlive, Fault, brokerVars
<1>2. OthersUntouched(r)
  BY <1>1 DEF OthersUntouched
<1>3. PassesHold'
  <2>1. rpc'[r] = "idle" /\ locked'[r] = {} /\ todo'[r] = {}
    BY <1>1
  <2>2. QED
    BY <1>2, <2>1 DEF PassesHold, OthersUntouched
<1>4. ASSUME NEW e \in Events
      PROVE  /\ Unaware(e)' \subseteq Unaware(e)
             /\ \/ faults' = faults /\ (Vouched(e) => Vouched(e)')
                \/ faults' = faults + 1
  <2>1. r \notin Unaware(e)'
    BY <1>1 DEF Unaware
  <2>2. locked[r] = {} => ~VouchedBy(r, e)
    BY DEF VouchedBy
  <2>3. QED
    BY <1>1, <1>2, <2>1, <2>2, OthersKeep DEF Vouched, Settled
<1>5. CopiesHold'
  BY <1>1, <1>4, NothingAdded DEF CopiesHold
<1>6. QED
  BY <1>3, <1>5

\* The session is lost: its fault stands for the row that was published and is
\* published again, or for the one the pass is about to publish unawares.
LEMMA LossKeeps ==
  ASSUME TypeOK, LocksExclusive, CopiesInv, NEW r \in Relays, LoseSession(r)
  PROVE  CopiesInv'
<1> USE DEF CopiesInv, TypeOK, RelayTypeOK, BrokerTypeOK
<1>1. /\ locked[r] # {}
      /\ locked' = [locked EXCEPT ![r] = {}]
      /\ UNCHANGED <<outbox, rpc, todo, draft, accepted>>
      /\ faults' = faults + 1
  BY DEF LoseSession, SessionAlive, Fault
<1>2. OthersUntouched(r)
  BY <1>1 DEF OthersUntouched
<1>3. PassesHold'
  <2>1. locked'[r] = {}
    BY <1>1
  <2>2. QED
    BY <1>1, <1>2, <2>1 DEF PassesHold, OthersUntouched
<1>4. ASSUME NEW e \in Events
      PROVE  accepted'[e] + Cardinality(Unaware(e)') <= faults' + IF Vouched(e)' THEN 1 ELSE 0
  <2>1. /\ accepted[e] + Cardinality(Unaware(e)) <= faults + IF Vouched(e) THEN 1 ELSE 0
        /\ accepted[e] \in Nat /\ faults \in Nat
    BY BrokerAssumption DEF CopiesHold
  <2>2. CASE ~VouchedBy(r, e)
    <3>1. Vouched(e) => Vouched(e)'
      BY <1>1, <1>2, <2>2, OthersKeep DEF Vouched, Settled
    <3>2. r \notin Unaware(e)
      BY <1>1 DEF Unaware
    <3>3. /\ IsFiniteSet(Unaware(e) \union {r})
          /\ Cardinality(Unaware(e) \union {r}) = Cardinality(Unaware(e)) + 1
          /\ Cardinality(Unaware(e)) \in Nat
      BY <3>2, UnawareFinite, FS_AddElement
    <3>4. Unaware(e)' \subseteq Unaware(e) \union {r}
      BY <1>2, OthersKeep
    <3>5. /\ Cardinality(Unaware(e)') \in Nat
          /\ Cardinality(Unaware(e)') <= Cardinality(Unaware(e)) + 1
      BY <3>3, <3>4, FS_Subset, FS_CardinalityType
    <3>6. QED
      BY <1>1, <2>1, <3>1, <3>3, <3>5
  <2>3. CASE VouchedBy(r, e)
    <3>1. e \notin todo[r] \/ rpc[r] = "mark"
      BY <2>3 DEF VouchedBy, PassesHold
    <3>2. Unaware(e)' \subseteq Unaware(e)
      <4>1. r \notin Unaware(e)'
        BY <1>1, <3>1 DEF Unaware
      <4>2. QED
        BY <1>2, <4>1, OthersKeep
    <3>3. /\ Cardinality(Unaware(e)') \in Nat /\ Cardinality(Unaware(e)) \in Nat
          /\ Cardinality(Unaware(e)') <= Cardinality(Unaware(e))
      BY <3>2, UnawareFinite, FS_Subset, FS_CardinalityType
    <3>4. QED
      BY <1>1, <2>1, <3>3
  <2>4. QED
    BY <2>2, <2>3
<1>5. CopiesHold'
  BY <1>4 DEF CopiesHold
<1>6. QED
  BY <1>3, <1>5

\* The consumers add no copies: what they send round again is counted by
\* x-retry, not published anew.
LEMMA ConsumerKeeps ==
  ASSUME TypeOK, CopiesInv, ConsumerNext \/ UNCHANGED vars, UNCHANGED relayVars
  PROVE  CopiesInv'
<1> USE DEF CopiesInv, TypeOK, BrokerTypeOK
<1>1. UNCHANGED accepted /\ faults' \in {faults, faults + 1}
  BY DEF ConsumerNext, Receive, HandlerStep, RejectMalformed, Mark, CommitShipment,
         OrderMissing, EnqueueConfirmation, ScheduleRetry, GiveUp, Ack, EffectFails,
         EnqueueFails, ReturnToQueue, Returned, RetryExpires, ConsumerCrash,
         StopConsuming, Replaced, PruneProcessed, Fault, brokerVars, vars
<1>2. PassesHold'
  BY DEF PassesHold, relayVars
<1>3. \A e \in Events : Unaware(e)' = Unaware(e) /\ (Vouched(e) => Vouched(e)')
  BY DEF Unaware, Vouched, VouchedBy, Settled, IsNext, relayVars
<1>4. CopiesHold'
  BY <1>1, <1>3, NothingAdded DEF CopiesHold
<1>5. QED
  BY <1>2, <1>4

LEMMA CopiesStep ==
  TypeOK /\ LocksExclusive /\ CopiesInv /\ [Next]_vars => CopiesInv'
<1> SUFFICES ASSUME TypeOK, LocksExclusive, CopiesInv, [Next]_vars
             PROVE  CopiesInv'
  OBVIOUS
<1>1. CASE ConsumerNext /\ UNCHANGED relayVars
  BY <1>1, ConsumerKeeps
<1>2. CASE UNCHANGED vars
  BY <1>2, ConsumerKeeps DEF vars
<1>3. CASE RelayNext
  BY <1>3, TableKeeps, SelectKeeps, PublishKeeps, FailsKeep, UpdateKeeps, CommitKeeps,
     EndKeeps, LossKeeps
  DEF RelayNext, RelayStep, RelayFault
<1>4. QED
  BY <1>1, <1>2, <1>3 DEF Next

\* However many relays share the table, a second copy of an event takes a
\* fault, and each fault makes one copy at most (relay.ts runOnce: FOR UPDATE
\* SKIP LOCKED, one transaction per pass).
THEOREM CopiesNeedFaults == Spec => []DuplicatesOnlyFromFaults
<1>1. Spec => []CopiesInv
  BY CopiesStart, CopiesStep, TypeCorrect, LocksApart, PTL DEF Spec
<1>2. TypeOK /\ CopiesInv => DuplicatesOnlyFromFaults
  <2> SUFFICES ASSUME TypeOK, CopiesInv, NEW e \in Events
               PROVE  accepted[e] <= 1 + faults
    BY DEF DuplicatesOnlyFromFaults
  <2>1. accepted[e] + Cardinality(Unaware(e)) <= faults + IF Vouched(e) THEN 1 ELSE 0
    BY DEF CopiesInv, CopiesHold
  <2>2. accepted[e] \in Nat /\ faults \in Nat /\ Cardinality(Unaware(e)) \in Nat
    BY BrokerAssumption, UnawareFinite DEF TypeOK, BrokerTypeOK
  <2>3. QED
    BY <2>1, <2>2
<1>3. QED
  BY <1>1, <1>2, TypeCorrect, PTL

-----------------------------------------------------------------------------
(* Orders that are not there.                                              *)

\* How far a handler has come says what its event has passed: the parser, and
\* the foreign key or the mark of one that passed it.
ChecksPassed ==
  \A h \in Handler :
    /\ stage[h] = "marked" => Event(h) \notin Malformed
    /\ stage[h] = "applied" => Event(h) \notin Orderless \union Malformed

RealInv == NothingForMissingOrders /\ ChecksPassed

\* A handler's step: it moves on with the message it has, or gives it up.
LEMMA RealAfter ==
  ASSUME TypeOK, RealInv, NEW h \in Handler,
         stage' = [stage EXCEPT ![h] = stage'[h]],
         \A g \in Handler \ {h} : held'[g] = held[g],
         stage'[h] = "marked" => Event(h)' \notin Malformed,
         stage'[h] = "applied" => Event(h)' \notin Orderless \union Malformed,
         \A e \in (shipped' \union confirmed') \ (shipped \union confirmed) :
           e \notin Orderless \union Malformed
  PROVE  RealInv'
<1>1. NothingForMissingOrders'
  BY DEF RealInv, NothingForMissingOrders
<1>2. \A g \in Handler \ {h} : stage'[g] = stage[g]
  BY DEF TypeOK, ConsumerTypeOK
<1>3. ChecksPassed'
  BY <1>2 DEF RealInv, ChecksPassed, Event
<1>4. QED
  BY <1>1, <1>3 DEF RealInv

LEMMA RealStep == TypeOK /\ Inv /\ RealInv /\ [Next]_vars => RealInv'
<1> SUFFICES ASSUME TypeOK, Inv, RealInv, [Next]_vars
             PROVE  RealInv'
  OBVIOUS
<1> USE DEF TypeOK, ConsumerTypeOK
<1>1. CASE UNCHANGED <<stage, held, shipped, confirmed>>
  BY <1>1 DEF RealInv, NothingForMissingOrders, ChecksPassed, Event
<1>2. ASSUME NEW h \in Handler, NEW m \in Msg, Receive(h, m)
      PROVE  RealInv'
  <2>1. stage' = [stage EXCEPT ![h] = "received"] /\ held' = [held EXCEPT ![h] = m]
        /\ UNCHANGED <<shipped, confirmed>>
    BY <1>2 DEF Receive, Goto, dbVars
  <2>2. QED
    BY <2>1, RealAfter
<1>3. ASSUME NEW h \in Handler,
             \/ RejectMalformed(h) \/ GiveUp(h) \/ Ack(h) \/ ReturnToQueue(h)
      PROVE  RealInv'
  <2>1. stage' = [stage EXCEPT ![h] = "free"] /\ held' = [held EXCEPT ![h] = NoMsg]
        /\ UNCHANGED <<shipped, confirmed>>
    BY <1>3 DEF RejectMalformed, GiveUp, Ack, ReturnToQueue, Finish, Goto, dbVars
  <2>2. QED
    BY <2>1, RealAfter
<1>4. ASSUME NEW h \in Handler, Mark(h)
      PROVE  RealInv'
  <2>1. CASE Event(h) \in processed
    <3>1. /\ stage' = [stage EXCEPT ![h] = "applied"]
          /\ UNCHANGED <<held, shipped, confirmed>>
      BY <1>4, <2>1 DEF Mark, Goto, dbVars
    <3>2. Event(h) \notin Orderless \union Malformed
      BY <2>1 DEF RealInv, NothingForMissingOrders, Inv, ProcessedMeansShipped
    <3>3. QED
      BY <3>1, <3>2, RealAfter DEF Event
  <2>2. CASE Event(h) \notin processed
    <3>1. /\ stage' = [stage EXCEPT ![h] = "marked"]
          /\ UNCHANGED <<held, shipped, confirmed>>
          /\ Event(h) \notin Malformed
      BY <1>4, <2>2 DEF Mark, Goto, dbVars
    <3>2. QED
      BY <3>1, RealAfter DEF Event
  <2>3. QED
    BY <2>1, <2>2
<1>5. ASSUME NEW h \in Handler, CommitShipment(h)
      PROVE  RealInv'
  <2>1. /\ stage' = [stage EXCEPT ![h] = "applied"]
        /\ shipped' = shipped \union {Event(h)}
        /\ UNCHANGED <<held, confirmed>>
        /\ Event(h) \notin Orderless \union Malformed
    BY <1>5 DEF CommitShipment, Ship, Goto, RealInv, ChecksPassed
  <2>2. QED
    BY <2>1, RealAfter DEF Event
<1>6. ASSUME NEW h \in Handler, EffectFails(h)
      PROVE  RealInv'
  <2>1. /\ stage' = [stage EXCEPT ![h] = "failed"]
        /\ UNCHANGED <<held, confirmed>>
        /\ \/ UNCHANGED shipped
           \/ /\ shipped' = shipped \union {Event(h)}
              /\ Event(h) \notin Orderless \union Malformed
    BY <1>6 DEF EffectFails, Ship, Goto, RealInv, ChecksPassed, dbVars
  <2>2. QED
    BY <2>1, RealAfter
<1>7. ASSUME NEW h \in Handler, EnqueueConfirmation(h) \/ EnqueueFails(h)
      PROVE  RealInv'
  <2>1. /\ \E s \in {"settle", "failed"} : stage' = [stage EXCEPT ![h] = s]
        /\ UNCHANGED <<held, shipped>>
        /\ confirmed' \subseteq confirmed \union {Event(h)}
        /\ Event(h) \notin Orderless \union Malformed
    BY <1>7 DEF EnqueueConfirmation, EnqueueFails, Goto, RealInv, ChecksPassed, dbVars
  <2>2. QED
    BY <2>1, RealAfter
<1>8. ASSUME NEW h \in Handler, OrderMissing(h) \/ ScheduleRetry(h)
      PROVE  RealInv'
  <2>1. /\ \E s \in {"settle", "failed"} : stage' = [stage EXCEPT ![h] = s]
        /\ UNCHANGED <<held, shipped, confirmed>>
    BY <1>8 DEF OrderMissing, ScheduleRetry, Goto, dbVars
  <2>2. QED
    BY <2>1, RealAfter
<1>9. ASSUME NEW c \in Consumers, ConsumerCrash(c)
      PROVE  RealInv'
  <2>1. /\ UNCHANGED <<held, shipped, confirmed>>
        /\ \A g \in Handler : stage'[g] \in {stage[g], "lost"}
    BY <1>9 DEF ConsumerCrash, dbVars
  <2>2. QED
    BY <2>1 DEF RealInv, NothingForMissingOrders, ChecksPassed, Event
<1>10. CASE ConsumerNext
  <2>1. CASE \/ \E m \in Msg : RetryExpires(m) /\ UNCHANGED consumerVars
             \/ \E c \in Consumers : StopConsuming(c) \/ Replaced(c)
             \/ \E e \in Events : PruneProcessed(e)
    BY <1>1, <2>1 DEF StopConsuming, Replaced, PruneProcessed, consumerVars, dbVars
  <2>2. QED
    BY <1>10, <2>1, <1>2, <1>3, <1>4, <1>5, <1>6, <1>7, <1>8, <1>9
    DEF ConsumerNext, HandlerStep
<1>11. QED
  BY <1>1, <1>10 DEF Next, consumerVars, vars

\* Nothing is shipped, and nobody is told anything, about an order that does
\* not exist or an event that cannot be read, also when the transaction that
\* found out is retried or its mark is pruned (applyOrderPlaced).
THEOREM OnlyRealOrders == Spec => []NothingForMissingOrders
<1>1. Init => RealInv
  BY DEF Init, ConsumerInit, RealInv, NothingForMissingOrders, ChecksPassed
<1>2. Spec => []RealInv
  BY <1>1, RealStep, TypeCorrect, Invariance, PTL DEF Spec
<1>3. RealInv => NothingForMissingOrders
  BY DEF RealInv
<1>4. QED
  BY <1>2, <1>3, PTL

-----------------------------------------------------------------------------
(* Nobody waits for ever: the guards of the pipeline's own steps.          *)

\* The order of e is done with: shipped and its customer told, or with an
\* operator.
DoneWith(e) == (e \in shipped /\ e \in confirmed) \/ e \in dlq

\* The guards of RelayStep(r), BackoffElapses(e), HandlerStep(h),
\* Receive(h, m), ReturnToQueue(h), RetryExpires(m) and Replaced(c).
RelayReady(r) ==
  \/ rpc[r] = "idle" /\ Oldest(Due \ LockedRows) # {}
  \/ rpc[r] \in {"publish", "bury"} /\ \E e \in Events : IsNext(r, e)
  \/ /\ rpc[r] \in {"mark", "fail", "backoff"}
     /\ SessionAlive(r) => \E e \in Events : IsNext(r, e)
  \/ rpc[r] = "publish" /\ todo[r] = {}

BackoffReady(e) == outbox[e].status = "pending" /\ ~outbox[e].due

HandlerReady(h) ==
  \/ stage[h] = "received" /\ (Event(h) \in Malformed \/ MarkIsFree(h))
  \/ stage[h] \in {"marked", "applied", "settle"}
  \/ stage[h] = "failed" /\ held[h].retry <= MaxRetries

ReceiveReady(h, m) == h[1] \in up /\ stage[h] = "free" /\ work[m] > 0

ReplaceReady(c) ==
  c \notin up /\ \A h \in Handler : h[1] = c => stage[h] \in {"free", "lost"}

\* Somebody can go on.
SomeStepReady ==
  \/ \E r \in Relays : RelayReady(r)
  \/ \E e \in Events : BackoffReady(e)
  \/ \E h \in Handler : HandlerReady(h) \/ stage[h] = "lost"
  \/ \E h \in Handler : \E m \in Msg : ReceiveReady(h, m)
  \/ \E m \in Msg : waiting[m] > 0
  \/ \E c \in Consumers : ReplaceReady(c)

\* While an order is not done with, one of them holds.
PipelineRuns == (\E e \in Events : Placed(e) /\ ~DoneWith(e)) => SomeStepReady

\* A pass that is at a row has that row in its list.
RowInHand ==
  \A r \in Relays : rpc[r] \in {"mark", "bury", "fail", "backoff"} => todo[r] # {}

\* Only an UPDATE takes a row off the list, and the pass leaves it with that.
LEMMA RowInHandStep == TypeOK /\ RowInHand /\ [Next]_vars => RowInHand'
<1> SUFFICES ASSUME TypeOK, RowInHand, [Next]_vars PROVE RowInHand'
  OBVIOUS
<1> USE DEF TypeOK, RelayTypeOK, RowInHand
<1>1. CASE UNCHANGED <<rpc, todo>>
  BY <1>1
<1>2. ASSUME NEW r \in Relays, SelectBatch(r) \/ Commit(r) \/ Abort(r) \/ RelayCrash(r)
      PROVE  RowInHand'
  <2>1. /\ \E s \in {"idle", "publish"} : rpc' = [rpc EXCEPT ![r] = s]
        /\ \A s \in Relays \ {r} : todo'[s] = todo[s]
    BY <1>2 DEF SelectBatch, Begin, Commit, Abort, RelayCrash, EndPass
  <2>2. QED
    BY <2>1
<1>3. ASSUME NEW r \in Relays, NEW e \in Events,
             \/ PublishConfirmed(r, e) \/ PublishFails(r, e)
             \/ BuryConfirmed(r, e) \/ BuryFails(r, e)
      PROVE  RowInHand'
  <2>1. todo[r] # {} /\ UNCHANGED todo /\ \A s \in Relays \ {r} : rpc'[s] = rpc[s]
    BY <1>3 DEF PublishConfirmed, PublishFails, BuryConfirmed, BuryFails, IsNext
  <2>2. QED
    BY <2>1
<1>4. ASSUME NEW r \in Relays, NEW e \in Events, UpdateRow(r, e)
      PROVE  RowInHand'
  BY <1>4 DEF UpdateRow
<1>5. QED
  BY <1>1, <1>2, <1>3, <1>4
  DEF Next, RelayNext, RelayStep, RelayFault, PlaceOrder, BackoffElapses, PruneOutbox,
      LoseSession, vars, relayVars

\* A pass under way can go on.
LEMMA BusyRelay ==
  ASSUME TypeOK, RowInHand, NEW r \in Relays, rpc[r] # "idle"
  PROVE  RelayReady(r)
<1> USE DEF TypeOK, RelayTypeOK
<1>1. CASE todo[r] = {}
  BY <1>1 DEF RelayReady, RowInHand, Phase
<1>2. CASE todo[r] # {}
  <2>1. todo[r] \in SUBSET Nat
    BY BrokerAssumption
  <2>2. PICK e \in todo[r] : \A f \in todo[r] : e <= f
    BY <1>2, <2>1, LeastNumber
  <2>3. e \in Events /\ IsNext(r, e)
    BY <2>2 DEF IsNext
  <2>4. QED
    BY <2>3 DEF RelayReady, Phase
<1>3. QED
  BY <1>1, <1>2

\* A handler with a message can go on, or waits for one that can.
LEMMA BusyHandler ==
  ASSUME TypeOK, NEW h \in Handler, stage[h] # "free"
  PROVE  SomeStepReady
<1> USE DEF TypeOK, ConsumerTypeOK
<1>1. CASE stage[h] = "received" /\ Event(h) \notin Malformed /\ ~MarkIsFree(h)
  <2>1. \E g \in Handler : HandlerReady(g)
    BY <1>1 DEF MarkIsFree, HandlerReady
  <2>2. QED
    BY <2>1 DEF SomeStepReady
<1>2. held[h].retry \in Nat /\ held[h].retry <= MaxRetries
  BY BrokerAssumption DEF Msg
<1>3. CASE ~(stage[h] = "received" /\ Event(h) \notin Malformed /\ ~MarkIsFree(h))
  <2>1. HandlerReady(h) \/ stage[h] = "lost"
    BY <1>2, <1>3 DEF HandlerReady, Stage
  <2>2. QED
    BY <2>1 DEF SomeStepReady
<1>4. QED
  BY <1>1, <1>3

\* A message that is queued can be received, or its process can go on.
LEMMA QueuedMessage ==
  ASSUME TypeOK, Consumers # {}, Slots # {}, NEW m \in Msg, work[m] > 0
  PROVE  SomeStepReady
<1>1. SUFFICES ASSUME \A h \in Handler : stage[h] = "free" PROVE SomeStepReady
  BY BusyHandler
<1>2. PICK c \in Consumers, s \in Slots : TRUE
  OBVIOUS
<1>3. <<c, s>> \in Handler /\ <<c, s>>[1] = c
  BY DEF Handler
<1>4. ReceiveReady(<<c, s>>, m) \/ ReplaceReady(c)
  BY <1>1, <1>3 DEF ReceiveReady, ReplaceReady
<1>5. QED
  BY <1>3, <1>4 DEF SomeStepReady

\* A row that is due and free is there to be selected.
LEMMA DueRow ==
  ASSUME TypeOK, NEW e \in Due \ LockedRows
  PROVE  Oldest(Due \ LockedRows) # {}
<1> DEFINE rows == Due \ LockedRows
<1>1. rows \in SUBSET Nat /\ rows # {}
  BY BrokerAssumption DEF Due
<1> HIDE DEF rows
<1>2. PICK f \in rows : \A g \in rows : f <= g
  BY <1>1, LeastNumber
<1>3. {g \in rows : g < f} = {}
  <2>1. \A g \in rows : ~(g < f)
    BY <1>1, <1>2
  <2>2. QED
    BY <2>1
<1>4. Cardinality({g \in rows : g < f}) = 0
  BY <1>3, FS_EmptySet
<1>5. f \in Oldest(rows)
  BY <1>4, RelayAssumption DEF Oldest
<1>6. QED
  BY <1>5 DEF rows

\* While a committed order is not done with, some process of the pipeline can
\* take its next step without waiting for anybody, whatever was locked, held,
\* lost or stopped before.
THEOREM PipelineGoesOn ==
  ASSUME Relays # {}, Consumers # {}, Slots # {}
  PROVE  Spec => []PipelineRuns
<1>1. Init => RowInHand
  BY DEF Init, RelayInit, RowInHand
<1>2. Spec => []RowInHand
  BY <1>1, RowInHandStep, TypeCorrect, PTL DEF Spec
<1>3. Spec => []CopiesInv
  BY CopiesStart, CopiesStep, TypeCorrect, LocksApart, PTL DEF Spec
<1>4. TypeOK /\ RowInHand /\ CopiesInv /\ NoOrderForgotten /\ ConfirmationOwed => PipelineRuns
  <2> SUFFICES ASSUME TypeOK, RowInHand, CopiesInv, NoOrderForgotten, ConfirmationOwed,
                      NEW e \in Events, Placed(e), ~DoneWith(e)
               PROVE  SomeStepReady
    BY DEF PipelineRuns
  <2>1. CASE outbox[e].status = "pending" /\ ~outbox[e].due
    BY <2>1 DEF SomeStepReady, BackoffReady
  <2>2. CASE outbox[e].status = "pending" /\ outbox[e].due
    <3>1. CASE \E r \in Relays : rpc[r] # "idle"
      BY <3>1, BusyRelay DEF SomeStepReady
    <3>2. CASE \A r \in Relays : rpc[r] = "idle"
      <4>1. PICK r \in Relays : rpc[r] = "idle"
        BY <3>2
      <4>2. e \in Due \ LockedRows
        BY <2>2, <3>2 DEF CopiesInv, PassesHold, Due, LockedRows
      <4>3. RelayReady(r)
        BY <4>1, <4>2, DueRow DEF RelayReady
      <4>4. QED
        BY <4>3 DEF SomeStepReady
    <3>3. QED
      BY <3>1, <3>2
  <2>3. CASE outbox[e].status # "pending"
    <3>1. InTransit(e)
      BY <2>3 DEF NoOrderForgotten, ConfirmationOwed, DoneWith, Placed
    <3>2. CASE \E h \in Handler : stage[h] # "free"
      BY <3>2, BusyHandler
    <3>3. CASE \A h \in Handler : stage[h] = "free"
      <4>1. PICK m \in Msg : work[m] > 0 \/ waiting[m] > 0
        BY <3>1, <3>3 DEF InTransit
      <4>2. CASE waiting[m] > 0
        BY <4>2 DEF SomeStepReady
      <4>3. QED
        BY <4>1, <4>2, QueuedMessage
    <3>4. QED
      BY <3>2, <3>3
  <2>4. QED
    BY <2>1, <2>2, <2>3
<1>5. QED
  BY <1>2, <1>3, <1>4, TypeCorrect, NothingForgotten, ConfirmationNeverDropped, PTL

-----------------------------------------------------------------------------
(* The checkout and the pipeline together.                                 *)

\* The part of a step of the whole that is the pipeline's is a step of it.
LEMMA PipelinePart ==
  ASSUME Requests = Events, [BackendNext]_backendVars
  PROVE  [Next]_vars
<1>1. ASSUME NEW q \in Requests, InsertOutboxRow(q)
      PROVE  [Next]_vars
  BY <1>1 DEF InsertOutboxRow, Next, RelayNext
<1>2. QED
  BY <1>1 DEF BackendNext, backendVars, Pipeline

\* And the part that is the checkout's, one of the checkout.
LEMMA CheckoutPart ==
  ASSUME [BackendNext]_backendVars
  PROVE  [CheckoutNext]_checkoutVars
BY DEF BackendNext, backendVars, Pipeline, CheckoutNext

\* Put together the parts do what each does on its own, so that all that is
\* proved of either holds of the whole (checkout.ts, relay.ts, consumer.ts).
THEOREM PartsOfTheWhole ==
  ASSUME Requests = Events
  PROVE  BackendSpec => CheckoutSpec /\ Spec
<1>1. BackendInit => CheckoutInit /\ Init
  BY DEF BackendInit
<1>2. [BackendNext]_backendVars => [Next]_vars
  BY PipelinePart
<1>3. [BackendNext]_backendVars => [CheckoutNext]_checkoutVars
  BY CheckoutPart
<1>4. QED
  BY <1>1, <1>2, <1>3, PTL DEF BackendSpec, CheckoutSpec, Spec

\* So the whole implements both abstract specifications: POST /orders is atomic
\* to its callers, and the pipeline keeps its promise (OrderBook, OrderFulfillment).
THEOREM WholeKeepsBoth ==
  ASSUME Requests = Events
  PROVE  BackendSpec => ImplementsOrderBook /\ ImplementsPromise
BY PartsOfTheWhole, CheckoutIsAtomic, PromiseKept, PTL

\* The outbox has a row, or had one, for the committed orders and no others.
RowPerOrder == orders = {e \in Events : Placed(e)}

\* An answer is about the request's own order until it is replayed.
OwnAnswer ==
  \A q \in Requests :
    /\ pc[q] \in Open \union {"created"} => original[q] = q
    /\ pc[q] = "created" => q \in orders

\* What a statement of a request does to the orders and to its own answer.
LEMMA RequestEffect ==
  ASSUME CheckoutTypeOK, NEW q \in Requests, Step(q) \/ Lose(q)
  PROVE  /\ orders \subseteq orders' /\ orders' \subseteq orders \union {q}
         /\ \A o \in Requests \ {q} : pc'[o] = pc[o] /\ original'[o] = original[o]
         /\ pc[q] \in Open
         /\ pc'[q] \in Open \union {"created"} => original'[q] = original[q]
         /\ pc'[q] = "created" => q \in orders'
<1> USE DEF CheckoutTypeOK, MoveTo, End, tables, Open, Committed
<1>1. CASE Claim(q)
  BY <1>1 DEF Claim
<1>2. CASE Lookup(q)
  BY <1>2 DEF Lookup
<1>3. ASSUME NEW p \in Products, Reserve(q, p) \/ ReserveRefused(q, p)
      PROVE  /\ orders' = orders
             /\ UNCHANGED original
             /\ pc[q] \in Open
             /\ \A o \in Requests \ {q} : pc'[o] = pc[o]
             /\ pc'[q] # "created"
  BY <1>3 DEF Reserve, ReserveRefused
<1>4. CASE Charge(q) \/ ChargeRefused(q)
  BY <1>4 DEF Charge, ChargeRefused
<1>5. CASE CommitOrder(q)
  BY <1>5 DEF CommitOrder
<1>6. CASE Lose(q)
  BY <1>6 DEF Lose
<1>7. QED
  BY <1>1, <1>2, <1>3, <1>4, <1>5, <1>6 DEF Step

\* The row comes with the order (checkout.ts inserts both in one transaction).
LEMMA RowStep ==
  ASSUME Requests = Events, TypeOK, CheckoutTypeOK, RowPerOrder, [BackendNext]_backendVars
  PROVE  RowPerOrder'
<1>1. ASSUME NEW q \in Requests, Step(q) \/ Lose(q), InsertOutboxRow(q)
      PROVE  RowPerOrder'
  <2>1. CASE q \in orders' \ orders
    <3>1. orders' = orders \union {q}
      BY <1>1, <2>1, RequestEffect
    <3>2. PlaceOrder(q)
      BY <1>1, <2>1 DEF InsertOutboxRow
    <3>3. \A e \in Events : Placed(e)' <=> Placed(e) \/ e = q
      BY <3>2 DEF PlaceOrder, Placed, NewRow, TypeOK, RelayTypeOK
    <3>4. QED
      BY <3>1, <3>3 DEF RowPerOrder
  <2>2. CASE q \notin orders' \ orders
    <3>1. orders' = orders
      BY <1>1, <2>2, RequestEffect
    <3>2. UNCHANGED outbox
      BY <1>1, <2>2 DEF InsertOutboxRow, vars, relayVars
    <3>3. QED
      BY <3>1, <3>2 DEF RowPerOrder, Placed
  <2>3. QED
    BY <2>1, <2>2
<1>2. ASSUME NEW k \in Keys, PruneKey(k), UNCHANGED vars
      PROVE  RowPerOrder'
  BY <1>2 DEF PruneKey, RowPerOrder, Placed, vars, relayVars
<1>3. CASE Pipeline
  BY <1>3 DEF Pipeline, RowPerOrder, checkoutVars, tables
<1>4. CASE UNCHANGED backendVars
  BY <1>4 DEF backendVars, RowPerOrder, Placed, vars, relayVars, checkoutVars, tables
<1>5. QED
  BY <1>1, <1>2, <1>3, <1>4 DEF BackendNext

\* So do the answers.
LEMMA AnswerStep ==
  ASSUME CheckoutTypeOK, OwnAnswer, [CheckoutNext]_checkoutVars
  PROVE  OwnAnswer'
<1>1. ASSUME NEW q \in Requests, Step(q) \/ Lose(q)
      PROVE  OwnAnswer'
  <2>1. /\ orders \subseteq orders'
        /\ \A o \in Requests \ {q} : pc'[o] = pc[o] /\ original'[o] = original[o]
        /\ pc[q] \in Open
        /\ pc'[q] \in Open \union {"created"} => original'[q] = original[q]
        /\ pc'[q] = "created" => q \in orders'
    BY <1>1, RequestEffect
  <2>2. QED
    BY <2>1 DEF OwnAnswer
<1>2. ASSUME NEW k \in Keys, PruneKey(k)
      PROVE  OwnAnswer'
  BY <1>2 DEF PruneKey, OwnAnswer
<1>3. CASE UNCHANGED checkoutVars
  BY <1>3 DEF checkoutVars, tables, OwnAnswer
<1>4. QED
  BY <1>1, <1>2, <1>3 DEF CheckoutNext

\* An outbox row for every order and for nothing else, whatever fails
\* (the transactional outbox; entities/outbox-event.entity.ts).
THEOREM RowsMatchOrders ==
  ASSUME Requests = Events
  PROVE  BackendSpec => []RowPerOrder
<1>1. BackendInit => RowPerOrder
  BY DEF BackendInit, CheckoutInit, Init, RelayInit, NoDraft, NoRow, RowPerOrder, Placed
<1>2. TypeOK /\ CheckoutTypeOK /\ RowPerOrder /\ [BackendNext]_backendVars => RowPerOrder'
  BY RowStep
<1>3. QED
  BY <1>1, <1>2, PartsOfTheWhole, TypeCorrect, NothingOverdrawn, PTL DEF BackendSpec

\* A customer with a 201 has an order somebody answers for: no crash, lost
\* answer, lost confirm or pruning between the request and the shipment drops it.
THEOREM AnswersAreKept ==
  ASSUME Requests = Events
  PROVE  BackendSpec => []AnsweredIsCarried
<1>1. CheckoutInit => OwnAnswer
  BY DEF CheckoutInit, OwnAnswer, Open
<1>2. CheckoutTypeOK /\ OwnAnswer /\ [CheckoutNext]_checkoutVars => OwnAnswer'
  BY AnswerStep
<1>3. CheckoutSpec => []OwnAnswer
  BY <1>1, <1>2, NothingOverdrawn, PTL DEF CheckoutSpec
<1>4. /\ RowPerOrder /\ OwnAnswer /\ ReplayIsOriginal /\ NoOrderForgotten
      => AnsweredIsCarried
  <2> SUFFICES ASSUME RowPerOrder, OwnAnswer, ReplayIsOriginal, NoOrderForgotten,
                      NEW q \in Requests, pc[q] \in {"created", "replayed"}
               PROVE  LET e == original[q] IN
                      \/ outbox[e].status = "pending"
                      \/ InTransit(e)
                      \/ e \in shipped
                      \/ e \in dlq
    BY DEF AnsweredIsCarried
  <2>1. original[q] \in orders
    BY DEF OwnAnswer, ReplayIsOriginal
  <2>2. original[q] \in Events /\ outbox[original[q]].status # "none"
    BY <2>1 DEF RowPerOrder, Placed
  <2>3. QED
    BY <2>2 DEF NoOrderForgotten
<1>5. QED
  BY <1>3, <1>4, PartsOfTheWhole, RowsMatchOrders, ReplaysAreOriginal, NothingForgotten, PTL

-----------------------------------------------------------------------------
(* What is shipped.                                                        *)

\* The promise alone says that only placed orders are shipped.
LEMMA OnlyPlacedShip == Promise!Spec => [](shipped \subseteq {e \in Events : Placed(e)})
<1> DEFINE P == {e \in Events : Placed(e)}
<1>1. Promise!Init => shipped \subseteq P
  BY DEF Promise!Init
<1>2. shipped \subseteq P /\ [Promise!Next]_(Promise!vars) => (shipped \subseteq P)'
  BY DEF Promise!Next, Promise!Place, Promise!Ship, Promise!PutAside, Promise!vars
<1>3. QED
  BY <1>1, <1>2, PTL DEF Promise!Spec

\* The confirmation follows the shipment (consumer.ts runs afterEffect last).
LEMMA ToldOfShipped == Spec => [](confirmed \subseteq shipped)
<1>1. Init => confirmed \subseteq shipped
  BY DEF Init, ConsumerInit
<1>2. Inv /\ confirmed \subseteq shipped /\ [Next]_vars => (confirmed \subseteq shipped)'
  <2> SUFFICES ASSUME Inv, confirmed \subseteq shipped, [Next]_vars
               PROVE  confirmed' \subseteq shipped'
    OBVIOUS
  <2>1. ASSUME NEW h \in Handler, EnqueueConfirmation(h) \/ EnqueueFails(h)
        PROVE  confirmed' \subseteq shipped'
    <3>1. /\ stage[h] = "applied"
          /\ confirmed' \subseteq confirmed \union {Event(h)}
          /\ shipped' = shipped
      BY <2>1 DEF EnqueueConfirmation, EnqueueFails, dbVars
    <3>2. QED
      BY <3>1 DEF Inv, AppliedMeansShipped
  <2>2. ASSUME UNCHANGED confirmed, shipped \subseteq shipped'
        PROVE  confirmed' \subseteq shipped'
    BY <2>2
  <2>3. CASE RelayNext /\ UNCHANGED consumerVars
    BY <2>2, <2>3 DEF consumerVars
  <2>4. CASE UNCHANGED vars
    BY <2>2, <2>4 DEF vars, consumerVars
  <2>5. ASSUME NEW h \in Handler,
               \/ \E m \in Msg : Receive(h, m)
               \/ RejectMalformed(h) \/ Mark(h) \/ OrderMissing(h) \/ ScheduleRetry(h)
               \/ GiveUp(h) \/ Ack(h) \/ ReturnToQueue(h)
        PROVE  UNCHANGED <<confirmed, shipped>>
    BY <2>5 DEF Receive, RejectMalformed, Mark, OrderMissing, ScheduleRetry, GiveUp, Ack,
                ReturnToQueue, dbVars
  <2>6. ASSUME NEW h \in Handler, CommitShipment(h) \/ EffectFails(h)
        PROVE  UNCHANGED confirmed /\ shipped \subseteq shipped'
    BY <2>6 DEF CommitShipment, EffectFails, Ship, dbVars
  <2>7. ASSUME \/ \E m \in Msg : RetryExpires(m) /\ UNCHANGED consumerVars
               \/ \E c \in Consumers : ConsumerCrash(c) \/ StopConsuming(c) \/ Replaced(c)
               \/ \E e \in Events : PruneProcessed(e)
        PROVE  UNCHANGED <<confirmed, shipped>>
    BY <2>7 DEF ConsumerCrash, StopConsuming, Replaced, PruneProcessed, dbVars, consumerVars
  <2>8. QED
    BY <2>1, <2>2, <2>3, <2>4, <2>5, <2>6, <2>7 DEF Next, ConsumerNext, HandlerStep
<1>3. QED
  BY <1>1, <1>2, Invariance, PTL DEF Spec

\* A part of the orders takes no more of a product than all of them.
LEMMA PartTakesLess ==
  ASSUME NEW p \in Catalog, NEW S \in SUBSET Requests, NEW T \in SUBSET S
  PROVE  /\ UnitsOf(p, S) \in Int /\ UnitsOf(p, T) \in Int
         /\ UnitsOf(p, T) <= UnitsOf(p, S)
<1> DEFINE G == {U \in SUBSET (S \ T) : UnitsOf(p, T) <= UnitsOf(p, T \union U)}
<1>1. {} \in G
  <2>1. T \union {} = T /\ UnitsOf(p, T) \in Int
    BY UnitsFacts
  <2>2. QED
    BY <2>1
<1>2. ASSUME NEW U \in SUBSET (S \ T), NEW x \in (S \ T) \ U, U \in G
      PROVE  U \union {x} \in G
  <2>1. T \union (U \union {x}) = (T \union U) \union {x}
    OBVIOUS
  <2>2. UnitsOf(p, (T \union U) \union {x}) = Units(x, p) + UnitsOf(p, T \union U)
    BY UnitsFacts
  <2>3. Units(x, p) \in Nat
    BY RequestFacts, ShopAssumption
  <2>4. UnitsOf(p, T) \in Int /\ UnitsOf(p, T \union U) \in Int
    BY UnitsFacts
  <2>5. UnitsOf(p, T) <= UnitsOf(p, T \union U)
    BY <1>2
  <2>6. UnitsOf(p, T) <= UnitsOf(p, T \union (U \union {x}))
    BY <2>1, <2>2, <2>3, <2>4, <2>5
  <2>7. QED
    BY <2>6
<1>3. IsFiniteSet(S \ T)
  BY ShopAssumption, FS_Subset
<1> HIDE DEF G
<1>4. S \ T \in G
  <2>1. \A U \in SUBSET (S \ T) : U \in G
    BY <1>1, <1>2, <1>3, AllParts
  <2>2. QED
    BY <2>1
<1>5. T \union (S \ T) = S
  OBVIOUS
<1>6. UnitsOf(p, T) <= UnitsOf(p, S)
  BY <1>4, <1>5 DEF G
<1>7. QED
  BY <1>6, UnitsFacts

\* What is shipped was sold, once for each key that was not pruned, and paid
\* for with stock: the guarantees of the checkout reach the warehouse.
THEOREM SoldAndShipped ==
  ASSUME Requests = Events
  PROVE  BackendSpec => []ShippedAsSold
<1>1. ASSUME RowPerOrder, CheckoutTypeOK, OneOrderPerKey, BooksBalance,
             confirmed \subseteq shipped, shipped \subseteq {e \in Events : Placed(e)}
      PROVE  ShippedAsSold
  <2>1. shipped \subseteq orders /\ orders \in SUBSET Requests
    BY <1>1 DEF RowPerOrder, CheckoutTypeOK
  <2>2. ASSUME NEW k \in Keys
        PROVE  Cardinality({o \in shipped : KeyOf[o] = k}) <= 1 + pruned[k]
    <3> DEFINE O == {o \in orders : KeyOf[o] = k}
               T == {o \in shipped : KeyOf[o] = k}
    <3>1. T \subseteq O /\ O \subseteq Requests
      BY <2>1
    <3>2. IsFiniteSet(O)
      BY <3>1, ShopAssumption, FS_Subset
    <3>3. /\ Cardinality(T) <= Cardinality(O)
          /\ Cardinality(T) \in Nat /\ Cardinality(O) \in Nat
      BY <3>1, <3>2, FS_Subset, FS_CardinalityType
    <3>4. Cardinality(O) <= 1 + pruned[k] /\ pruned[k] \in Nat
      BY <1>1 DEF OneOrderPerKey, CheckoutTypeOK
    <3> HIDE DEF O, T
    <3>5. Cardinality(T) <= 1 + pruned[k]
      BY <3>3, <3>4
    <3>6. QED
      BY <3>5 DEF T
  <2>3. ASSUME NEW p \in Catalog
        PROVE  ShippedUnits(p) + stock[p] <= InitialStock[p]
    <3>1. stock[p] = InitialStock[p] - UnitsOf(p, orders)
      BY <1>1 DEF BooksBalance, UnitsOf
    <3>2. ShippedUnits(p) = UnitsOf(p, shipped)
      BY DEF ShippedUnits, UnitsOf
    <3>3. /\ UnitsOf(p, shipped) <= UnitsOf(p, orders)
          /\ UnitsOf(p, shipped) \in Int /\ UnitsOf(p, orders) \in Int
      BY <2>1, PartTakesLess
    <3>4. InitialStock[p] \in Int
      BY ShopAssumption
    <3>5. QED
      BY <3>1, <3>2, <3>3, <3>4
  <2>4. QED
    BY <1>1, <2>1, <2>2, <2>3 DEF ShippedAsSold
<1>2. Spec => [](shipped \subseteq {e \in Events : Placed(e)})
  BY PromiseKept, OnlyPlacedShip, PTL DEF ImplementsPromise
<1>3. QED
  BY <1>1, <1>2, PartsOfTheWhole, RowsMatchOrders, NothingOverdrawn, OneOrder,
     BooksAreBalanced, ToldOfShipped, PTL
=============================================================================
