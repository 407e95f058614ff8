-------------------------- MODULE OrderFulfillment --------------------------
(***************************************************************************)
(* What the event pipeline promises, with nothing said about outboxes,     *)
(* relays, queues, retries or crashes: a placed order is shipped once or   *)
(* its event is put aside for an operator, and nothing else is ever        *)
(* shipped or put aside (README.md, "exactly-once result").                *)
(***************************************************************************)
CONSTANT Events

VARIABLES
  placed,   \* events of committed orders
  shipped,  \* events whose order has a shipment
  aside     \* events an operator finds in the dead-letter queue

vars == <<placed, shipped, aside>>

Init == placed = {} /\ shipped = {} /\ aside = {}

Place(e) ==
  /\ e \notin placed
  /\ placed' = placed \union {e}
  /\ UNCHANGED <<shipped, aside>>

Ship(e) ==
  /\ e \in placed \ shipped
  /\ shipped' = shipped \union {e}
  /\ UNCHANGED <<placed, aside>>

\* A lost confirm may put an event aside that is shipped as well.
PutAside(e) ==
  /\ e \in placed \ aside
  /\ aside' = aside \union {e}
  /\ UNCHANGED <<placed, shipped>>

Next == \E e \in Events : Place(e) \/ Ship(e) \/ PutAside(e)

Spec == Init /\ [][Next]_vars
=============================================================================
