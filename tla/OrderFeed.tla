------------------------------ MODULE OrderFeed ------------------------------
(***************************************************************************)
(* GET /orders/{id}/events as a reader may think of it: an order has one   *)
(* history that only grows, and the reader is shown events of it, each     *)
(* once it is recorded and after those shown before.  No connections,      *)
(* processes, queries or replays here.  A reader may miss events (see      *)
(* NothingBetween of OrderStream for which); it is never misled.           *)
(***************************************************************************)
EXTENDS Integers, Sequences

CONSTANTS
  Orders,
  Events,    \* what a row of order_events can hold
  Readers,
  WatchOf    \* WatchOf[r]: the order reader r follows

VARIABLES
  history,   \* history[o]: the events of order o
  feed       \* feed[r]: the positions in its order's history r was shown

vars == <<history, feed>>

Init ==
  /\ history = [o \in Orders |-> << >>]
  /\ feed = [r \in Readers |-> << >>]

\* The status of o changes.
Record(o) ==
  /\ \E e \in Events : history' = [history EXCEPT ![o] = Append(@, e)]
  /\ UNCHANGED feed

\* 0, or the last event that r was shown.
Position(r) == IF feed[r] = << >> THEN 0 ELSE feed[r][Len(feed[r])]

\* r is shown an event it has not passed yet.
Show(r) ==
  /\ \E n \in Position(r) + 1 .. Len(history[WatchOf[r]]) :
       feed' = [feed EXCEPT ![r] = Append(@, n)]
  /\ UNCHANGED history

Next == (\E o \in Orders : Record(o)) \/ (\E r \in Readers : Show(r))

Spec == Init /\ [][Next]_vars
=============================================================================
