----------------------------- MODULE OrderStream -----------------------------
(***************************************************************************)
(* GET /orders/{id}/events: OrderEventsService.stream behind the SSE       *)
(* handler of orders/orders.controller.ts and OrderOwnerGuard.  A stream   *)
(* subscribes to its process's Subject, then reads the history after       *)
(* Last-Event-ID, then replays it and what came meanwhile, then goes live. *)
(***************************************************************************)
EXTENDS OrderChanges, SequencesExt

CONSTANTS
  OwnerOf,     \* OwnerOf[o]: orders.user_id
  Admins,      \* users with the role admin
  Nobody,      \* who a missing or refused token stands for
  Watchers,    \* EventSource clients
  WatchOf,     \* WatchOf[w]: the order it watches
  UserOf,      \* UserOf[c]: whose token client c (a watcher or a socket) sends
  MaxConnects  \* bound: connections of one client

VARIABLES
  conn,      \* conn[w]: state of the open stream
  at,        \* at[w]: the process that serves it
  after,     \* after[w]: Last-Event-ID it was opened with
  last,      \* last[w]: id of the last event delivered
  pending,   \* pending[w]: events heard before the replay
  rows,      \* rows[w]: the highest seq the history query saw
  wire,      \* wire[w]: written to the response, not yet with the client
  shown,     \* shown[w]: all the client ever received
  connects,
  bus,       \* auxiliary: the changes published, in order
  since      \* auxiliary: since[w]: Len(bus) when the stream subscribed

streamVars == <<conn, at, after, last, pending, rows, wire, shown, connects, bus, since>>

-----------------------------------------------------------------------------

\* OrderOwnerGuard: 401, 404 and 403 before the stream or room is opened.
Allowed(c, o) ==
  /\ UserOf[c] # Nobody
  /\ o \in Orders
  /\ UserOf[c] \in Admins \/ OwnerOf[o] = UserOf[c]

\* at[w] of a closed stream; no process has this number.
NoPod == 0

StreamInit ==
  /\ conn = [w \in Watchers |-> "closed"]
  /\ at = [w \in Watchers |-> NoPod]
  /\ after = [w \in Watchers |-> 0]
  /\ last = after
  /\ pending = [w \in Watchers |-> << >>]
  /\ rows = after
  /\ wire = pending
  /\ shown = pending
  /\ connects = after
  /\ bus = << >>
  /\ since = after

\* Bug: every event is written, heard twice or not.
DeliverAlways(acc, id) == [last |-> id, out |-> Append(acc.out, id)]

\* deliver: what is not above the last id is a duplicate.
Deliver(acc, id) ==
  IF id > acc.last THEN [last |-> id, out |-> Append(acc.out, id)] ELSE acc

\* One event after the other: d[n] is where the first n leave the stream.
Delivered(w, ids) ==
  LET d[n \in 0..Len(ids)] ==
        IF n = 0 THEN [last |-> last[w], out |-> wire[w]] ELSE Deliver(d[n - 1], ids[n])
  IN  d[Len(ids)]

LastEventId(w) == IF shown[w] = << >> THEN 0 ELSE Last(shown[w])

\* The client (re)connects, to any process, with the last id it has.
Connect(w, p) ==
  /\ conn[w] = "closed"
  /\ connects[w] < MaxConnects
  /\ Allowed(w, WatchOf[w])
  /\ conn' = [conn EXCEPT ![w] = "subscribed"]
  /\ at' = [at EXCEPT ![w] = p]
  /\ after' = [after EXCEPT ![w] = LastEventId(w)]
  /\ last' = [last EXCEPT ![w] = LastEventId(w)]
  /\ since' = [since EXCEPT ![w] = Len(bus)]
  /\ connects' = [connects EXCEPT ![w] = @ + 1]
  /\ UNCHANGED <<pending, rows, wire, shown, bus>>

\* missed(): the SELECT runs.
ReadHistory(w) ==
  /\ conn[w] = "subscribed"
  /\ conn' = [conn EXCEPT ![w] = "read"]
  /\ rows' = [rows EXCEPT ![w] = Len(log[WatchOf[w]])]
  /\ UNCHANGED <<at, after, last, pending, wire, shown, connects, bus, since>>

\* Its rows come back: they are delivered, then what was heard meanwhile.
Replay(w) ==
  LET history == [i \in 1..(rows[w] - after[w]) |-> after[w] + i]
      d == Delivered(w, history \o pending[w]) IN
  /\ conn[w] = "read"
  /\ conn' = [conn EXCEPT ![w] = "live"]
  /\ last' = [last EXCEPT ![w] = d.last]
  /\ wire' = [wire EXCEPT ![w] = d.out]
  /\ pending' = [pending EXCEPT ![w] = << >>]
  /\ UNCHANGED <<at, after, rows, shown, connects, bus, since>>

\* Bug: what comes before the replay is left to the history query.
NeverHeldBack(w) == FALSE

\* The subscriptions of the publishing process: a live stream delivers, one
\* that has not replayed yet keeps the event.
HeldBack(w) == conn[w] \in {"subscribed", "read"}

Hear(x) ==
  LET hearing == {w \in Watchers : at[w] = pod[x] /\ WatchOf[w] = OrderOf[x]}
      d == [w \in Watchers |->
              IF w \in hearing /\ conn[w] = "live"
              THEN Delivered(w, <<seqOf[x]>>)
              ELSE [last |-> last[w], out |-> wire[w]]] IN
  /\ pending' = [w \in Watchers |->
                   IF w \in hearing /\ HeldBack(w)
                   THEN Append(pending[w], seqOf[x]) ELSE pending[w]]
  /\ last' = [w \in Watchers |-> d[w].last]
  /\ wire' = [w \in Watchers |-> d[w].out]
  /\ bus' = Append(bus, x)
  /\ UNCHANGED <<conn, at, after, rows, shown, connects, since>>

Arrive(w) ==
  /\ wire[w] # << >>
  /\ shown' = [shown EXCEPT ![w] = Append(@, Head(wire[w]))]
  /\ wire' = [wire EXCEPT ![w] = Tail(@)]
  /\ UNCHANGED <<conn, at, after, last, pending, rows, connects, bus, since>>

\* res.on('close'): the subscription ends, its variables are gone, and what
\* is on the wire is lost.
Close(W) ==
  LET Reset(f, v) == [w \in Watchers |-> IF w \in W THEN v ELSE f[w]] IN
  /\ conn' = Reset(conn, "closed")
  /\ at' = Reset(at, NoPod)
  /\ after' = Reset(after, 0)
  /\ last' = Reset(last, 0)
  /\ rows' = Reset(rows, 0)
  /\ pending' = Reset(pending, << >>)
  /\ wire' = Reset(wire, << >>)
  /\ since' = Reset(since, 0)
  /\ UNCHANGED <<shown, connects, bus>>

Disconnect(w) == conn[w] # "closed" /\ Close({w})

StreamNext ==
  \E w \in Watchers :
    \/ \E p \in Pods : Connect(w, p)
    \/ ReadHistory(w) \/ Replay(w) \/ Arrive(w) \/ Disconnect(w)

-----------------------------------------------------------------------------

OnItsWay(w) == Range(shown[w]) \union Range(wire[w])

\* The positions of the bus at which the open stream of w heard event n.
HeardAt(w, n) ==
  {i \in since[w] + 1 .. Len(bus) :
     pod[bus[i]] = at[w] /\ OrderOf[bus[i]] = WatchOf[w] /\ seqOf[bus[i]] = n}

\* What the open stream owes its client: all the history query saw, and what
\* was published since, unless a later event of the order was published first.
Owed(w, n) ==
  \/ n <= rows[w]
  \/ \E i \in HeardAt(w, n) :
       ~\E m \in n + 1 .. Len(log[WatchOf[w]]) : \E j \in HeardAt(w, m) : j < i

\* A client never gets an event twice or after a later one, over all its
\* connections: replay, what was heard before it, live events and
\* Last-Event-ID (order-events.service.ts:69-84, orders.controller.ts:74).
InOrderOnce ==
  \A w \in Watchers : \A i \in 2..Len(shown[w]) : shown[w][i - 1] < shown[w][i]

\* Between the history and the live events nothing falls through: a live
\* stream has passed on all it owes (subscribe before the read, keep what
\* comes meanwhile: order-events.service.ts:75-84).
NothingBetween ==
  \A w \in Watchers :
    conn[w] = "live" =>
      \A n \in after[w] + 1 .. Len(log[WatchOf[w]]) : Owed(w, n) => n \in OnItsWay(w)

\* README.md:887-888: a reconnect to any instance replays what was missed.
\* So a stream that has replayed leaves its client with every event up to
\* the last one the history query saw.
MissedIsReplayed ==
  \A w \in Watchers : conn[w] = "live" => 1..rows[w] \subseteq OnItsWay(w)

\* A stream that stays open shows its client the newest event it owes.
StreamCatchesUp ==
  \A w \in Watchers :
    []<>(\/ conn[w] = "closed"
         \/ conn[w] = "live" /\ \A n \in 1..Len(log[WatchOf[w]]) :
                                  Owed(w, n) => n <= LastEventId(w))
=============================================================================
