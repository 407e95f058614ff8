------------------------------ MODULE Publisher ------------------------------
(***************************************************************************)
(* EventPublisher (events/publisher.ts) in one process: its connection to  *)
(* the broker and the confirm channel on it, opened by connect() at the    *)
(* start and by any later send() that finds none.  The relay's pass sends  *)
(* one message after the other; connect() may still be under way when it   *)
(* begins.  this.connection and this.channel are always set and dropped    *)
(* together: both are "held" here.                                         *)
(***************************************************************************)
EXTENDS Integers, FiniteSets

CONSTANTS
  Connections,  \* numbers for connections, used again when one is gone
  MaxBreaks     \* bound: what goes wrong at the broker

ASSUME PublisherAssumption == Connections \subseteq Nat \ {0}

VARIABLES
  broker,   \* whether it takes connections
  conn,     \* conn[k]: "none", "dialing" or "live"
  chans,    \* live connections whose channel is open
  held,     \* this.connection with this.channel
  opening,  \* the connection this.opening waits for
  caller,   \* caller[x]: where the call of connect() or of the pass is
  last,     \* how the pass's last publish or deadLetter ended
  stopped,  \* the process has closed the publisher, or failed to start
  breaks

publisherVars == <<broker, conn, chans, held, opening, caller, last, stopped, breaks>>

-----------------------------------------------------------------------------

None == 0
Callers == {"connect", "pass"}

\* connect() has called open().
PublisherInit ==
  \E k \in Connections :
    /\ broker \in {"up", "down"}
    /\ conn = [c \in Connections |-> IF c = k THEN "dialing" ELSE "none"]
    /\ chans = {}
    /\ held = None
    /\ opening = k
    /\ caller = [connect |-> "opening", pass |-> "ready"]
    /\ last = "none"
    /\ stopped = FALSE
    /\ breaks = 0

\* Bug: every caller opens a connection.
OpensNew == TRUE

\* this.opening ??= ...
OpensAnother == opening = None

open ==
  IF OpensAnother
    THEN \E k \in Connections :
           /\ conn[k] = "none"
           /\ conn' = [conn EXCEPT ![k] = "dialing"]
           /\ opening' = k
    ELSE UNCHANGED <<conn, opening>>

\* send: on the channel it has, or after open().  publish on a channel that
\* is closed throws at once.
Send ==
  /\ ~stopped
  /\ caller.pass = "ready"
  /\ IF held = None
       THEN /\ open
            /\ caller' = [caller EXCEPT !.pass = "opening"]
            /\ UNCHANGED last
       ELSE /\ IF held \in chans
                 THEN caller' = [caller EXCEPT !.pass = "confirming"] /\ UNCHANGED last
                 ELSE last' = "failed" /\ UNCHANGED caller
            /\ UNCHANGED <<conn, opening>>
  /\ UNCHANGED <<broker, chans, held, stopped, breaks>>

\* waitForConfirms
Confirmed ==
  /\ caller.pass = "confirming"
  /\ held \in chans
  /\ caller' = [caller EXCEPT !.pass = "ready"]
  /\ last' = "confirmed"
  /\ UNCHANGED <<broker, conn, chans, held, opening, stopped, breaks>>

\* connectAndCheck: the connection, and a confirm channel on it
Dialed ==
  /\ opening # None
  /\ conn[opening] = "dialing"
  /\ broker = "up"
  /\ conn' = [conn EXCEPT ![opening] = "live"]
  /\ chans' = chans \union {opening}
  /\ UNCHANGED <<broker, held, opening, caller, last, stopped, breaks>>

\* ... the exchange is there.  Whoever awaited open() goes on.
Checked ==
  /\ opening \in chans
  /\ held' = opening
  /\ opening' = None
  /\ caller' = [x \in Callers |->
                  IF caller[x] # "opening" THEN caller[x]
                  ELSE IF x = "pass" THEN "confirming" ELSE "done"]
  /\ UNCHANGED <<broker, conn, chans, last, stopped, breaks>>

\* Connections C end.  Who waits for them fails; a process whose connect()
\* fails does not start.
Ends(C) ==
  LET died == opening \in C /\ caller.connect = "opening"
      waits == \/ opening \in C /\ caller.pass = "opening"
               \/ held \in C /\ caller.pass = "confirming" IN
  /\ conn' = [k \in Connections |-> IF k \in C \/ died THEN "none" ELSE conn[k]]
  /\ opening' = IF opening \in C THEN None ELSE opening
  /\ caller' = [connect |-> IF died THEN "done" ELSE caller.connect,
                pass |-> IF waits THEN "ready" ELSE caller.pass]
  /\ last' = IF waits THEN "failed" ELSE last
  /\ stopped' = (stopped \/ died)

\* Bug: no handler for the connection's 'close'.
HeldForEver(C) == held

HeldAfter(C) == IF held \in C THEN None ELSE held

Lose(C) ==
  /\ Ends(C)
  /\ chans' = chans \ C
  /\ held' = HeldAfter(C)

\* amqp.connect rejects.
Refused ==
  /\ opening # None
  /\ conn[opening] = "dialing"
  /\ broker = "down"
  /\ Lose({opening})
  /\ UNCHANGED <<broker, breaks>>

Break == breaks < MaxBreaks /\ breaks' = breaks + 1

ConnectionLost(k) ==
  /\ conn[k] # "none"
  /\ Break
  /\ Lose({k})
  /\ UNCHANGED broker

BrokerDown ==
  /\ broker = "up"
  /\ Break
  /\ broker' = "down"
  /\ Lose({k \in Connections : conn[k] = "live"})

BrokerUp ==
  /\ broker = "down"
  /\ broker' = "up"
  /\ UNCHANGED <<conn, chans, held, opening, caller, last, stopped, breaks>>

\* The broker closes the channel and leaves the connection (the exchange is
\* not there).  In the check the code closes the connection itself; after it
\* only the error is logged.
ChannelClosed(k) ==
  /\ k \in chans
  /\ Break
  /\ IF k = opening
       THEN Lose({k})
       ELSE /\ chans' = chans \ {k}
            /\ caller' = [caller EXCEPT !.pass = IF @ = "confirming" THEN "ready" ELSE @]
            /\ last' = IF caller.pass = "confirming" THEN "failed" ELSE last
            /\ UNCHANGED <<conn, held, opening, stopped>>
  /\ UNCHANGED broker

\* relay.ts: the relay has stopped, then close().
Close ==
  /\ ~stopped
  /\ caller.pass = "ready" /\ caller.connect = "done"
  /\ stopped' = TRUE
  /\ conn' = [k \in Connections |-> IF k = held THEN "none" ELSE conn[k]]
  /\ chans' = chans \ {held}
  /\ held' = None
  /\ UNCHANGED <<broker, opening, caller, last, breaks>>

PublisherStep == Send \/ Dialed \/ Checked \/ Confirmed \/ Refused

PublisherNext ==
  \/ PublisherStep
  \/ \E k \in Connections : ConnectionLost(k) \/ ChannelClosed(k)
  \/ BrokerDown \/ BrokerUp \/ Close

-----------------------------------------------------------------------------

PublisherTypeOK ==
  /\ broker \in {"up", "down"}
  /\ conn \in [Connections -> {"none", "dialing", "live"}]
  /\ chans \subseteq Connections
  /\ {held, opening} \subseteq Connections \union {None}
  /\ caller \in [Callers -> {"ready", "opening", "confirming", "done"}]
  /\ last \in {"none", "confirmed", "failed"}
  /\ stopped \in BOOLEAN
  /\ breaks \in Nat

\* A process has one connection at most, and none that it does not know of:
\* not when a pass begins while connect() is under way, not after a failed
\* check, and none at all once it has closed (publisher.ts:61-102).
OneKnownConnection ==
  /\ {k \in Connections : conn[k] # "none"} = {held, opening} \ {None}
  /\ held = None \/ opening = None
  /\ stopped => held = None /\ opening = None

\* this.channel is closed and its connection is not: no event resets it.
StaleChannel == held # None /\ conn[held] = "live" /\ held \notin chans

\* See PublisherRecovers in Workers.
PublishesAgain ==
  []<>(stopped \/ broker = "down" \/ StaleChannel \/ last = "confirmed")
=============================================================================
