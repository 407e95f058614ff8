----------------------------- MODULE OrderRooms -----------------------------
(***************************************************************************)
(* The socket.io gateway (orders/orders.gateway.ts): a socket joins the    *)
(* rooms of orders its token's user may see, and hears what its process    *)
(* publishes into them.                                                    *)
(***************************************************************************)
EXTENDS OrderStream

CONSTANTS
  Sockets,   \* socket.io clients
  JoinIds    \* order ids they ask for

VARIABLES
  socketAt,  \* socketAt[s]: the processes (at most one) s is connected to
  rooms,     \* rooms[s]: orders whose room s is in
  told       \* told[s]: the changes s was told of

roomVars == <<socketAt, rooms, told>>

RoomsInit ==
  /\ socketAt = [s \in Sockets |-> {}]
  /\ rooms = [s \in Sockets |-> {}]
  /\ told = [s \in Sockets |-> {}]

Open(s, p) ==
  /\ socketAt[s] = {}
  /\ socketAt' = [socketAt EXCEPT ![s] = {p}]
  /\ UNCHANGED <<rooms, told>>

\* 'join'.  A refusal ('exception') changes nothing.
Join(s, o) ==
  /\ socketAt[s] # {}
  /\ Allowed(s, o)
  /\ rooms' = [rooms EXCEPT ![s] = @ \union {o}]
  /\ UNCHANGED <<socketAt, told>>

\* Bug: server.emit instead of server.to(room).emit.
Connected(s, x) == pod[x] \in socketAt[s]

InRoom(s, x) == pod[x] \in socketAt[s] /\ OrderOf[x] \in rooms[s]

\* server.to(orderRoom(event.orderId)).emit
Emit(x) ==
  /\ told' = [s \in Sockets |-> IF InRoom(s, x) THEN told[s] \union {x} ELSE told[s]]
  /\ UNCHANGED <<socketAt, rooms>>

\* A socket that goes away leaves all its rooms.
Drop(S) ==
  /\ socketAt' = [s \in Sockets |-> IF s \in S THEN {} ELSE socketAt[s]]
  /\ rooms' = [s \in Sockets |-> IF s \in S THEN {} ELSE rooms[s]]
  /\ UNCHANGED told

Leave(s) == socketAt[s] # {} /\ Drop({s})

RoomsNext ==
  \E s \in Sockets :
    \/ \E p \in Pods : Open(s, p)
    \/ \E o \in JoinIds : Join(s, o)
    \/ Leave(s)

-----------------------------------------------------------------------------

\* Status events reach only clients whose user owns the order or is an admin,
\* on both transports.
OnlyOwnersHear ==
  LET Sees(c, o) == UserOf[c] \in Admins \union {OwnerOf[o]} IN
  /\ \A s \in Sockets : \A x \in told[s] : Sees(s, OrderOf[x])
  /\ \A w \in Watchers : shown[w] # << >> => Sees(w, WatchOf[w])
=============================================================================
