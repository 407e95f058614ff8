------------------------------ MODULE Realtime ------------------------------
(***************************************************************************)
(* Status changes, SSE streams and socket rooms together.  Subject.next    *)
(* calls its subscribers synchronously: publishing is one step of all      *)
(* three.                                                                  *)
(***************************************************************************)
EXTENDS OrderRooms

vars == <<changeVars, streamVars, roomVars>>

Init == ChangesInit /\ StreamInit /\ RoomsInit

\* A change moves on inside the database.
Write(x) ==
  /\ Lock(x) \/ Refuse(x) \/ Commit(x) \/ CommitUnheard(x) \/ Fail(x)
  /\ UNCHANGED <<streamVars, roomVars>>

Announce(x) == Publish(x) /\ Hear(x) /\ Emit(x)

\* A process dies with its streams and sockets.
Down(p) ==
  /\ Crash(p)
  /\ Close({w \in Watchers : at[w] = p})
  /\ Drop({s \in Sockets : p \in socketAt[s]})

\* The history query fails.  subscriber.error has no handler on the other
\* side, so RxJS throws it outside any request and the process dies of it.
HistoryFails(w) == conn[w] = "subscribed" /\ Down(at[w])

Next ==
  \/ \E x \in Changes : Write(x) \/ Announce(x)
  \/ StreamNext /\ UNCHANGED <<changeVars, roomVars>>
  \/ RoomsNext /\ UNCHANGED <<changeVars, streamVars>>
  \/ \E p \in Pods : Down(p)
  \/ \E w \in Watchers : HistoryFails(w)

Spec == Init /\ [][Next]_vars

Streams(A) == A /\ UNCHANGED <<changeVars, roomVars>>

\* Statements return, committed changes are published and open connections
\* carry what is written; clients need not come back.
FairSpec ==
  /\ Spec
  /\ \A x \in Changes : WF_vars(Announce(x))
  /\ \A w \in Watchers :
       /\ WF_vars(Streams(ReadHistory(w)))
       /\ WF_vars(Streams(Replay(w)))
       /\ WF_vars(Streams(Arrive(w)))

-----------------------------------------------------------------------------

\* Behind connections, queries, replays, reconnects and crashes there is the
\* feed of a history: committed events only, each once, in order
\* (order-events.service.ts:44-89, orders.controller.ts:74).
Feed == INSTANCE OrderFeed WITH
  Events <- OrderEvent, Readers <- Watchers, history <- log, feed <- shown

ImplementsFeed == Feed!Spec

\* How the constants fit together.
ASSUME RealtimeAssumption ==
  /\ OwnerOf \in [Orders -> Admins \union (Range(UserOf) \union Range(OwnerOf))]
  /\ NoPod \notin Pods
  /\ Watchers \cap Sockets = {}
  /\ DOMAIN UserOf = Watchers \union Sockets
  /\ \A w \in Watchers : WatchOf[w] \in Orders
=============================================================================
