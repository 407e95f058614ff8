--------------------------- MODULE RealtimeProofs ---------------------------
(***************************************************************************)
(* What holds of status changes and of who hears them, for every number of *)
(* processes, orders, changes, clients and crashes.                        *)
(***************************************************************************)
EXTENDS Realtime, Induction, SequenceTheorems

-----------------------------------------------------------------------------
(* Status changes.                                                         *)

\* A change that holds the lock has read the status that is still there, and
\* no other holds it (SELECT ... FOR UPDATE in changeStatus).
LocksFresh ==
  \A x \in Changes :
    step[x] = "locked" =>
      /\ OrderOf[x] \in Orders
      /\ seen[x] = status[OrderOf[x]]
      /\ \A y \in Changes : step[y] = "locked" /\ OrderOf[y] = OrderOf[x] => y = x

ChangesInv == ChangesTypeOK /\ LocksFresh /\ StatusFollowsEvents

LEMMA ChangesStart == ChangesInit => ChangesInv
<1> SUFFICES ASSUME ChangesInit PROVE ChangesInv
  OBVIOUS
<1>1. ChangesTypeOK
  <2>1. pod \in [Changes -> Pods]
    BY ChangesAssumption DEF ChangesInit
  <2>2. << >> \in Seq(OrderEvent)
    OBVIOUS
  <2>3. QED
    BY <2>1, <2>2 DEF ChangesInit, ChangesTypeOK, OrderStatus, Step
<1>2. LocksFresh
  BY DEF ChangesInit, LocksFresh
<1>3. StatusFollowsEvents
  BY DEF ChangesInit, StatusFollowsEvents
<1>4. QED
  BY <1>1, <1>2, <1>3 DEF ChangesInv

\* The one step that writes: the event continues the history and the status
\* is the event's (OrderEventsService.record).
LEMMA CommitKeeps ==
  ASSUME ChangesInv, NEW x \in Changes, Records(x),
         Goto(x, "committed") \/ Goto(x, "lost"), crashes' \in Nat
  PROVE  ChangesInv'
<1> DEFINE o == OrderOf[x]
           e == [status |-> NextOf[x], previous |-> seen[x]]
<1> USE DEF ChangesInv, ChangesTypeOK
<1>1. /\ o \in Orders
      /\ seen[x] = status[o]
      /\ \A y \in Changes : step[y] = "locked" /\ OrderOf[y] = o => y = x
  BY DEF Records, LocksFresh
<1>2. /\ NextOf[x] \in OrderStatus
      /\ e \in OrderEvent
  BY ChangesAssumption DEF OrderEvent
<1>3. /\ log[o] \in Seq(OrderEvent)
      /\ log' = [log EXCEPT ![o] = Append(log[o], e)]
      /\ log'[o] = Append(log[o], e)
      /\ \A p \in Orders : p # o => log'[p] = log[p]
  BY <1>1 DEF Records
<1>4. /\ Len(log'[o]) = Len(log[o]) + 1
      /\ log'[o][Len(log[o]) + 1] = e
      /\ \A i \in 1..Len(log[o]) : log'[o][i] = log[o][i]
      /\ Len(log[o]) \in Nat
  BY <1>2, <1>3
<1>5. ChangesTypeOK'
  <2>1. Append(log[o], e) \in Seq(OrderEvent)
    BY <1>2, <1>3
  <2>2. log' \in [Orders -> Seq(OrderEvent)]
    BY <1>1, <1>3, <2>1
  <2>3. seqOf' \in [Changes -> Nat]
    BY <1>4 DEF Records
  <2>4. QED
    BY <1>2, <2>2, <2>3 DEF Records, Goto, Step
<1>6. LocksFresh'
  BY <1>1 DEF Records, Goto, LocksFresh
<1>7. StatusFollowsEvents'
  <2> SUFFICES ASSUME NEW p \in Orders
               PROVE  StatusFollowsEvents!(p)'
    BY DEF StatusFollowsEvents
  <2>1. CASE p # o
    BY <1>3, <2>1 DEF Records, StatusFollowsEvents
  <2>2. CASE p = o
    <3>1. status'[o] = NextOf[x]
      BY <1>1 DEF Records
    <3>2. canTransition(seen[x], NextOf[x])
      BY DEF Records
    <3>3. seen[x] = IF Len(log[o]) = 0 THEN "paid" ELSE log[o][Len(log[o])].status
      BY <1>1 DEF StatusFollowsEvents
    <3>4. ASSUME NEW i \in 1..Len(log'[o])
          PROVE  /\ log'[o][i].previous = IF i = 1 THEN "paid" ELSE log'[o][i - 1].status
                 /\ canTransition(log'[o][i].previous, log'[o][i].status)
      <4> DEFINE n == Len(log[o])
      <4>0. n \in Nat /\ (i \in 1..n \/ i = n + 1)
        BY <1>4
      <4>1. CASE i \in 1..n
        <5>1. log'[o][i] = log[o][i] /\ (i # 1 => log'[o][i - 1] = log[o][i - 1])
          BY <1>4, <4>0, <4>1
        <5>2. /\ log[o][i].previous = IF i = 1 THEN "paid" ELSE log[o][i - 1].status
              /\ canTransition(log[o][i].previous, log[o][i].status)
          BY <1>1, <4>1 DEF StatusFollowsEvents
        <5>3. QED
          BY <5>1, <5>2
      <4>2. CASE i = n + 1
        <5>1. log'[o][i] = e
          BY <1>4, <4>2
        <5>2. /\ i = 1 <=> n = 0
              /\ n # 0 => i - 1 = n /\ n \in 1..n
          <6> HIDE DEF n
          <6>1. QED
            BY <4>0, <4>2
        <5>3. n # 0 => log'[o][i - 1] = log[o][n]
          BY <1>4, <5>2
        <5>4. e.previous = seen[x] /\ e.status = NextOf[x]
          OBVIOUS
        <5>5. QED
          BY <3>2, <3>3, <5>1, <5>2, <5>3, <5>4
      <4>3. QED
        BY <4>0, <4>1, <4>2
    <3>5. LET n == Len(log'[o]) IN n # 0 /\ log'[o][n].status = NextOf[x]
      BY <1>4
    <3>6. QED
      BY <2>2, <3>1, <3>4, <3>5
  <2>3. QED
    BY <2>1, <2>2
<1>8. QED
  BY <1>5, <1>6, <1>7

LEMMA ChangesStep == ChangesInv /\ [Next]_vars => ChangesInv'
<1> SUFFICES ASSUME ChangesInv, [Next]_vars PROVE ChangesInv'
  OBVIOUS
<1> USE DEF ChangesInv, ChangesTypeOK
<1>1. CASE UNCHANGED changeVars
  BY <1>1 DEF changeVars, LocksFresh, StatusFollowsEvents
<1>2. ASSUME NEW x \in Changes, Lock(x) PROVE ChangesInv'
  <2>1. OrderOf[x] \in Orders /\ LockFree(OrderOf[x])
    BY <1>2 DEF Lock
  <2>2. ChangesTypeOK'
    BY <1>2, <2>1 DEF Lock, Goto, Step
  <2>3. LocksFresh'
    BY <1>2, <2>1 DEF Lock, Goto, LockFree, LocksFresh
  <2>4. StatusFollowsEvents'
    BY <1>2 DEF Lock, StatusFollowsEvents
  <2>5. QED
    BY <2>2, <2>3, <2>4
<1>3. ASSUME NEW x \in Changes, Refuse(x) \/ Publish(x) \/ Fail(x) PROVE ChangesInv'
  <2>1. /\ UNCHANGED <<status, log, seen, pod, seqOf>>
        /\ crashes' \in Nat
        /\ \E s \in Step \ {"locked"} : Goto(x, s)
    BY <1>3 DEF Refuse, Publish, Fail, Step
  <2>2. LocksFresh'
    BY <2>1 DEF Goto, LocksFresh
  <2>3. StatusFollowsEvents'
    BY <2>1 DEF StatusFollowsEvents
  <2>4. ChangesTypeOK'
    BY <2>1 DEF Goto
  <2>5. QED
    BY <2>2, <2>3, <2>4
<1>4. ASSUME NEW x \in Changes, Commit(x) \/ CommitUnheard(x) PROVE ChangesInv'
  BY <1>4, CommitKeeps DEF Commit, CommitUnheard
<1>5. ASSUME NEW p, Down(p) PROVE ChangesInv'
  BY <1>5 DEF Down, Crash, Step, LocksFresh, StatusFollowsEvents
<1>6. QED
  BY <1>1, <1>2, <1>3, <1>4, <1>5
     DEF Next, Write, Announce, HistoryFails, vars

\* The events of an order are its history, whoever changes it at the same
\* time and whatever crashes (changeStatus, record).
THEOREM HistoryIsComplete == Spec => []StatusFollowsEvents
<1>1. Init => ChangesInv
  BY ChangesStart DEF Init
<1>2. ChangesInv => StatusFollowsEvents
  BY DEF ChangesInv
<1>3. QED
  BY <1>1, <1>2, ChangesStep, PTL DEF Spec

-----------------------------------------------------------------------------
(* Who hears what.                                                         *)

\* A stream is open, and a socket in a room, only for a client whose user may
\* see the order (OrderOwnerGuard).
GuardsHold ==
  /\ \A s \in Sockets : \A o \in rooms[s] : Allowed(s, o)
  /\ \A s \in Sockets : \A x \in told[s] : Allowed(s, OrderOf[x])
  /\ \A w \in Watchers :
       conn[w] # "closed" \/ shown[w] # << >> \/ wire[w] # << >> => Allowed(w, WatchOf[w])

ClientsTypeOK ==
  /\ DOMAIN conn = Watchers
  /\ DOMAIN wire = Watchers
  /\ DOMAIN shown = Watchers
  /\ DOMAIN rooms = Sockets
  /\ DOMAIN told = Sockets

ClientsInv == ClientsTypeOK /\ GuardsHold

LEMMA ClientsStart == Init => ClientsInv
  BY DEF Init, StreamInit, RoomsInit, ClientsInv, ClientsTypeOK, GuardsHold

\* What streams do changes nothing in the rooms; what is written to a client
\* is written to an open stream.
LEMMA StreamsKeep ==
  ASSUME ClientsInv, UNCHANGED roomVars,
         StreamNext \/ \E W : Close(W)
  PROVE  ClientsInv'
<1> USE DEF ClientsInv, ClientsTypeOK, GuardsHold, roomVars, Allowed
<1>1. ASSUME NEW w \in Watchers, NEW p, Connect(w, p) PROVE ClientsInv'
  BY <1>1 DEF Connect
<1>2. ASSUME NEW w \in Watchers, ReadHistory(w) PROVE ClientsInv'
  BY <1>2 DEF ReadHistory
<1>3. ASSUME NEW w \in Watchers, Replay(w) PROVE ClientsInv'
  BY <1>3 DEF Replay
<1>4. ASSUME NEW w \in Watchers, Arrive(w) PROVE ClientsInv'
  BY <1>4 DEF Arrive
<1>5. ASSUME NEW W, Close(W) PROVE ClientsInv'
  BY <1>5 DEF Close
<1>6. QED
  BY <1>1, <1>2, <1>3, <1>4, <1>5 DEF StreamNext, Disconnect

LEMMA ClientsStep == ClientsInv /\ [Next]_vars => ClientsInv'
<1> SUFFICES ASSUME ClientsInv, [Next]_vars PROVE ClientsInv'
  OBVIOUS
<1> USE DEF ClientsInv, ClientsTypeOK
<1>1. CASE UNCHANGED <<streamVars, roomVars>>
  BY <1>1 DEF streamVars, roomVars, GuardsHold, Allowed
<1>2. ASSUME NEW x \in Changes, Announce(x) PROVE ClientsInv'
  <2>a. UNCHANGED <<conn, shown, rooms>>
    BY <1>2 DEF Announce, Hear, Emit
  <2>b. DOMAIN wire' = Watchers
    BY <1>2 DEF Announce, Hear
  <2>c. DOMAIN told' = Sockets
    BY <1>2 DEF Announce, Emit
  <2>d. /\ DOMAIN conn' = Watchers
        /\ DOMAIN shown' = Watchers
        /\ DOMAIN rooms' = Sockets
    <3>1. ClientsTypeOK
      OBVIOUS
    <3>2. conn' = conn /\ shown' = shown /\ rooms' = rooms
      BY <2>a
    <3>3. QED
      BY <3>1, <3>2, Zenon
  <2>1. ClientsTypeOK'
    BY <2>b, <2>c, <2>d, Zenon
  <2>2. \A s \in Sockets : \A y \in told'[s] : y \in told[s] \/ (InRoom(s, x) /\ y = x)
    BY <1>2 DEF Announce, Emit
  <2>3. \A w \in Watchers : wire'[w] # wire[w] => conn[w] = "live"
    BY <1>2 DEF Announce, Hear
  <2>5. GuardsHold'
    BY <2>2, <2>3, <2>a DEF GuardsHold, InRoom, Allowed
  <2>6. QED
    BY <2>1, <2>5
<1>3. CASE StreamNext /\ UNCHANGED <<changeVars, roomVars>>
  BY <1>3, StreamsKeep
<1>4. ASSUME NEW s \in Sockets, NEW p, Open(s, p) \/ Leave(s), UNCHANGED streamVars
      PROVE  ClientsInv'
  BY <1>4 DEF Open, Leave, Drop, streamVars, GuardsHold, Allowed
<1>5. ASSUME NEW s \in Sockets, NEW o, Join(s, o), UNCHANGED streamVars PROVE ClientsInv'
  BY <1>5 DEF Join, streamVars, GuardsHold, Allowed
<1>6. ASSUME NEW p, Down(p) PROVE ClientsInv'
  <2>1. PICK W, S : Close(W) /\ Drop(S)
    BY <1>6 DEF Down
  <2>2. QED
    BY <2>1 DEF Close, Drop, GuardsHold, Allowed
<1>7. QED
  BY <1>1, <1>2, <1>3, <1>4, <1>5, <1>6
     DEF Next, Write, HistoryFails, RoomsNext, vars

\* Status events reach only the owner of the order and admins, on both
\* transports, whatever clients ask for, drop and ask for again.
THEOREM OthersHearNothing == Spec => []OnlyOwnersHear
<1>1. ClientsInv => OnlyOwnersHear
  BY DEF ClientsInv, GuardsHold, OnlyOwnersHear, Allowed
<1>2. QED
  BY <1>1, ClientsStart, ClientsStep, PTL DEF Spec
-----------------------------------------------------------------------------
(* One event after the other: what Delivered returns.                      *)

Has(s, n) == \E i \in 1..Len(s) : s[i] = n

Stream == [last : Nat, out : Seq(Nat)]

\* Where the first n of ids, written where new, leave a stream that was at base.
Follows(acc, base, ids, n) ==
  /\ acc \in Stream
  /\ base.last <= acc.last
  /\ \/ acc.last = base.last
     \/ Has(acc.out, acc.last) /\ \E k \in 1..n : ids[k] = acc.last
  /\ Len(base.out) <= Len(acc.out)
  /\ \A i \in 1..Len(base.out) : acc.out[i] = base.out[i]
  /\ \A i \in Len(base.out) + 1 .. Len(acc.out) :
       /\ base.last < acc.out[i] /\ acc.out[i] <= acc.last
       /\ \A j \in Len(base.out) + 1 .. Len(acc.out) : i < j => acc.out[i] < acc.out[j]
  /\ \A k \in 1..n :
       /\ ids[k] <= acc.last
       /\ ids[k] > base.last /\ (\A h \in 1..(k - 1) : ids[h] <= ids[k])
            => Has(acc.out, ids[k])

LEMMA DeliverOne ==
  ASSUME NEW base \in Stream, NEW ids \in Seq(Nat), NEW m \in Nat, m + 1 <= Len(ids),
         NEW acc, Follows(acc, base, ids, m)
  PROVE  Follows(Deliver(acc, ids[m + 1]), base, ids, m + 1)
<1> DEFINE id == ids[m + 1]
<1>1. /\ id \in Nat
      /\ acc \in Stream /\ acc.last \in Nat /\ acc.out \in Seq(Nat)
      /\ base.last \in Nat /\ base.out \in Seq(Nat)
      /\ Len(acc.out) \in Nat /\ Len(base.out) \in Nat
  BY DEF Follows, Stream
<1>2. \A k \in 1..(m + 1) : (k \in 1..m \/ k = m + 1) /\ ids[k] \in Nat
  BY LenProperties
<1>3. CASE id > acc.last
  <2> DEFINE new == [last |-> id, out |-> Append(acc.out, id)]
             l == Len(acc.out)
             b == Len(base.out)
  <2>1. Deliver(acc, id) = new
    BY <1>3 DEF Deliver
  <2>2. new \in Stream
    BY <1>1 DEF Stream
  <2>3. /\ new.last = id
        /\ Len(new.out) = l + 1
        /\ \A i \in 1..l : new.out[i] = acc.out[i]
        /\ new.out[l + 1] = id
    BY <1>1
  <2>4. /\ l \in Nat /\ b \in Nat /\ b <= l
        /\ id \in Nat /\ acc.last \in Nat /\ base.last \in Nat
        /\ base.last <= acc.last /\ acc.last < id
        /\ base.last < id
        /\ \A i \in 1..l : acc.out[i] \in Nat
    <3>1. b <= l /\ base.last <= acc.last
      BY DEF Follows
    <3>2. \A i \in 1..l : acc.out[i] \in Nat
      BY <1>1, ElementOfSeq
    <3> HIDE DEF id
    <3>3. acc.last < id /\ base.last < id
      BY <1>1, <1>3, <3>1
    <3>4. QED
      BY <1>1, <3>1, <3>2, <3>3
  <2>5. /\ \A i \in 1..b : acc.out[i] = base.out[i]
        /\ \A i \in b + 1 .. l :
             /\ base.last < acc.out[i] /\ acc.out[i] <= acc.last
             /\ \A j \in b + 1 .. l : i < j => acc.out[i] < acc.out[j]
    BY DEF Follows
  <2>6. \A n \in Nat : Has(acc.out, n) => Has(new.out, n)
    <3> HIDE DEF new
    <3>1. \A i \in 1..l : i \in 1..(l + 1)
      BY <2>4
    <3>2. QED
      BY <2>3, <3>1 DEF Has
  <2> HIDE DEF new, id, l, b
  <2>7. Has(new.out, id)
    <3>1. l + 1 \in 1..(l + 1)
      BY <2>4
    <3>2. QED
      BY <2>3, <3>1 DEF Has
  <2>8. base.last <= new.last /\ b <= Len(new.out)
    BY <2>3, <2>4
  <2>9. \A i \in 1..b : new.out[i] = base.out[i]
    BY <2>3, <2>4, <2>5
  <2>10. \E k \in 1..(m + 1) : ids[k] = new.last
    BY <2>3 DEF id
  <2>11. \A i \in b + 1 .. l + 1 : (i \in b + 1 .. l /\ i \in 1..l) \/ i = l + 1
    BY <2>4
  <2>12. ASSUME NEW i \in b + 1 .. l + 1
         PROVE  /\ base.last < new.out[i] /\ new.out[i] <= new.last
                /\ \A j \in b + 1 .. l + 1 : i < j => new.out[i] < new.out[j]
    <3>1. CASE i = l + 1
      <4>1. ~\E j \in b + 1 .. l + 1 : i < j
        BY <2>4, <3>1
      <4>2. new.out[i] = id /\ new.last = id
        BY <2>3, <3>1
      <4>3. QED
        BY <2>4, <4>1, <4>2
    <3>2. CASE i \in b + 1 .. l /\ i \in 1..l
      <4>1. /\ new.out[i] = acc.out[i] /\ acc.out[i] \in Nat
            /\ base.last < acc.out[i] /\ acc.out[i] <= acc.last
        BY <2>3, <2>4, <2>5, <3>2
      <4>2. ASSUME NEW j \in b + 1 .. l + 1, i < j PROVE acc.out[i] < new.out[j]
        <5>1. CASE j = l + 1
          <6>1. new.out[j] = id
            BY <2>3, <5>1
          <6>2. QED
            BY <2>4, <4>1, <6>1
        <5>2. CASE j \in b + 1 .. l /\ j \in 1..l
          <6>1. acc.out[i] < acc.out[j]
            BY <2>5, <3>2, <4>2, <5>2
          <6>2. QED
            BY <2>3, <5>2, <6>1
        <5>3. QED
          BY <2>11, <5>1, <5>2
      <4>3. base.last < new.out[i] /\ new.out[i] <= new.last
        BY <2>3, <2>4, <4>1
      <4>4. QED
        BY <4>1, <4>2, <4>3
    <3>3. QED
      BY <2>11, <3>1, <3>2
  <2>13. ASSUME NEW k \in 1..(m + 1)
         PROVE  /\ ids[k] <= new.last
                /\ ids[k] > base.last /\ (\A h \in 1..(k - 1) : ids[h] <= ids[k])
                     => Has(new.out, ids[k])
    <3>1. CASE k \in 1..m
      <4>1. /\ ids[k] <= acc.last
            /\ ids[k] > base.last /\ (\A h \in 1..(k - 1) : ids[h] <= ids[k])
                 => Has(acc.out, ids[k])
        BY <3>1 DEF Follows
      <4>2. ids[k] <= new.last
        <5>1. ids[k] \in Nat /\ new.last = id
          BY <1>2, <2>3
        <5>2. QED
          BY <2>4, <4>1, <5>1
      <4>3. QED
        BY <1>2, <2>6, <4>1, <4>2
    <3>2. CASE k = m + 1
      <4>1. ids[k] = id
        BY <3>2 DEF id
      <4>2. QED
        BY <2>3, <2>4, <2>7, <4>1
    <3>3. QED
      BY <1>2, <3>1, <3>2
  <2>14. Follows(new, base, ids, m + 1)
    BY <2>2, <2>3, <2>7, <2>8, <2>9, <2>10, <2>12, <2>13 DEF Follows, b
  <2>15. QED
    BY <2>1, <2>14 DEF id
<1>4. CASE ~(id > acc.last)
  <2>1. Deliver(acc, id) = acc
    BY <1>4 DEF Deliver
  <2> HIDE DEF id
  <2>2. id <= acc.last
    BY <1>1, <1>4
  <2>3. ASSUME NEW k \in 1..(m + 1)
        PROVE  /\ ids[k] <= acc.last
               /\ ids[k] > base.last /\ (\A h \in 1..(k - 1) : ids[h] <= ids[k])
                    => Has(acc.out, ids[k])
    <3>1. CASE k \in 1..m
      BY <3>1 DEF Follows
    <3>2. CASE k = m + 1
      <4>1. ids[k] = id
        BY <3>2 DEF id
      <4>2. SUFFICES ASSUME ids[k] > base.last, \A h \in 1..(k - 1) : ids[h] <= ids[k]
                     PROVE  Has(acc.out, ids[k])
        BY <2>2, <4>1
      <4>3. acc.last # base.last
        BY <1>1, <2>2, <4>1, <4>2
      <4>4. PICK h \in 1..m : ids[h] = acc.last /\ Has(acc.out, acc.last)
        BY <4>3 DEF Follows
      <4>5. acc.last <= id
        BY <3>2, <4>1, <4>2, <4>4
      <4>6. QED
        BY <1>1, <2>2, <4>1, <4>4, <4>5
    <3>3. QED
      BY <1>2, <3>1, <3>2
  <2>4. \/ acc.last = base.last
        \/ Has(acc.out, acc.last) /\ \E k \in 1..(m + 1) : ids[k] = acc.last
    BY <1>2 DEF Follows
  <2>5. Follows(acc, base, ids, m + 1)
    BY <2>3, <2>4 DEF Follows
  <2>6. QED
    BY <2>1, <2>5 DEF id
<1>5. QED
  BY <1>3, <1>4

LEMMA DeliveredFollows ==
  ASSUME NEW w, last[w] \in Nat, wire[w] \in Seq(Nat), NEW ids \in Seq(Nat)
  PROVE  Follows(Delivered(w, ids), [last |-> last[w], out |-> wire[w]], ids, Len(ids))
<1> DEFINE base == [last |-> last[w], out |-> wire[w]]
           n == Len(ids)
           Rec(f) == f = [i \in 0..n |-> IF i = 0 THEN base ELSE Deliver(f[i - 1], ids[i])]
           it == CHOOSE f : Rec(f)
           one == [x \in Stream \X (1..n) |-> Deliver(x[1], ids[x[2]])]
<1>1. Delivered(w, ids) = it[n]
  BY DEF Delivered
<1>2. n \in Nat /\ base \in Stream /\ base.last = last[w] /\ base.out = wire[w]
  BY LenProperties DEF Stream
<1>3. \A d \in Stream : \A i \in 1..n :
        one[<<d, i>>] = Deliver(d, ids[i]) /\ one[<<d, i>>] \in Stream
  <2> SUFFICES ASSUME NEW d \in Stream, NEW i \in 1..n
               PROVE  one[<<d, i>>] = Deliver(d, ids[i]) /\ Deliver(d, ids[i]) \in Stream
    OBVIOUS
  <2>1. ids[i] \in Nat
    BY LenProperties
  <2>2. d.out \in Seq(Nat) /\ Append(d.out, ids[i]) \in Seq(Nat)
    BY <2>1 DEF Stream
  <2>3. Deliver(d, ids[i]) \in Stream
    BY <2>1, <2>2 DEF Deliver, Stream
  <2>4. QED
    BY <2>3
<1> HIDE DEF base, n, one
<1>4. Rec(it)
  <2>1. PICK f : Iterates(f, n, Stream, base, one)
    BY <1>2, <1>3, Iterate
  <2> DEFINE k == [i \in 0..n |-> f[i]]
  <2>2. /\ \A i \in 0..n : f[i] \in Stream
        /\ f[0] = base
        /\ \A i \in 1..n : f[i] = one[<<f[i - 1], i>>]
    BY <2>1 DEF Iterates
  <2>3. ASSUME NEW i \in 1..n PROVE i - 1 \in 0..n /\ f[i] = Deliver(f[i - 1], ids[i])
    <3>1. i - 1 \in 0..n
      BY <1>2
    <3>2. QED
      BY <1>3, <2>2, <3>1
  <2>4. \A i \in 0..n : i = 0 \/ i \in 1..n
    BY <1>2
  <2>5. Rec(k)
    BY <2>2, <2>3, <2>4
  <2> HIDE DEF k, Rec
  <2>6. QED
    BY <2>5
<1> HIDE DEF it
<1> DEFINE G == {i \in 0..n : Follows(it[i], base, ids, i)}
<1>5. 0 \in G
  <2>1. 0 \in 0..n /\ it[0] = base
    BY <1>2, <1>4
  <2>2. base.last \in Nat /\ Len(base.out) \in Nat
    BY <1>2
  <2>3. Follows(base, base, ids, 0)
    BY <1>2, <2>2 DEF Follows
  <2>4. QED
    BY <2>1, <2>3
<1>6. ASSUME NEW i \in 0..(n - 1), i \in G PROVE i + 1 \in G
  <2>1. i + 1 \in 0..n /\ i + 1 # 0 /\ i + 1 - 1 = i /\ i \in Nat /\ i + 1 <= n
    BY <1>2
  <2>2. it[i + 1] = Deliver(it[i], ids[i + 1])
    <3>1. \A j \in 0..n : j # 0 => it[j] = Deliver(it[j - 1], ids[j])
      BY <1>4
    <3>2. it[i + 1] = Deliver(it[i + 1 - 1], ids[i + 1])
      BY <2>1, <3>1
    <3>3. QED
      BY <2>1, <3>2
  <2>3. Follows(it[i + 1], base, ids, i + 1)
    BY <1>2, <1>6, <2>1, <2>2, DeliverOne DEF n
  <2>4. QED
    BY <2>1, <2>3
<1> HIDE DEF G
<1>7. n \in G
  <2>1. \A i \in 0..n : i \in G
    BY <1>2, <1>5, <1>6, UpTo
  <2>2. QED
    BY <1>2, <2>1
<1>8. QED
  BY <1>1, <1>7 DEF G, base, n

-----------------------------------------------------------------------------
(* What streams pass on.                                                   *)

Increasing(s) == \A i, j \in 1..Len(s) : i < j => s[i] < s[j]

AllUpTo(s, n) == \A i \in 1..Len(s) : s[i] <= n

\* Where on the bus the open stream of w heard something, and the seq it heard.
Heard(w) ==
  {i \in since[w] + 1 .. Len(bus) : pod[bus[i]] = at[w] /\ OrderOf[bus[i]] = WatchOf[w]}

Says(i) == seqOf[bus[i]]

StreamsTypeOK ==
  /\ conn \in [Watchers -> {"closed", "subscribed", "read", "live"}]
  /\ at \in [Watchers -> Pods \union {NoPod}]
  /\ after \in [Watchers -> Nat]
  /\ last \in [Watchers -> Nat]
  /\ rows \in [Watchers -> Nat]
  /\ since \in [Watchers -> Nat]
  /\ pending \in [Watchers -> Seq(Nat)]
  /\ wire \in [Watchers -> Seq(Nat)]
  /\ shown \in [Watchers -> Seq(Nat)]
  /\ bus \in Seq(Changes)

\* The bus carries events of the history; a stream listens from where it was.
BusHolds ==
  /\ \A x \in Changes : step[x] \in {"committed", "published"} =>
       OrderOf[x] \in Orders /\ seqOf[x] \in 1..Len(log[OrderOf[x]])
  /\ \A i \in 1..Len(bus) : step[bus[i]] = "published"
  /\ \A w \in Watchers : since[w] <= Len(bus)

\* What is on the wire continues what the client has, and last is the last of
\* it; a stream that holds events back has written nothing.
InOrder(w) ==
  /\ Increasing(shown[w])
  /\ Increasing(wire[w])
  /\ \A i \in 1..Len(shown[w]) : \A j \in 1..Len(wire[w]) : shown[w][i] < wire[w][j]
  /\ conn[w] # "closed" => AllUpTo(shown[w], last[w]) /\ AllUpTo(wire[w], last[w])
  /\ conn[w] = "closed" => wire[w] = << >> /\ pending[w] = << >>
  /\ HeldBack(w) => wire[w] = << >> /\ last[w] = after[w]

\* What a stream keeps is what it heard, in that order.
KeptInOrder(w) ==
  HeldBack(w) =>
    /\ \A k \in 1..Len(pending[w]) : \E i \in Heard(w) : Says(i) = pending[w][k]
    /\ \A i \in Heard(w) : \E k \in 1..Len(pending[w]) :
         /\ pending[w][k] = Says(i)
         /\ \A h \in 1..(k - 1) : \E j \in Heard(w) : j < i /\ Says(j) = pending[w][h]

\* w heard event n before any later one.
InTurn(w, n) ==
  \E i \in Heard(w) : Says(i) = n /\ \A j \in Heard(w) : j < i => Says(j) <= n

Gets(w, n) == Has(shown[w], n) \/ Has(wire[w], n)

PassedOn(w) ==
  conn[w] = "live" =>
    /\ \/ last[w] \in {after[w], rows[w]}
       \/ \E i \in Heard(w) : Says(i) = last[w]
    /\ \A n \in Nat : n > after[w] /\ (n <= rows[w] \/ InTurn(w, n)) => Gets(w, n)

WatcherInv(w) == InOrder(w) /\ KeptInOrder(w) /\ PassedOn(w)

StreamsHold ==
  StreamsTypeOK /\ BusHolds /\ \A w \in Watchers : WatcherInv(w)

StreamInv ==
  /\ ChangesInv
  /\ StreamsTypeOK
  /\ BusHolds
  /\ \A w \in Watchers : WatcherInv(w)

-----------------------------------------------------------------------------

\* A stream that keeps what it has and heard nothing more.
LEMMA KeptSame ==
  ASSUME NEW w \in Watchers, KeptInOrder(w), HeldBack(w), pending'[w] = pending[w],
         Heard(w)' = Heard(w), \A i \in Heard(w) : Says(i)' = Says(i)
  PROVE  KeptInOrder(w)'
<1>1. \A k \in 1..Len(pending[w]) : \E i \in Heard(w) : Says(i)' = pending[w][k]
  BY DEF KeptInOrder
<1>2. ASSUME NEW i \in Heard(w)
      PROVE  \E k \in 1..Len(pending[w]) :
               /\ pending[w][k] = Says(i)'
               /\ \A h \in 1..(k - 1) :
                    \E j \in Heard(w) : j < i /\ Says(j)' = pending[w][h]
  <2>1. PICK k \in 1..Len(pending[w]) :
          /\ pending[w][k] = Says(i)
          /\ \A h \in 1..(k - 1) : \E j \in Heard(w) : j < i /\ Says(j) = pending[w][h]
    BY DEF KeptInOrder
  <2>2. QED
    BY <2>1
<1>3. QED
  BY <1>1, <1>2 DEF KeptInOrder

\* A stream that nothing happens to.
LEMMA WatcherSame ==
  ASSUME NEW w \in Watchers, WatcherInv(w),
         conn'[w] = conn[w], after'[w] = after[w], last'[w] = last[w],
         rows'[w] = rows[w], pending'[w] = pending[w], wire'[w] = wire[w],
         shown'[w] = shown[w], Heard(w)' = Heard(w),
         \A i \in Heard(w) : Says(i)' = Says(i)
  PROVE  WatcherInv(w)'
<1> USE DEF WatcherInv
<1>1. InOrder(w)'
  BY DEF InOrder, HeldBack
<1>2. KeptInOrder(w)'
  <2>1. HeldBack(w)' <=> HeldBack(w)
    BY DEF HeldBack
  <2>2. CASE HeldBack(w)
    BY <2>2, KeptSame
  <2>3. CASE ~HeldBack(w)
    BY <2>1, <2>3 DEF KeptInOrder
  <2>4. QED
    BY <2>2, <2>3
<1>3. \A n \in Nat : (InTurn(w, n)' <=> InTurn(w, n)) /\ (Gets(w, n)' <=> Gets(w, n))
  BY DEF InTurn, Gets
<1>4. PassedOn(w)'
  BY <1>3 DEF PassedOn
<1>5. QED
  BY <1>1, <1>2, <1>4

\* The positions heard are positions of the bus.
LEMMA HeardFacts ==
  ASSUME StreamInv, NEW w \in Watchers, NEW i \in Heard(w)
  PROVE  /\ i \in 1..Len(bus) /\ i \in Nat /\ Len(bus) \in Nat
         /\ bus[i] \in Changes
         /\ Says(i) \in Nat
         /\ WatchOf[w] \in Orders
         /\ Says(i) \in 1..Len(log[WatchOf[w]])
<1> USE DEF StreamInv, StreamsTypeOK
<1>1. i \in 1..Len(bus) /\ Len(bus) \in Nat
  BY LenProperties DEF Heard
<1>2. bus[i] \in Changes /\ OrderOf[bus[i]] = WatchOf[w]
  BY <1>1, ElementOfSeq DEF Heard
<1>3. Says(i) \in Nat
  BY <1>2 DEF Says, ChangesInv, ChangesTypeOK
<1>4. step[bus[i]] = "published"
  BY <1>1 DEF BusHolds
<1>5. OrderOf[bus[i]] \in Orders /\ seqOf[bus[i]] \in 1..Len(log[OrderOf[bus[i]]])
  BY <1>2, <1>4 DEF BusHolds
<1>6. QED
  BY <1>1, <1>2, <1>3, <1>5 DEF Says

\* While nothing is published, w has heard the same.
LEMMA HeardSame ==
  ASSUME NEW w \in Watchers, bus' = bus, pod' = pod, since'[w] = since[w], at'[w] = at[w]
  PROVE  Heard(w)' = Heard(w)
  BY DEF Heard

-----------------------------------------------------------------------------
(* Inside the database.                                                    *)

LEMMA WriteKeepsBus ==
  ASSUME StreamInv, NEW x \in Changes, Write(x)
  PROVE  /\ BusHolds'
         /\ \A i \in 1..Len(bus) : Says(i)' = Says(i)
<1> USE DEF StreamInv, StreamsTypeOK, ChangesInv, ChangesTypeOK
<1>1. UNCHANGED <<bus, since, pod>>
  BY DEF Write, streamVars, Lock, Refuse, Commit, CommitUnheard, Records, Fail
<1>2. \A i \in 1..Len(bus) : bus[i] \in Changes
  BY ElementOfSeq
<1>3. CASE Lock(x) \/ Refuse(x) \/ Fail(x)
  <2>1. /\ UNCHANGED <<log, seqOf>>
        /\ step[x] \in {"idle", "locked"}
        /\ \E s \in {"locked", "refused", "lost"} : Goto(x, s)
    BY <1>3 DEF Lock, Refuse, Fail
  <2>2. \A y \in Changes : step'[y] \in {"committed", "published"} => step'[y] = step[y]
    BY <2>1 DEF Goto
  <2>3. \A y \in Changes : step[y] = "published" => step'[y] = "published"
    BY <2>1 DEF Goto
  <2>4. BusHolds'
    BY <1>1, <1>2, <2>1, <2>2, <2>3 DEF BusHolds
  <2>5. QED
    BY <1>1, <2>1, <2>4 DEF Says
<1>4. CASE Commit(x) \/ CommitUnheard(x)
  <2> DEFINE o == OrderOf[x]
  <2>1. o \in Orders /\ step[x] = "locked"
    BY <1>4 DEF Commit, CommitUnheard, Records, LocksFresh
  <2>2. /\ seqOf'[x] = Len(log[o]) + 1
        /\ \A y \in Changes : y # x => seqOf'[y] = seqOf[y]
        /\ step'[x] \in {"committed", "lost"}
        /\ \A y \in Changes : y # x => step'[y] = step[y]
    BY <1>4 DEF Commit, CommitUnheard, Records, Goto
  <2>3. /\ Len(log'[o]) = Len(log[o]) + 1
        /\ Len(log[o]) \in Nat
        /\ \A p \in Orders : p # o => log'[p] = log[p]
    BY <1>4, <2>1 DEF Commit, CommitUnheard, Records
  <2>4. ASSUME NEW y \in Changes, step'[y] \in {"committed", "published"}
        PROVE  OrderOf[y] \in Orders /\ seqOf'[y] \in 1..Len(log'[OrderOf[y]])
    <3>1. CASE y = x
      BY <2>1, <2>2, <2>3, <3>1
    <3>2. CASE y # x
      <4>1. OrderOf[y] \in Orders /\ seqOf[y] \in 1..Len(log[OrderOf[y]])
        BY <2>2, <2>4, <3>2 DEF BusHolds
      <4>2. CASE OrderOf[y] = o
        <5>1. seqOf[y] \in 1..(Len(log[o]) + 1)
          BY <2>3, <4>1, <4>2
        <5>2. QED
          BY <2>2, <2>3, <3>2, <4>1, <4>2, <5>1
      <4>3. CASE OrderOf[y] # o
        BY <2>2, <2>3, <3>2, <4>1, <4>3
      <4>4. QED
        BY <4>2, <4>3
    <3>3. QED
      BY <3>1, <3>2
  <2>5. \A i \in 1..Len(bus) : bus[i] # x
    BY <2>1 DEF BusHolds
  <2>6. BusHolds'
    BY <1>1, <1>2, <2>2, <2>4, <2>5 DEF BusHolds
  <2>7. QED
    BY <1>1, <1>2, <2>2, <2>5, <2>6 DEF Says
<1>5. QED
  BY <1>3, <1>4 DEF Write

-----------------------------------------------------------------------------
(* A change is published.                                                  *)

LEMMA AnnounceHears ==
  ASSUME StreamInv, NEW x \in Changes, Announce(x), NEW l, l = Len(bus)
  PROVE  /\ l \in Nat
         /\ BusHolds'
         /\ bus' \in Seq(Changes)
         /\ seqOf[x] \in Nat
         /\ Says(l + 1)' = seqOf[x]
         /\ \A i \in 1..l : Says(i)' = Says(i)
         /\ \A w \in Watchers :
              /\ Heard(w) \subseteq 1..l
              /\ Heard(w)' = IF at[w] = pod[x] /\ WatchOf[w] = OrderOf[x]
                             THEN Heard(w) \union {l + 1} ELSE Heard(w)
<1> USE DEF StreamInv, StreamsTypeOK, ChangesInv, ChangesTypeOK
<1>1. /\ UNCHANGED <<at, since, pod, seqOf, log>>
      /\ bus' = Append(bus, x)
      /\ step[x] = "committed"
      /\ Goto(x, "published")
  BY DEF Announce, Hear, Publish
<1>2. /\ l \in Nat
      /\ bus' \in Seq(Changes)
      /\ Len(bus') = l + 1
      /\ \A i \in 1..l : bus'[i] = bus[i]
      /\ bus'[l + 1] = x
  BY <1>1
<1>3. \A i \in 1..l : bus[i] \in Changes
  BY ElementOfSeq
<1>4. /\ step'[x] = "published"
      /\ \A y \in Changes : y # x => step'[y] = step[y]
  BY <1>1 DEF Goto
<1>5. \A i \in 1..(l + 1) : i \in 1..l \/ i = l + 1
  BY <1>2
<1>6. BusHolds'
  <2>1. \A y \in Changes : step'[y] \in {"committed", "published"} =>
          OrderOf[y] \in Orders /\ seqOf'[y] \in 1..Len(log'[OrderOf[y]])
    BY <1>1, <1>4 DEF BusHolds
  <2>2. ASSUME NEW i \in 1..(l + 1) PROVE step'[bus'[i]] = "published"
    <3>1. ASSUME i \in 1..l PROVE step'[bus[i]] = "published"
      <4>1. step[bus[i]] = "published"
        BY <3>1 DEF BusHolds
      <4>2. QED
        BY <1>3, <1>4, <3>1, <4>1
    <3>2. QED
      BY <1>2, <1>4, <1>5, <3>1
  <2>3. \A w \in Watchers : since'[w] <= l + 1
    <3>1. \A w \in Watchers : since[w] <= l /\ since[w] \in Nat
      BY DEF BusHolds
    <3>2. QED
      BY <1>1, <1>2, <3>1
  <2>4. QED
    BY <1>2, <2>1, <2>2, <2>3 DEF BusHolds
<1>7. Says(l + 1)' = seqOf[x] /\ \A i \in 1..l : Says(i)' = Says(i)
  BY <1>1, <1>2 DEF Says
<1>8. ASSUME NEW w \in Watchers
      PROVE  /\ Heard(w) \subseteq 1..l
             /\ Heard(w)' = IF at[w] = pod[x] /\ WatchOf[w] = OrderOf[x]
                            THEN Heard(w) \union {l + 1} ELSE Heard(w)
  <2>1. since[w] \in Nat /\ since[w] <= l
    BY DEF BusHolds
  <2> DEFINE m == since[w] + 1
  <2>2. m \in Nat /\ 1 <= m /\ m <= l + 1
    BY <1>2, <2>1
  <2>3. Heard(w)' = {i \in m .. l + 1 : pod[bus'[i]] = at[w] /\ OrderOf[bus'[i]] = WatchOf[w]}
    BY <1>1, <1>2 DEF Heard
  <2>4. Heard(w) = {i \in m .. l : pod[bus[i]] = at[w] /\ OrderOf[bus[i]] = WatchOf[w]}
    BY DEF Heard
  <2> HIDE DEF m
  <2>5. /\ m .. l \subseteq 1..l
        /\ m .. l + 1 = (m .. l) \union {l + 1}
    BY <1>2, <2>2
  <2>6. \A i \in m .. l : bus'[i] = bus[i]
    BY <1>2, <2>5
  <2>7. Heard(w) \subseteq 1..l
    BY <2>4, <2>5
  <2>8. ASSUME NEW i
        PROVE  i \in Heard(w)' <=>
                 \/ i \in Heard(w)
                 \/ i = l + 1 /\ at[w] = pod[x] /\ WatchOf[w] = OrderOf[x]
    <3>1. CASE i \in m .. l
      <4>1. i \in m .. l + 1 /\ bus'[i] = bus[i] /\ i # l + 1
        BY <1>2, <2>2, <2>6, <3>1
      <4>2. QED
        BY <2>3, <2>4, <3>1, <4>1, Zenon
    <3>2. CASE i = l + 1
      <4>1. i \in m .. l + 1 /\ i \notin m .. l /\ bus'[i] = x
        BY <1>2, <2>2, <3>2
      <4>2. QED
        BY <2>3, <2>4, <3>2, <4>1, Zenon
    <3>3. CASE i \notin m .. l /\ i # l + 1
      <4>1. i \notin m .. l + 1
        BY <2>5, <3>3
      <4>2. QED
        BY <2>3, <2>4, <3>3, <4>1, Zenon
    <3>4. QED
      BY <3>1, <3>2, <3>3, Zenon
  <2>9. QED
    BY <2>7, <2>8
<1>9. QED
  BY <1>1, <1>2, <1>6, <1>7, <1>8

\* What is delivered continues what is on the wire.
LEMMA WireContinues ==
  ASSUME StreamInv, NEW w \in Watchers, conn[w] # "closed",
         NEW acc, NEW ids, NEW n,
         Follows(acc, [last |-> last[w], out |-> wire[w]], ids, n)
  PROVE  /\ acc.last \in Nat /\ acc.out \in Seq(Nat)
         /\ Increasing(acc.out)
         /\ \A i \in 1..Len(shown[w]) : \A j \in 1..Len(acc.out) : shown[w][i] < acc.out[j]
         /\ AllUpTo(shown[w], acc.last)
         /\ AllUpTo(acc.out, acc.last)
         /\ \A e : Has(wire[w], e) => Has(acc.out, e)
<1> DEFINE b == Len(wire[w])
           l == Len(acc.out)
           s == Len(shown[w])
<1>1. /\ acc.last \in Nat /\ acc.out \in Seq(Nat)
      /\ l \in Nat
      /\ \A j \in 1..l : acc.out[j] \in Nat
  <2>1. acc.last \in Nat /\ acc.out \in Seq(Nat)
    BY DEF Follows, Stream
  <2>2. QED
    BY <2>1, LenProperties, ElementOfSeq
<1>2. /\ last[w] \in Nat /\ b \in Nat /\ s \in Nat
      /\ \A j \in 1..b : wire[w][j] \in Nat
      /\ \A i \in 1..s : shown[w][i] \in Nat
  BY LenProperties, ElementOfSeq DEF StreamInv, StreamsTypeOK
<1>3. /\ last[w] <= acc.last
      /\ b <= l
      /\ \A j \in 1..b : acc.out[j] = wire[w][j]
      /\ \A j \in b + 1 .. l :
           /\ last[w] < acc.out[j] /\ acc.out[j] <= acc.last
           /\ \A k \in b + 1 .. l : j < k => acc.out[j] < acc.out[k]
  BY DEF Follows
<1>4. /\ \A j, k \in 1..b : j < k => wire[w][j] < wire[w][k]
      /\ \A i \in 1..s : \A j \in 1..b : shown[w][i] < wire[w][j]
      /\ \A i \in 1..s : shown[w][i] <= last[w]
      /\ \A j \in 1..b : wire[w][j] <= last[w]
  BY DEF StreamInv, WatcherInv, InOrder, Increasing, AllUpTo
<1> HIDE DEF b, l, s
<1>5. \A j \in 1..l : j \in 1..b \/ j \in b + 1 .. l
  BY <1>1, <1>2
<1>6. ASSUME NEW j \in 1..l, NEW k \in 1..l, j < k PROVE acc.out[j] < acc.out[k]
  <2>1. CASE k \in 1..b
    <3>1. j \in 1..b
      BY <1>1, <1>2, <1>6, <2>1
    <3>2. QED
      BY <1>3, <1>4, <1>6, <2>1, <3>1
  <2>2. CASE k \in b + 1 .. l /\ j \in 1..b
    <3>1. acc.out[j] = wire[w][j] /\ wire[w][j] <= last[w] /\ last[w] < acc.out[k]
      BY <1>3, <1>4, <2>2
    <3>2. QED
      BY <1>1, <1>2, <2>2, <3>1
  <2>3. CASE k \in b + 1 .. l /\ j \in b + 1 .. l
    BY <1>3, <1>6, <2>3
  <2>4. QED
    BY <1>5, <2>1, <2>2, <2>3
<1>7. ASSUME NEW i \in 1..s, NEW j \in 1..l PROVE shown[w][i] < acc.out[j]
  <2>1. CASE j \in 1..b
    BY <1>3, <1>4, <2>1
  <2>2. CASE j \in b + 1 .. l
    <3>1. shown[w][i] <= last[w] /\ last[w] < acc.out[j]
      BY <1>3, <1>4, <2>2
    <3>2. QED
      BY <1>1, <1>2, <3>1
  <2>3. QED
    BY <1>5, <2>1, <2>2
<1>8. ASSUME NEW i \in 1..s PROVE shown[w][i] <= acc.last
  BY <1>1, <1>2, <1>3, <1>4
<1>9. ASSUME NEW j \in 1..l PROVE acc.out[j] <= acc.last
  <2>1. CASE j \in 1..b
    <3>1. acc.out[j] <= last[w]
      BY <1>3, <1>4, <2>1
    <3>2. QED
      BY <1>1, <1>2, <1>3, <3>1
  <2>2. QED
    BY <1>3, <1>5, <2>1
<1>10. ASSUME NEW e, Has(wire[w], e) PROVE Has(acc.out, e)
  <2>1. PICK j \in 1..b : wire[w][j] = e
    BY <1>10 DEF Has, b
  <2>2. j \in 1..l /\ acc.out[j] = e
    BY <1>1, <1>2, <1>3, <2>1
  <2>3. QED
    BY <2>2 DEF Has, l
<1>11. QED
  BY <1>1, <1>6, <1>7, <1>8, <1>9, <1>10 DEF Increasing, AllUpTo, s, l

LEMMA AnnounceKeeps ==
  ASSUME StreamInv, NEW x \in Changes, Announce(x), NEW w \in Watchers
  PROVE  /\ WatcherInv(w)'
         /\ last'[w] \in Nat /\ wire'[w] \in Seq(Nat) /\ pending'[w] \in Seq(Nat)
<1>0. PICK n, l : n = seqOf[x] /\ l = Len(bus)
  OBVIOUS
<1> DEFINE hears == at[w] = pod[x] /\ WatchOf[w] = OrderOf[x]
           d == Delivered(w, <<n>>)
<1>1. /\ l \in Nat
      /\ n \in Nat
      /\ Says(l + 1)' = n
      /\ \A i \in 1..l : Says(i)' = Says(i)
      /\ Heard(w) \subseteq 1..l
      /\ Heard(w)' = IF hears THEN Heard(w) \union {l + 1} ELSE Heard(w)
  BY <1>0, AnnounceHears
<1>2. UNCHANGED <<conn, at, after, rows, shown, since>>
  BY DEF Announce, Hear
<1>3. /\ last'[w] = IF hears /\ conn[w] = "live" THEN d.last ELSE last[w]
      /\ wire'[w] = IF hears /\ conn[w] = "live" THEN d.out ELSE wire[w]
      /\ pending'[w] = IF hears /\ HeldBack(w) THEN Append(pending[w], n) ELSE pending[w]
  BY <1>0 DEF Announce, Hear
<1>4. /\ conn[w] \in {"closed", "subscribed", "read", "live"}
      /\ last[w] \in Nat /\ after[w] \in Nat /\ rows[w] \in Nat
      /\ wire[w] \in Seq(Nat) /\ pending[w] \in Seq(Nat) /\ shown[w] \in Seq(Nat)
  BY DEF StreamInv, StreamsTypeOK
<1>5. WatcherInv(w)
  BY DEF StreamInv
<1>6. \A i \in Heard(w) : Says(i) \in Nat /\ i \in Nat
  BY HeardFacts
<1>7. CASE ~hears
  <2>1. \A i \in Heard(w) : Says(i)' = Says(i)
    BY <1>1
  <2>2. /\ Heard(w)' = Heard(w)
        /\ last'[w] = last[w] /\ wire'[w] = wire[w] /\ pending'[w] = pending[w]
    BY <1>1, <1>3, <1>7
  <2> HIDE DEF hears
  <2>3. WatcherInv(w)'
    BY <1>2, <1>5, <2>1, <2>2, WatcherSame
  <2>4. QED
    BY <1>4, <2>2, <2>3
<1>8. CASE hears /\ conn[w] = "closed"
  <2>1. last'[w] = last[w] /\ wire'[w] = wire[w] /\ pending'[w] = pending[w]
    BY <1>3, <1>8 DEF HeldBack
  <2>2. WatcherInv(w)'
    BY <1>2, <1>5, <1>8, <2>1 DEF WatcherInv, InOrder, KeptInOrder, PassedOn, HeldBack
  <2>3. QED
    BY <1>4, <2>1, <2>2
<1>9. CASE hears /\ HeldBack(w)
  <2> DEFINE p == pending[w]
             q == pending'[w]
             m == Len(p)
  <2>1. last'[w] = last[w] /\ wire'[w] = wire[w] /\ conn[w] # "live"
    BY <1>3, <1>9 DEF HeldBack
  <2>2. /\ q \in Seq(Nat)
        /\ m \in Nat /\ Len(q) = m + 1
        /\ \A k \in 1..m : q[k] = p[k]
        /\ q[m + 1] = n
    BY <1>1, <1>3, <1>4, <1>9
  <2>3. Heard(w)' = Heard(w) \union {l + 1}
    BY <1>1, <1>9
  <2>4. /\ \A k \in 1..m : \E i \in Heard(w) : Says(i) = p[k]
        /\ \A i \in Heard(w) : \E k \in 1..m :
             /\ p[k] = Says(i)
             /\ \A h \in 1..(k - 1) : \E j \in Heard(w) : j < i /\ Says(j) = p[h]
    BY <1>5, <1>9 DEF WatcherInv, KeptInOrder
  <2>5. InOrder(w)'
    BY <1>2, <1>5, <1>9, <2>1 DEF WatcherInv, InOrder, HeldBack
  <2>6. PassedOn(w)'
    BY <1>2, <2>1 DEF PassedOn
  <2>7. KeptInOrder(w)'
    <3> DEFINE H == Heard(w)
               Said(i) == Says(i)'
    <3>1. \A i \in H : Said(i) = Says(i) /\ i < l + 1
      BY <1>1
    <3>2. Said(l + 1) = n
      BY <1>1
    <3> HIDE DEF Said, H, p, q, m
    <3>3. ASSUME NEW k \in 1..(m + 1) PROVE \E i \in H \union {l + 1} : Said(i) = q[k]
      <4>1. CASE k \in 1..m
        <5>1. PICK i \in H : Says(i) = p[k]
          BY <2>4, <4>1 DEF H
        <5>2. QED
          BY <2>2, <3>1, <4>1, <5>1
      <4>2. CASE k = m + 1
        BY <2>2, <3>2, <4>2
      <4>3. QED
        BY <2>2, <4>1, <4>2
    <3>4. ASSUME NEW i \in H \union {l + 1}
          PROVE  \E k \in 1..(m + 1) :
                   /\ q[k] = Said(i)
                   /\ \A h \in 1..(k - 1) :
                        \E j \in H \union {l + 1} : j < i /\ Said(j) = q[h]
      <4>1. CASE i \in H
        <5>1. PICK k \in 1..m :
                /\ p[k] = Says(i)
                /\ \A h \in 1..(k - 1) : \E j \in H : j < i /\ Says(j) = p[h]
          BY <2>4, <4>1 DEF H
        <5>2. k \in 1..(m + 1) /\ q[k] = Said(i)
          BY <2>2, <3>1, <4>1, <5>1
        <5>3. \A h \in 1..(k - 1) : h \in 1..m
          BY <2>2
        <5>4. ASSUME NEW h \in 1..(k - 1)
              PROVE  \E j \in H \union {l + 1} : j < i /\ Said(j) = q[h]
          BY <2>2, <3>1, <5>1, <5>3
        <5>5. QED
          BY <5>2, <5>4
      <4>2. CASE i = l + 1
        <5>1. PICK k \in 1..(m + 1) : k = m + 1 /\ q[k] = Said(i)
          BY <2>2, <3>2, <4>2
        <5>2. ASSUME NEW h \in 1..(k - 1)
              PROVE  \E j \in H \union {l + 1} : j < i /\ Said(j) = q[h]
          <6>1. h \in 1..m
            BY <2>2, <5>1
          <6>2. PICK j \in H : Says(j) = p[h]
            BY <2>4, <6>1 DEF H
          <6>3. QED
            BY <2>2, <3>1, <4>2, <6>1, <6>2
        <5>3. QED
          BY <5>1, <5>2
      <4>3. QED
        BY <4>1, <4>2
    <3>5. /\ \A k \in 1..Len(q) : \E i \in Heard(w)' : Said(i) = q[k]
          /\ \A i \in Heard(w)' : \E k \in 1..Len(q) :
               /\ q[k] = Said(i)
               /\ \A h \in 1..(k - 1) : \E j \in Heard(w)' : j < i /\ Said(j) = q[h]
      BY <2>2, <2>3, <3>3, <3>4 DEF H
    <3>6. QED
      BY <3>5 DEF KeptInOrder, Said, q
  <2>8. QED
    BY <1>4, <2>1, <2>2, <2>5, <2>6, <2>7 DEF WatcherInv
<1>10. CASE hears /\ conn[w] = "live"
  <2> DEFINE base == [last |-> last[w], out |-> wire[w]]
  <2>1. last'[w] = d.last /\ wire'[w] = d.out /\ pending'[w] = pending[w] /\ ~HeldBack(w)
    BY <1>3, <1>10 DEF HeldBack
  <2>2. Heard(w)' = Heard(w) \union {l + 1}
    BY <1>1, <1>10
  <2>3. Follows(d, base, <<n>>, 1)
    <3>1. <<n>> \in Seq(Nat) /\ Len(<<n>>) = 1
      BY <1>1
    <3>2. Follows(d, base, <<n>>, Len(<<n>>))
      BY <1>4, <3>1, DeliveredFollows
    <3>3. QED
      BY <3>1, <3>2
  <2>4. /\ d.last \in Nat /\ d.out \in Seq(Nat)
        /\ Increasing(d.out)
        /\ \A i \in 1..Len(shown[w]) : \A j \in 1..Len(d.out) : shown[w][i] < d.out[j]
        /\ AllUpTo(shown[w], d.last)
        /\ AllUpTo(d.out, d.last)
        /\ \A e : Has(wire[w], e) => Has(d.out, e)
    <3> HIDE DEF d
    <3>1. QED
      BY <1>10, <2>3, WireContinues
  <2>5. /\ d.last = last[w] \/ d.last = n
        /\ n > last[w] => Has(d.out, n)
    <3>1. base.last = last[w] /\ <<n>>[1] = n /\ 1..1 = {1} /\ 1..(1 - 1) = {}
      OBVIOUS
    <3> HIDE DEF d, base
    <3>2. QED
      BY <2>3, <3>1 DEF Follows
  <2> HIDE DEF d, base
  <2>6. InOrder(w)'
    BY <1>2, <1>5, <1>10, <2>1, <2>4 DEF WatcherInv, InOrder, HeldBack
  <2>7. KeptInOrder(w)'
    BY <1>2, <1>10 DEF KeptInOrder, HeldBack
  <2>8. /\ last[w] \in {after[w], rows[w]} \/ \E i \in Heard(w) : Says(i) = last[w]
        /\ \A e \in Nat : e > after[w] /\ (e <= rows[w] \/ InTurn(w, e)) => Gets(w, e)
    BY <1>5, <1>10 DEF WatcherInv, PassedOn
  <2>9. \A e : Gets(w, e) => Gets(w, e)'
    BY <1>2, <2>1, <2>4 DEF Gets
  <2>10. \A i \in Heard(w) : i < l + 1 /\ i \in 1..l /\ Says(i)' = Says(i)
    BY <1>1
  <2>11. ASSUME NEW e \in Nat, e > after[w], e <= rows[w] \/ InTurn(w, e)'
         PROVE  Gets(w, e)'
    <3>1. CASE e <= rows[w]
      BY <2>8, <2>9, <2>11, <3>1
    <3>2. CASE InTurn(w, e)'
      <4> DEFINE Said(i) == Says(i)'
      <4>1. PICK i \in Heard(w) \union {l + 1} :
              Said(i) = e /\ \A j \in Heard(w) \union {l + 1} : j < i => Said(j) <= e
        BY <2>2, <3>2 DEF InTurn
      <4>2. /\ \A j \in Heard(w) : Said(j) = Says(j)
            /\ Said(l + 1) = n
        BY <1>1, <2>10
      <4> HIDE DEF Said
      <4>3. CASE i \in Heard(w)
        <5>1. InTurn(w, e)
          BY <4>1, <4>2, <4>3 DEF InTurn
        <5>2. QED
          BY <2>8, <2>9, <2>11, <5>1
      <4>4. CASE i = l + 1
        <5>1. e = n /\ \A j \in Heard(w) : Says(j) <= e
          BY <2>10, <4>1, <4>2, <4>4
        <5>2. CASE e > last[w]
          <6>1. Has(d.out, e)
            BY <2>5, <5>1, <5>2
          <6>2. QED
            BY <2>1, <6>1 DEF Gets
        <5>3. CASE e <= last[w] /\ last[w] = rows[w]
          BY <2>8, <2>9, <2>11, <5>3
        <5>4. CASE e <= last[w] /\ \E j \in Heard(w) : Says(j) = last[w]
          <6>1. PICK j \in Heard(w) : Says(j) = last[w]
            BY <5>4
          <6>2. Says(j) = e
            BY <1>4, <5>1, <5>4, <6>1
          <6>3. InTurn(w, e)
            BY <5>1, <6>2 DEF InTurn
          <6>4. QED
            BY <2>8, <2>9, <2>11, <6>3
        <5>5. last[w] # after[w] \/ e > last[w]
          BY <2>11
        <5>6. e > last[w] \/ e <= last[w]
          BY <1>4
        <5>7. QED
          BY <2>8, <5>2, <5>3, <5>4, <5>5, <5>6
      <4>5. QED
        BY <4>1, <4>3, <4>4
    <3>3. QED
      BY <2>11, <3>1, <3>2
  <2>12. \/ d.last \in {after[w], rows[w]}
         \/ \E i \in Heard(w)' : Says(i)' = d.last
    <3>1. CASE d.last = n
      <4>1. Says(l + 1)' = d.last
        BY <1>1, <3>1
      <4>2. PICK i \in Heard(w)' : i = l + 1
        BY <2>2
      <4>3. Says(i)' = d.last
        BY <4>1, <4>2
      <4>4. QED
        BY <4>3
    <3>2. CASE d.last = last[w] /\ \E i \in Heard(w) : Says(i) = last[w]
      <4>1. PICK i \in Heard(w) : Says(i) = last[w]
        BY <3>2
      <4>2. Says(i)' = d.last
        BY <2>10, <3>2, <4>1
      <4>3. QED
        BY <2>2, <4>2
    <3>3. QED
      BY <2>5, <2>8, <3>1, <3>2
  <2>13. PassedOn(w)'
    BY <1>2, <2>1, <2>11, <2>12 DEF PassedOn
  <2>14. QED
    BY <1>4, <2>1, <2>4, <2>6, <2>7, <2>13 DEF WatcherInv
<1>11. hears /\ conn[w] # "closed" => HeldBack(w) \/ conn[w] = "live"
  BY <1>4 DEF HeldBack
<1>12. QED
  BY <1>7, <1>8, <1>9, <1>10, <1>11

LEMMA ReplayKeeps ==
  ASSUME StreamInv, NEW w \in Watchers, Replay(w), UNCHANGED changeVars
  PROVE  /\ WatcherInv(w)'
         /\ last'[w] \in Nat /\ wire'[w] \in Seq(Nat)
<1>0. PICK a, r, p : a = after[w] /\ r = rows[w] /\ p = pending[w]
  OBVIOUS
<1> DEFINE history == [i \in 1..(r - a) |-> a + i]
           h == IF a <= r THEN r - a ELSE 0
           m == Len(p)
           ids == history \o p
           d == Delivered(w, ids)
           base == [last |-> last[w], out |-> wire[w]]
<1>1. /\ a \in Nat /\ r \in Nat
      /\ last[w] \in Nat
      /\ wire[w] \in Seq(Nat) /\ p \in Seq(Nat)
      /\ m \in Nat
      /\ \A k \in 1..m : p[k] \in Nat
  BY <1>0, ElementOfSeq, LenProperties DEF StreamInv, StreamsTypeOK
<1>2. /\ conn[w] = "read"
      /\ HeldBack(w)
      /\ wire[w] = << >> /\ last[w] = a
  BY <1>0 DEF Replay, HeldBack, StreamInv, WatcherInv, InOrder
<1>3. /\ conn'[w] = "live"
      /\ last'[w] = d.last
      /\ wire'[w] = d.out
      /\ after'[w] = a /\ rows'[w] = r /\ shown'[w] = shown[w]
      /\ UNCHANGED <<at, since, bus, pod, seqOf>>
  BY <1>0 DEF Replay, StreamInv, StreamsTypeOK, changeVars
<1>4. /\ h \in Nat /\ history \in Seq(Nat) /\ Len(history) = h
      /\ \A k \in 1..h : history[k] = a + k
  <2>1. h \in Nat /\ 1..(r - a) = 1..h
    BY <1>1
  <2> HIDE DEF h
  <2>2. history = [i \in 1..h |-> a + i]
    BY <2>1
  <2>3. \A i \in 1..h : a + i \in Nat
    BY <1>1, <2>1
  <2>4. [i \in 1..h |-> a + i] \in Seq(Nat)
    BY <2>1, <2>3, IsASeq
  <2>5. Len([i \in 1..h |-> a + i]) = h
    BY <2>1, <2>4, LenProperties
  <2>6. QED
    BY <2>1, <2>2, <2>4, <2>5
<1> HIDE DEF history
<1>5. /\ ids \in Seq(Nat)
      /\ Len(ids) = h + m
      /\ \A k \in 1..h : ids[k] = a + k
      /\ \A k \in 1..m : ids[h + k] = p[k]
  <2>1. /\ ids \in Seq(Nat)
        /\ Len(ids) = Len(history) + m
        /\ \A k \in 1..(Len(history) + m) :
             ids[k] = IF k <= Len(history) THEN history[k] ELSE p[k - Len(history)]
    BY <1>1, <1>4, ConcatProperties
  <2> HIDE DEF ids, m
  <2>2. \A k \in 1..(h + m) : ids[k] = IF k <= h THEN history[k] ELSE p[k - h]
    BY <1>4, <2>1
  <2> HIDE DEF h
  <2>3. ASSUME NEW k \in 1..h PROVE ids[k] = a + k
    <3>1. k \in 1..(h + m) /\ k <= h
      BY <1>1, <1>4
    <3>2. QED
      BY <1>4, <2>2, <3>1
  <2>4. ASSUME NEW k \in 1..m PROVE ids[h + k] = p[k]
    <3>1. PICK g \in 1..(h + m) : g = h + k /\ ~(g <= h) /\ g - h = k
      BY <1>1, <1>4
    <3>2. QED
      BY <2>2, <3>1
  <2>5. QED
    BY <1>4, <2>1, <2>3, <2>4
<1>6. (a <= r /\ h = r - a) \/ (r < a /\ h = 0)
  BY <1>1
<1> HIDE DEF h, ids, d, m
<1>7. Follows(d, base, ids, h + m)
  <2>1. Follows(d, base, ids, Len(ids))
    BY <1>1, <1>5, DeliveredFollows DEF d
  <2>2. QED
    BY <1>5, <2>1
<1>8. /\ d.last \in Nat /\ d.out \in Seq(Nat)
      /\ Increasing(d.out)
      /\ \A i \in 1..Len(shown[w]) : \A j \in 1..Len(d.out) : shown[w][i] < d.out[j]
      /\ AllUpTo(shown[w], d.last)
      /\ AllUpTo(d.out, d.last)
  BY <1>2, <1>7, WireContinues
<1>9. /\ d.last = a \/ \E k \in 1..(h + m) : ids[k] = d.last
      /\ \A k \in 1..(h + m) :
           /\ ids[k] <= d.last
           /\ ids[k] > a /\ (\A g \in 1..(k - 1) : ids[g] <= ids[k]) => Has(d.out, ids[k])
  <2>1. base.last = a
    BY <1>2
  <2> HIDE DEF base
  <2>2. QED
    BY <1>7, <2>1 DEF Follows
<1>10. InOrder(w)'
  <2>1. Increasing(shown[w])
    BY DEF StreamInv, WatcherInv, InOrder
  <2>2. QED
    BY <1>3, <1>8, <2>1 DEF InOrder, HeldBack
<1>11. KeptInOrder(w)'
  BY <1>3 DEF KeptInOrder, HeldBack
<1>12. /\ Heard(w)' = Heard(w)
       /\ \A i : Says(i)' = Says(i)
  BY <1>3 DEF Heard, Says
<1>13. /\ \A k \in 1..m : \E i \in Heard(w) : Says(i) = p[k]
       /\ \A i \in Heard(w) : \E k \in 1..m :
            /\ p[k] = Says(i)
            /\ \A g \in 1..(k - 1) : \E j \in Heard(w) : j < i /\ Says(j) = p[g]
  BY <1>0, <1>2 DEF StreamInv, WatcherInv, KeptInOrder, m
<1>14. \A k \in 1..(h + m) : k \in 1..h \/ \E g \in 1..m : k = h + g
  <2> SUFFICES ASSUME NEW k \in 1..(h + m), k \notin 1..h
               PROVE  \E g \in 1..m : k = h + g
    OBVIOUS
  <2>1. k - h \in 1..m /\ k = h + (k - h)
    BY <1>1, <1>4
  <2>2. QED
    BY <2>1
<1>15. d.last \in {a, r} \/ \E i \in Heard(w) : Says(i) = d.last
  <2>1. SUFFICES ASSUME NEW k \in 1..(h + m), ids[k] = d.last
                 PROVE  d.last \in {a, r} \/ \E i \in Heard(w) : Says(i) = d.last
    BY <1>9
  <2>2. CASE k \in 1..h
    <3>1. h \in 1..h /\ h \in 1..(h + m) /\ h = r - a
      BY <1>1, <1>4, <1>6, <2>2
    <3>2. ids[h] = r /\ ids[h] <= d.last
      <4>1. ids[h] = a + h /\ ids[h] <= d.last
        BY <1>5, <1>9, <3>1
      <4>2. QED
        BY <1>1, <3>1, <4>1
    <3>3. d.last = a + k
      BY <1>5, <2>1, <2>2
    <3>4. d.last <= r
      BY <1>1, <2>2, <3>1, <3>3
    <3>5. QED
      BY <1>1, <1>8, <3>2, <3>4
  <2>3. ASSUME NEW g \in 1..m, k = h + g PROVE \E i \in Heard(w) : Says(i) = d.last
    <3>1. d.last = p[g]
      BY <1>5, <2>1, <2>3
    <3>2. QED
      BY <1>13, <3>1
  <2>4. QED
    BY <1>14, <2>2, <2>3
<1>16. ASSUME NEW n \in Nat, n > a, n <= r PROVE Has(d.out, n)
  <2>1. PICK k \in 1..h : n = a + k
    <3>1. n - a \in 1..h /\ n = a + (n - a)
      BY <1>1, <1>6, <1>16
    <3>2. QED
      BY <3>1
  <2>2. k \in 1..(h + m) /\ ids[k] = n
    BY <1>1, <1>4, <1>5, <2>1
  <2>3. ASSUME NEW g \in 1..(k - 1) PROVE ids[g] <= ids[k]
    <3>1. g \in 1..h /\ a + g <= a + k
      BY <1>1, <1>4
    <3>2. QED
      BY <1>5, <2>1, <2>2, <3>1
  <2>4. QED
    BY <1>9, <1>16, <2>2, <2>3
<1>17. ASSUME NEW n \in Nat, n > a, n > r, InTurn(w, n) PROVE Has(d.out, n)
  <2>1. PICK i \in Heard(w) :
          Says(i) = n /\ \A j \in Heard(w) : j < i => Says(j) <= n
    BY <1>17 DEF InTurn
  <2>2. PICK k \in 1..m :
          /\ p[k] = n
          /\ \A g \in 1..(k - 1) : \E j \in Heard(w) : j < i /\ Says(j) = p[g]
    BY <1>13, <2>1
  <2>3. PICK l \in 1..(h + m) : l = h + k /\ ids[l] = n
    BY <1>1, <1>4, <1>5, <2>2
  <2>4. ASSUME NEW g \in 1..(l - 1) PROVE ids[g] <= ids[l]
    <3>1. g \in 1..h \/ g - h \in 1..(k - 1)
      BY <1>1, <1>4, <2>3
    <3>2. CASE g \in 1..h
      <4>1. ids[g] = a + g
        BY <1>5, <3>2
      <4>2. a + g <= r /\ a + g \in Nat
        BY <1>1, <1>4, <1>6, <3>2
      <4>3. QED
        BY <1>1, <1>17, <2>3, <4>1, <4>2
    <3>3. CASE g - h \in 1..(k - 1)
      <4>1. PICK f \in 1..(k - 1) : g = h + f
        BY <1>4, <3>3
      <4>2. f \in 1..m
        BY <1>1, <2>2
      <4>3. ids[g] = p[f]
        BY <1>5, <4>1, <4>2
      <4>4. p[f] <= n
        BY <2>1, <2>2
      <4>5. QED
        BY <2>3, <4>3, <4>4
    <3>4. QED
      BY <3>1, <3>2, <3>3
  <2>5. QED
    BY <1>9, <1>17, <2>3, <2>4
<1>18. PassedOn(w)'
  <2>1. \A n \in Nat : n > a /\ (n <= r \/ InTurn(w, n)) => Has(d.out, n)
    <3>1. \A n \in Nat : n <= r \/ n > r
      BY <1>1
    <3>2. QED
      BY <1>16, <1>17, <3>1
  <2>2. \A n : InTurn(w, n)' <=> InTurn(w, n)
    BY <1>12 DEF InTurn
  <2>3. \A n \in Nat : n > a /\ (n <= r \/ InTurn(w, n)') => Gets(w, n)'
    BY <1>3, <2>1, <2>2 DEF Gets
  <2>4. \/ last'[w] \in {a, r}
        \/ \E i \in Heard(w)' : Says(i)' = last'[w]
    BY <1>3, <1>12, <1>15
  <2>5. QED
    BY <1>3, <2>3, <2>4 DEF PassedOn
<1>19. QED
  BY <1>3, <1>8, <1>10, <1>11, <1>18 DEF WatcherInv

\* Last-Event-ID is the highest id the client has.
LEMMA LastSeen ==
  ASSUME StreamInv, NEW w \in Watchers
  PROVE  /\ LastEventId(w) \in Nat
         /\ \A i \in 1..Len(shown[w]) : shown[w][i] <= LastEventId(w)
<1>0. PICK s : s = shown[w]
  OBVIOUS
<1> DEFINE l == Len(s)
<1>1. /\ s \in Seq(Nat) /\ l \in Nat
      /\ \A i \in 1..l : s[i] \in Nat
      /\ \A i, j \in 1..l : i < j => s[i] < s[j]
  BY <1>0, ElementOfSeq, LenProperties
     DEF StreamInv, StreamsTypeOK, WatcherInv, InOrder, Increasing
<1>2. LastEventId(w) = IF l = 0 THEN 0 ELSE s[l]
  BY <1>0, <1>1, EmptySeq DEF LastEventId, Last
<1> HIDE DEF l
<1>3. ASSUME NEW i \in 1..l PROVE s[i] <= LastEventId(w)
  <2>1. l \in 1..l /\ l # 0 /\ (i = l \/ i < l)
    BY <1>1
  <2>2. QED
    BY <1>1, <1>2, <2>1
<1>4. QED
  BY <1>0, <1>1, <1>2, <1>3 DEF l

LEMMA ConnectKeeps ==
  ASSUME StreamInv, NEW w \in Watchers, NEW q \in Pods, Connect(w, q), UNCHANGED changeVars
  PROVE  /\ WatcherInv(w)'
         /\ LastEventId(w) \in Nat
<1> DEFINE s == shown[w]
           l == Len(s)
           id == LastEventId(w)
<1>1. /\ s \in Seq(Nat) /\ l \in Nat
      /\ \A i \in 1..l : s[i] \in Nat
      /\ Len(bus) \in Nat
  BY ElementOfSeq, LenProperties DEF StreamInv, StreamsTypeOK
<1>2. /\ conn[w] = "closed" /\ wire[w] = << >> /\ pending[w] = << >>
      /\ \A i, j \in 1..l : i < j => s[i] < s[j]
  BY DEF Connect, StreamInv, WatcherInv, InOrder, Increasing
<1>3. id \in Nat /\ \A i \in 1..l : s[i] <= id
  BY LastSeen
<1> HIDE DEF id
<1>4. /\ conn'[w] = "subscribed"
      /\ after'[w] = id /\ last'[w] = id
      /\ since'[w] = Len(bus) /\ bus' = bus
      /\ wire'[w] = << >> /\ pending'[w] = << >> /\ shown'[w] = s
  BY <1>2 DEF Connect, id, StreamInv, StreamsTypeOK
<1>5. Heard(w)' = {}
  <2>1. Len(bus) + 1 .. Len(bus) = {}
    BY <1>1
  <2>2. QED
    BY <1>4, <2>1 DEF Heard
<1>6. InOrder(w)'
  <2>1. Increasing(s) /\ AllUpTo(s, id) /\ Len(<< >>) = 0 /\ 1..0 = {}
    BY <1>2, <1>3 DEF Increasing, AllUpTo
  <2>2. QED
    BY <1>4, <2>1 DEF InOrder, Increasing, AllUpTo
<1>7. KeptInOrder(w)'
  <2>1. 1..Len(<< >>) = {}
    OBVIOUS
  <2>2. QED
    BY <1>4, <1>5, <2>1 DEF KeptInOrder
<1>8. PassedOn(w)'
  BY <1>4 DEF PassedOn
<1>9. QED
  BY <1>3, <1>6, <1>7, <1>8 DEF WatcherInv, id

LEMMA ReadKeeps ==
  ASSUME StreamInv, NEW w \in Watchers, ReadHistory(w), UNCHANGED changeVars
  PROVE  WatcherInv(w)'
<1>1. /\ conn[w] = "subscribed" /\ conn'[w] = "read"
      /\ UNCHANGED <<at, after, last, pending, wire, shown, bus, since, pod, seqOf>>
  BY DEF ReadHistory, StreamInv, StreamsTypeOK, changeVars
<1>2. InOrder(w) /\ KeptInOrder(w)
  BY DEF StreamInv, WatcherInv
<1>3. InOrder(w)'
  BY <1>1, <1>2 DEF InOrder, HeldBack
<1>4. Heard(w)' = Heard(w) /\ \A i : Says(i)' = Says(i)
  BY <1>1 DEF Heard, Says
<1>5. KeptInOrder(w)'
  BY <1>1, <1>2, <1>4, KeptSame DEF HeldBack
<1>6. PassedOn(w)'
  BY <1>1 DEF PassedOn
<1>7. QED
  BY <1>3, <1>5, <1>6 DEF WatcherInv

LEMMA ArriveKeeps ==
  ASSUME StreamInv, NEW w \in Watchers, Arrive(w), UNCHANGED changeVars
  PROVE  /\ WatcherInv(w)'
         /\ shown'[w] \in Seq(Nat) /\ wire'[w] \in Seq(Nat)
<1>0. PICK s, t, u, v :
        s = shown[w] /\ t = wire[w] /\ u = Append(s, Head(t)) /\ v = Tail(t)
  OBVIOUS
<1> DEFINE l == Len(s)
           b == Len(t)
<1>1. /\ s \in Seq(Nat) /\ t \in Seq(Nat) /\ t # << >>
      /\ shown'[w] = u /\ wire'[w] = v
      /\ UNCHANGED <<conn, at, after, last, rows, pending, bus, since, pod, seqOf>>
      /\ last[w] \in Nat
  BY <1>0 DEF Arrive, StreamInv, StreamsTypeOK, changeVars
<1>2. /\ l \in Nat /\ b \in Nat /\ b # 0
      /\ \A i \in 1..l : s[i] \in Nat
      /\ \A j \in 1..b : t[j] \in Nat
  BY <1>1, ElementOfSeq, LenProperties, EmptySeq
<1>3. /\ v \in Seq(Nat)
      /\ Len(v) = b - 1
      /\ \A j \in 1..(b - 1) : v[j] = t[j + 1]
  BY <1>0, <1>1, HeadTailProperties
<1>4. /\ u \in Seq(Nat)
      /\ Len(u) = l + 1
      /\ \A i \in 1..l : u[i] = s[i]
      /\ u[l + 1] = t[1]
  <2>1. Head(t) = t[1] /\ Head(t) \in Nat
    BY <1>1, <1>2
  <2>2. QED
    BY <1>0, <1>1, <2>1
<1>5. WatcherInv(w) /\ conn[w] \in {"closed", "subscribed", "read", "live"}
  BY DEF StreamInv, StreamsTypeOK
<1>6. conn[w] = "live"
  BY <1>0, <1>1, <1>5 DEF WatcherInv, InOrder, HeldBack
<1>7. /\ \A i, j \in 1..l : i < j => s[i] < s[j]
      /\ \A i, j \in 1..b : i < j => t[i] < t[j]
      /\ \A i \in 1..l : \A j \in 1..b : s[i] < t[j]
      /\ \A i \in 1..l : s[i] <= last[w]
      /\ \A j \in 1..b : t[j] <= last[w]
  BY <1>0, <1>5, <1>6 DEF WatcherInv, InOrder, Increasing, AllUpTo
<1>8. /\ \A e : Has(s, e) => Has(u, e)
      /\ \A e : Has(t, e) => Has(u, e) \/ Has(v, e)
  <2> HIDE DEF l, b
  <2>1. ASSUME NEW e, NEW i \in 1..l, s[i] = e PROVE \E j \in 1..(l + 1) : u[j] = e
    <3>1. i \in 1..(l + 1)
      BY <1>2
    <3>2. QED
      BY <1>4, <2>1, <3>1
  <2>2. ASSUME NEW e, NEW j \in 1..b, t[j] = e
        PROVE  (\E i \in 1..(l + 1) : u[i] = e) \/ (\E i \in 1..(b - 1) : v[i] = e)
    <3>1. CASE j = 1
      <4>1. PICK i \in 1..(l + 1) : i = l + 1
        BY <1>2
      <4>2. QED
        BY <1>4, <2>2, <3>1, <4>1
    <3>2. CASE j # 1
      <4>1. PICK i \in 1..(b - 1) : i + 1 = j
        <5>1. j - 1 \in 1..(b - 1) /\ j - 1 + 1 = j
          BY <1>2, <3>2
        <5>2. QED
          BY <5>1
      <4>2. QED
        BY <1>3, <2>2, <4>1
    <3>3. QED
      BY <3>1, <3>2
  <2>3. QED
    BY <1>3, <1>4, <2>1, <2>2 DEF Has, l, b
<1> HIDE DEF l, b
<1>9. \A i \in 1..(l + 1) : i \in 1..l \/ i = l + 1
  BY <1>2
<1>10. \A j \in 1..(b - 1) : j + 1 \in 1..b /\ 1 < j + 1
  BY <1>2
<1>11. 1 \in 1..b
  BY <1>2
<1>12. ASSUME NEW i \in 1..(l + 1), NEW j \in 1..(l + 1), i < j PROVE u[i] < u[j]
  <2>1. i \in 1..l
    BY <1>2, <1>12
  <2>2. CASE j \in 1..l
    BY <1>4, <1>7, <1>12, <2>1, <2>2
  <2>3. CASE j = l + 1
    BY <1>4, <1>7, <1>11, <2>1, <2>3
  <2>4. QED
    BY <1>9, <2>2, <2>3
<1>13. ASSUME NEW i \in 1..(b - 1), NEW j \in 1..(b - 1), i < j PROVE v[i] < v[j]
  <2>1. i + 1 < j + 1
    BY <1>13
  <2>2. t[i + 1] < t[j + 1]
    BY <1>7, <1>10, <2>1
  <2>3. QED
    BY <1>3, <2>2
<1>14. ASSUME NEW i \in 1..(l + 1), NEW j \in 1..(b - 1) PROVE u[i] < v[j]
  <2>1. CASE i \in 1..l
    BY <1>3, <1>4, <1>7, <1>10, <2>1
  <2>2. CASE i = l + 1
    BY <1>3, <1>4, <1>7, <1>10, <1>11, <2>2
  <2>3. QED
    BY <1>9, <2>1, <2>2
<1>15. /\ \A i \in 1..(l + 1) : u[i] <= last[w]
       /\ \A j \in 1..(b - 1) : v[j] <= last[w]
  BY <1>3, <1>4, <1>7, <1>9, <1>10, <1>11
<1>16. InOrder(w)'
  BY <1>1, <1>3, <1>4, <1>6, <1>12, <1>13, <1>14, <1>15
     DEF InOrder, HeldBack, Increasing, AllUpTo
<1>17. KeptInOrder(w)'
  BY <1>1, <1>6 DEF KeptInOrder, HeldBack
<1>18. PassedOn(w)'
  <2>1. Heard(w)' = Heard(w) /\ \A i : Says(i)' = Says(i)
    BY <1>1 DEF Heard, Says
  <2>2. \A e : InTurn(w, e)' <=> InTurn(w, e)
    BY <2>1 DEF InTurn
  <2>3. \A e : Gets(w, e) => Gets(w, e)'
    BY <1>0, <1>1, <1>8 DEF Gets
  <2>4. /\ last[w] \in {after[w], rows[w]} \/ \E i \in Heard(w) : Says(i) = last[w]
        /\ \A n \in Nat : n > after[w] /\ (n <= rows[w] \/ InTurn(w, n)) => Gets(w, n)
    BY <1>5, <1>6 DEF WatcherInv, PassedOn
  <2>5. \A n \in Nat : n > after[w] /\ (n <= rows[w] \/ InTurn(w, n)') => Gets(w, n)'
    BY <2>2, <2>3, <2>4
  <2>6. QED
    BY <1>1, <2>1, <2>4, <2>5 DEF PassedOn
<1>19. QED
  BY <1>1, <1>3, <1>4, <1>16, <1>17, <1>18 DEF WatcherInv

LEMMA CloseKeeps ==
  ASSUME StreamInv, NEW W, Close(W), pod' = pod, seqOf' = seqOf, NEW w \in Watchers
  PROVE  WatcherInv(w)'
<1>1. WatcherInv(w)
  BY DEF StreamInv
<1>2. UNCHANGED <<shown, bus>>
  BY DEF Close
<1>3. CASE w \in W
  <2>1. conn'[w] = "closed" /\ wire'[w] = << >> /\ pending'[w] = << >>
    BY <1>3 DEF Close
  <2>2. Increasing(shown[w]) /\ Len(<< >>) = 0 /\ 1..0 = {}
    BY <1>1 DEF WatcherInv, InOrder
  <2>3. InOrder(w)'
    BY <1>2, <2>1, <2>2 DEF InOrder, HeldBack, Increasing
  <2>4. KeptInOrder(w)' /\ PassedOn(w)'
    BY <2>1 DEF KeptInOrder, PassedOn, HeldBack
  <2>5. QED
    BY <2>3, <2>4 DEF WatcherInv
<1>4. CASE w \notin W
  <2>1. /\ conn'[w] = conn[w] /\ at'[w] = at[w] /\ after'[w] = after[w]
        /\ last'[w] = last[w] /\ rows'[w] = rows[w] /\ pending'[w] = pending[w]
        /\ wire'[w] = wire[w] /\ since'[w] = since[w]
    BY <1>4 DEF Close
  <2>2. Heard(w)' = Heard(w) /\ \A i : Says(i)' = Says(i)
    BY <1>2, <2>1 DEF Heard, Says
  <2>3. QED
    BY <1>1, <1>2, <2>1, <2>2, WatcherSame
<1>5. QED
  BY <1>3, <1>4

\* A step of one stream.
LEMMA OneStreamKeeps ==
  ASSUME StreamInv, UNCHANGED changeVars, NEW w \in Watchers,
         (\E q \in Pods : Connect(w, q)) \/ ReadHistory(w) \/ Replay(w) \/ Arrive(w)
  PROVE  StreamsHold'
<1>1. StreamsTypeOK /\ BusHolds /\ \A v \in Watchers : WatcherInv(v)
  BY DEF StreamInv
<1>2. UNCHANGED <<log, step, pod, seqOf>>
  BY DEF changeVars
<1>3. bus' = bus
  BY DEF Connect, ReadHistory, Replay, Arrive
<1>4. \A v \in Watchers : since'[v] \in {since[v], Len(bus)}
  BY <1>1 DEF Connect, ReadHistory, Replay, Arrive, StreamsTypeOK
<1>5. Len(bus) \in Nat /\ \A i \in 1..Len(bus) : bus[i] \in Changes
  BY <1>1, ElementOfSeq, LenProperties DEF StreamsTypeOK
<1>6. BusHolds'
  <2>1. \A v \in Watchers : since'[v] <= Len(bus)
    BY <1>1, <1>4, <1>5 DEF BusHolds
  <2>2. QED
    BY <1>1, <1>2, <1>3, <2>1 DEF BusHolds
<1>7. ASSUME NEW v \in Watchers, v # w PROVE WatcherInv(v)'
  <2>1. /\ conn'[v] = conn[v] /\ at'[v] = at[v] /\ after'[v] = after[v]
        /\ last'[v] = last[v] /\ rows'[v] = rows[v] /\ pending'[v] = pending[v]
        /\ wire'[v] = wire[v] /\ shown'[v] = shown[v] /\ since'[v] = since[v]
    BY <1>1, <1>7 DEF Connect, ReadHistory, Replay, Arrive, StreamsTypeOK
  <2>2. Heard(v)' = Heard(v) /\ \A i : Says(i)' = Says(i)
    BY <1>2, <1>3, <2>1 DEF Heard, Says
  <2>3. QED
    BY <1>1, <2>1, <2>2, WatcherSame
<1>8. ASSUME NEW q \in Pods, Connect(w, q) PROVE WatcherInv(w)' /\ StreamsTypeOK'
  <2>1. WatcherInv(w)' /\ LastEventId(w) \in Nat
    BY <1>8, ConnectKeeps
  <2>2. StreamsTypeOK'
    BY <1>1, <1>5, <1>8, <2>1 DEF Connect, StreamsTypeOK
  <2>3. QED
    BY <2>1, <2>2
<1>9. ASSUME ReadHistory(w) PROVE WatcherInv(w)' /\ StreamsTypeOK'
  <2>1. Len(log[WatchOf[w]]) \in Nat
    BY RealtimeAssumption, LenProperties DEF StreamInv, ChangesInv, ChangesTypeOK
  <2>2. StreamsTypeOK'
    BY <1>1, <1>9, <2>1 DEF ReadHistory, StreamsTypeOK
  <2>3. QED
    BY <1>9, <2>2, ReadKeeps
<1>10. ASSUME Replay(w) PROVE WatcherInv(w)' /\ StreamsTypeOK'
  <2>1. WatcherInv(w)' /\ last'[w] \in Nat /\ wire'[w] \in Seq(Nat)
    BY <1>10, ReplayKeeps
  <2>2. /\ UNCHANGED <<at, after, rows, shown, since, bus>>
        /\ conn' = [conn EXCEPT ![w] = "live"]
        /\ pending' = [pending EXCEPT ![w] = << >>]
        /\ \E x : last' = [last EXCEPT ![w] = x]
        /\ \E x : wire' = [wire EXCEPT ![w] = x]
    BY <1>10 DEF Replay
  <2>3. last' \in [Watchers -> Nat] /\ wire' \in [Watchers -> Seq(Nat)]
    BY <1>1, <2>1, <2>2 DEF StreamsTypeOK
  <2>4. StreamsTypeOK'
    BY <1>1, <2>2, <2>3 DEF StreamsTypeOK
  <2>5. QED
    BY <2>1, <2>4
<1>11. ASSUME Arrive(w) PROVE WatcherInv(w)' /\ StreamsTypeOK'
  <2>1. WatcherInv(w)' /\ shown'[w] \in Seq(Nat) /\ wire'[w] \in Seq(Nat)
    BY <1>11, ArriveKeeps
  <2>2. /\ UNCHANGED <<conn, at, after, last, pending, rows, since, bus>>
        /\ \E x : shown' = [shown EXCEPT ![w] = x]
        /\ \E x : wire' = [wire EXCEPT ![w] = x]
    BY <1>11 DEF Arrive
  <2>3. shown' \in [Watchers -> Seq(Nat)] /\ wire' \in [Watchers -> Seq(Nat)]
    BY <1>1, <2>1, <2>2 DEF StreamsTypeOK
  <2>4. StreamsTypeOK'
    BY <1>1, <2>2, <2>3 DEF StreamsTypeOK
  <2>5. QED
    BY <2>1, <2>4
<1>12. QED
  BY <1>6, <1>7, <1>8, <1>9, <1>10, <1>11 DEF StreamsHold

\* Streams that end, on their own or with their process.
LEMMA ManyStreamsKeep ==
  ASSUME StreamInv, NEW W, Close(W), pod' = pod, seqOf' = seqOf, log' = log,
         \A x \in Changes : step'[x] \in {step[x], "lost"},
         \A x \in Changes : step[x] = "published" => step'[x] = "published"
  PROVE  StreamsHold'
<1>1. StreamsTypeOK /\ BusHolds
  BY DEF StreamInv
<1>2. bus' = bus /\ shown' = shown
  BY DEF Close
<1>3. Len(bus) \in Nat /\ \A i \in 1..Len(bus) : bus[i] \in Changes
  BY <1>1, ElementOfSeq, LenProperties DEF StreamsTypeOK
<1>4. StreamsTypeOK'
  <2>1. << >> \in Seq(Nat)
    OBVIOUS
  <2>2. /\ conn' \in [Watchers -> {"closed", "subscribed", "read", "live"}]
        /\ at' \in [Watchers -> Pods \union {NoPod}]
    BY <1>1 DEF Close, StreamsTypeOK
  <2>3. /\ after' \in [Watchers -> Nat]
        /\ last' \in [Watchers -> Nat]
        /\ rows' \in [Watchers -> Nat]
        /\ since' \in [Watchers -> Nat]
    BY <1>1 DEF Close, StreamsTypeOK
  <2>4. pending' \in [Watchers -> Seq(Nat)] /\ wire' \in [Watchers -> Seq(Nat)]
    BY <1>1, <2>1 DEF Close, StreamsTypeOK
  <2>5. QED
    BY <1>1, <1>2, <2>2, <2>3, <2>4 DEF StreamsTypeOK
<1>5. BusHolds'
  <2>1. \A v \in Watchers : since'[v] <= Len(bus)
    BY <1>1, <1>3 DEF Close, BusHolds
  <2>2. QED
    BY <1>1, <1>2, <1>3, <2>1 DEF BusHolds
<1>6. \A v \in Watchers : WatcherInv(v)'
  BY CloseKeeps
<1>7. QED
  BY <1>4, <1>5, <1>6 DEF StreamsHold

-----------------------------------------------------------------------------

LEMMA StreamsStart == Init => StreamInv
<1> SUFFICES ASSUME Init PROVE StreamInv
  OBVIOUS
<1>1. ChangesInv
  BY ChangesStart DEF Init
<1>2. << >> \in Seq(Nat) /\ << >> \in Seq(Changes) /\ Len(<< >>) = 0 /\ 1..0 = {}
  OBVIOUS
<1>3. StreamsTypeOK
  BY <1>2 DEF Init, StreamInit, StreamsTypeOK
<1>4. BusHolds
  BY <1>2 DEF Init, StreamInit, ChangesInit, BusHolds
<1>5. ASSUME NEW w \in Watchers PROVE WatcherInv(w)
  <2>1. conn[w] = "closed" /\ shown[w] = << >> /\ wire[w] = << >> /\ pending[w] = << >>
    BY <1>5 DEF Init, StreamInit
  <2>2. InOrder(w)
    BY <1>2, <2>1 DEF InOrder, HeldBack, Increasing
  <2>3. QED
    BY <2>1, <2>2 DEF WatcherInv, KeptInOrder, PassedOn, HeldBack
<1>6. QED
  BY <1>1, <1>3, <1>4, <1>5 DEF StreamInv

LEMMA StreamsStep == StreamInv /\ [Next]_vars => StreamInv'
<1> SUFFICES ASSUME StreamInv, [Next]_vars PROVE StreamInv'
  OBVIOUS
<1>1. ChangesInv'
  BY ChangesStep DEF StreamInv
<1> SUFFICES StreamsHold'
  BY <1>1 DEF StreamInv, StreamsHold
<1>2. StreamsTypeOK /\ BusHolds /\ \A v \in Watchers : WatcherInv(v)
  BY DEF StreamInv
<1>3. ASSUME UNCHANGED <<changeVars, streamVars>> PROVE StreamsHold'
  <2>1. StreamsTypeOK' /\ BusHolds'
    BY <1>2, <1>3 DEF changeVars, streamVars, StreamsTypeOK, BusHolds
  <2>2. ASSUME NEW v \in Watchers PROVE WatcherInv(v)'
    <3>1. Heard(v)' = Heard(v) /\ \A i : Says(i)' = Says(i)
      BY <1>3 DEF changeVars, streamVars, Heard, Says
    <3>2. QED
      BY <1>2, <1>3, <3>1, WatcherSame DEF streamVars
  <2>3. QED
    BY <2>1, <2>2 DEF StreamsHold
<1>4. ASSUME NEW x \in Changes, Write(x) PROVE StreamsHold'
  <2>1. BusHolds' /\ \A i \in 1..Len(bus) : Says(i)' = Says(i)
    BY <1>4, WriteKeepsBus
  <2>2. UNCHANGED streamVars /\ pod' = pod
    BY <1>4 DEF Write, Lock, Refuse, Commit, CommitUnheard, Records, Fail
  <2>3. StreamsTypeOK'
    BY <1>2, <2>2 DEF streamVars, StreamsTypeOK
  <2>4. ASSUME NEW v \in Watchers PROVE WatcherInv(v)'
    <3>1. Heard(v)' = Heard(v)
      BY <2>2 DEF streamVars, Heard
    <3>2. \A i \in Heard(v) : Says(i)' = Says(i)
      BY <2>1, HeardFacts
    <3>3. QED
      BY <1>2, <2>2, <3>1, <3>2, WatcherSame DEF streamVars
  <2>5. QED
    BY <2>1, <2>3, <2>4 DEF StreamsHold
<1>5. ASSUME NEW x \in Changes, Announce(x) PROVE StreamsHold'
  <2>1. BusHolds' /\ bus' \in Seq(Changes)
    BY <1>5, AnnounceHears
  <2>2. \A v \in Watchers : /\ WatcherInv(v)'
                            /\ last'[v] \in Nat
                            /\ wire'[v] \in Seq(Nat)
                            /\ pending'[v] \in Seq(Nat)
    BY <1>5, AnnounceKeeps
  <2>3. /\ UNCHANGED <<conn, at, after, rows, shown, since>>
        /\ \E f : last' = [v \in Watchers |-> f[v]]
        /\ \E f : wire' = [v \in Watchers |-> f[v]]
        /\ \E f : pending' = [v \in Watchers |-> f[v]]
    <3>1. UNCHANGED <<conn, at, after, rows, shown, since>>
      BY <1>5 DEF Announce, Hear
    <3>2. /\ last' = [v \in Watchers |-> last'[v]]
          /\ wire' = [v \in Watchers |-> wire'[v]]
          /\ pending' = [v \in Watchers |-> pending'[v]]
      BY <1>5 DEF Announce, Hear
    <3>3. QED
      BY <3>1, <3>2
  <2>4. /\ last' \in [Watchers -> Nat]
        /\ wire' \in [Watchers -> Seq(Nat)]
        /\ pending' \in [Watchers -> Seq(Nat)]
    BY <2>2, <2>3
  <2>5. StreamsTypeOK'
    BY <1>2, <2>1, <2>3, <2>4 DEF StreamsTypeOK
  <2>6. QED
    BY <2>1, <2>2, <2>5 DEF StreamsHold
<1>6. ASSUME StreamNext, UNCHANGED changeVars PROVE StreamsHold'
  <2>1. PICK w \in Watchers :
          \/ (\E q \in Pods : Connect(w, q)) \/ ReadHistory(w) \/ Replay(w) \/ Arrive(w)
          \/ Disconnect(w)
    BY <1>6 DEF StreamNext
  <2>2. CASE Disconnect(w)
    <3>1. Close({w}) /\ UNCHANGED <<log, step, pod, seqOf>>
      BY <1>6, <2>2 DEF Disconnect, changeVars
    <3>2. QED
      BY <3>1, ManyStreamsKeep
  <2>3. QED
    BY <1>6, <2>1, <2>2, OneStreamKeeps
<1>7. ASSUME NEW q, Down(q) PROVE StreamsHold'
  <2>1. /\ Close({v \in Watchers : at[v] = q})
        /\ UNCHANGED <<log, pod, seqOf>>
        /\ \A x \in Changes : step'[x] \in {step[x], "lost"}
        /\ \A x \in Changes : step[x] = "published" => step'[x] = "published"
    BY <1>7 DEF Down, Crash
  <2>2. QED
    BY <2>1, ManyStreamsKeep
<1>8. QED
  BY <1>3, <1>4, <1>5, <1>6, <1>7 DEF Next, HistoryFails, vars

\* A client gets the events of its order in the order they were recorded and
\* none twice, over all its connections, however changes, streams, reconnects
\* and crashes interleave (stream, deliver, Last-Event-ID).
THEOREM StreamsInOrder == Spec => []InOrderOnce
<1>1. StreamInv => InOrderOnce
  <2> SUFFICES ASSUME StreamInv, NEW w \in Watchers, NEW i \in 2..Len(shown[w])
               PROVE  shown[w][i - 1] < shown[w][i]
    BY DEF InOrderOnce
  <2>1. Increasing(shown[w])
    BY DEF StreamInv, WatcherInv, InOrder
  <2>2. Len(shown[w]) \in Nat
    BY LenProperties DEF StreamInv, StreamsTypeOK
  <2>3. i - 1 \in 1..Len(shown[w]) /\ i \in 1..Len(shown[w]) /\ i - 1 < i
    BY <2>2
  <2>4. QED
    BY <2>1, <2>3 DEF Increasing
<1>2. QED
  BY <1>1, StreamsStart, StreamsStep, PTL DEF Spec

\* A live stream has passed on what it owes: the invariant says so.
LEMMA StreamPassesOn == StreamInv => NothingBetween
<1> SUFFICES ASSUME StreamInv, NEW w \in Watchers, conn[w] = "live",
                    NEW n \in after[w] + 1 .. Len(log[WatchOf[w]]), Owed(w, n)
             PROVE  n \in OnItsWay(w)
  BY DEF NothingBetween
<1> DEFINE l == Len(log[WatchOf[w]])
<1>1. after[w] \in Nat /\ l \in Nat
  BY RealtimeAssumption, LenProperties
     DEF StreamInv, StreamsTypeOK, ChangesInv, ChangesTypeOK
<1>2. n \in Nat /\ n > after[w]
  BY <1>1
<1>3. \A e : HeardAt(w, e) = {i \in Heard(w) : Says(i) = e}
  BY DEF HeardAt, Heard, Says
<1>4. n <= rows[w] \/ InTurn(w, n)
  <2>1. SUFFICES ASSUME NEW i \in HeardAt(w, n),
                        ~\E m \in n + 1 .. l : \E j \in HeardAt(w, m) : j < i
                 PROVE  InTurn(w, n)
    BY DEF Owed
  <2>2. i \in Heard(w) /\ Says(i) = n
    BY <1>3
  <2>3. ASSUME NEW j \in Heard(w), j < i PROVE Says(j) <= n
    <3>1. Says(j) \in 1..l
      BY HeardFacts
    <3>2. j \in HeardAt(w, Says(j))
      BY <1>3
    <3>3. Says(j) \notin n + 1 .. l
      BY <2>1, <2>3, <3>2
    <3> HIDE DEF l
    <3>4. QED
      BY <1>1, <1>2, <3>1, <3>3
  <2>4. QED
    BY <2>2, <2>3 DEF InTurn
<1>5. Gets(w, n)
  BY <1>2, <1>4 DEF StreamInv, WatcherInv, PassedOn
<1>6. shown[w] \in Seq(Nat) /\ wire[w] \in Seq(Nat)
  BY DEF StreamInv, StreamsTypeOK
<1>7. QED
  BY <1>5, <1>6, RangeOfSeq, LenProperties DEF Gets, Has, OnItsWay, Range

\* A live stream has passed on all its history query saw and all it has heard
\* in turn since (subscribe before the read, pending, replay).
THEOREM NothingFallsBetween == Spec => []NothingBetween
  BY StreamPassesOn, StreamsStart, StreamsStep, PTL DEF Spec

-----------------------------------------------------------------------------
(* Streams that are not at rest.                                           *)

\* What StreamCatchesUp waits for.
CaughtUp(w) ==
  /\ conn[w] = "live"
  /\ \A n \in 1..Len(log[WatchOf[w]]) : Owed(w, n) => n <= LastEventId(w)

\* The guards of ReadHistory(w), Replay(w) and Arrive(w).
StreamReady(w) == conn[w] \in {"subscribed", "read"} \/ wire[w] # << >>

\* An open stream that has something to show its client has a step to take.
StreamsRun ==
  \A w \in Watchers : conn[w] # "closed" /\ ~CaughtUp(w) => StreamReady(w)

\* The client of an open stream has all it said it has.
Rejoined(w) == conn[w] # "closed" => after[w] <= LastEventId(w)

\* A client that gets an event has a newer last one.
LEMMA ArriveIsNewer ==
  ASSUME StreamInv, NEW w \in Watchers, Arrive(w)
  PROVE  LastEventId(w)' \in Nat /\ LastEventId(w) <= LastEventId(w)'
<1>0. PICK s, t, u : s = shown[w] /\ t = wire[w] /\ u = Append(s, Head(t))
  OBVIOUS
<1> DEFINE l == Len(s)
<1>1. /\ s \in Seq(Nat) /\ t \in Seq(Nat) /\ t # << >>
      /\ shown'[w] = u
  BY <1>0 DEF Arrive, StreamInv, StreamsTypeOK
<1>2. /\ l \in Nat /\ Len(t) \in Nat /\ Len(t) # 0
      /\ \A i \in 1..l : s[i] \in Nat
      /\ \A j \in 1..Len(t) : t[j] \in Nat
      /\ \A i \in 1..l : \A j \in 1..Len(t) : s[i] < t[j]
  BY <1>0, <1>1, ElementOfSeq, LenProperties, EmptySeq DEF StreamInv, WatcherInv, InOrder
<1>3. Head(t) = t[1] /\ 1 \in 1..Len(t) /\ Head(t) \in Nat
  BY <1>1, <1>2
<1>4. u # << >> /\ Len(u) = l + 1 /\ u[l + 1] = Head(t)
  BY <1>0, <1>1, <1>3, AppendProperties
<1>5. LastEventId(w)' = Head(t)
  BY <1>1, <1>4 DEF LastEventId, Last
<1>6. LastEventId(w) = IF l = 0 THEN 0 ELSE s[l]
  BY <1>0, <1>1, EmptySeq DEF LastEventId, Last
<1> HIDE DEF l
<1>7. l # 0 => l \in 1..l
  BY <1>2
<1>8. QED
  BY <1>2, <1>3, <1>5, <1>6, <1>7

LEMMA RejoinedStep ==
  ASSUME StreamInv, [Next]_vars, NEW w \in Watchers, Rejoined(w)
  PROVE  Rejoined(w)'
<1> USE DEF Rejoined
<1>1. after[w] \in Nat /\ LastEventId(w) \in Nat
  BY LastSeen DEF StreamInv, StreamsTypeOK
<1>2. ASSUME UNCHANGED <<conn[w], after[w], shown[w]>> PROVE Rejoined(w)'
  BY <1>2 DEF LastEventId
<1>3. ASSUME NEW v \in Watchers, NEW p \in Pods, Connect(v, p) PROVE Rejoined(w)'
  <2>1. /\ after'[w] = IF v = w THEN LastEventId(w) ELSE after[w]
        /\ v # w => conn'[w] = conn[w]
        /\ shown' = shown
    BY <1>3 DEF Connect, StreamInv, StreamsTypeOK
  <2>2. LastEventId(w)' = LastEventId(w)
    BY <2>1 DEF LastEventId
  <2>3. QED
    BY <1>1, <2>1, <2>2
<1>4. ASSUME NEW v \in Watchers, ReadHistory(v) \/ Replay(v) PROVE Rejoined(w)'
  <2>1. conn[v] # "closed" /\ UNCHANGED <<after, shown>> /\ (v # w => conn'[w] = conn[w])
    BY <1>4 DEF ReadHistory, Replay, StreamInv, StreamsTypeOK
  <2>2. LastEventId(w)' = LastEventId(w)
    BY <2>1 DEF LastEventId
  <2>3. QED
    BY <2>1, <2>2
<1>5. ASSUME NEW v \in Watchers, Arrive(v) PROVE Rejoined(w)'
  <2>1. CASE v = w
    <3>1. UNCHANGED <<conn, after>>
      BY <1>5 DEF Arrive
    <3>2. LastEventId(w)' \in Nat /\ LastEventId(w) <= LastEventId(w)'
      BY <1>5, <2>1, ArriveIsNewer
    <3>3. QED
      BY <1>1, <3>1, <3>2
  <2>2. CASE v # w
    BY <1>2, <1>5, <2>2 DEF Arrive, StreamInv, StreamsTypeOK
  <2>3. QED
    BY <2>1, <2>2
<1>6. ASSUME NEW W, Close(W) PROVE Rejoined(w)'
  <2>1. shown' = shown /\ (w \in W => conn'[w] = "closed")
        /\ (w \notin W => conn'[w] = conn[w] /\ after'[w] = after[w])
    BY <1>6 DEF Close
  <2>2. LastEventId(w)' = LastEventId(w)
    BY <2>1 DEF LastEventId
  <2>3. QED
    BY <2>1, <2>2
<1>7. ASSUME NEW x \in Changes, Announce(x) PROVE Rejoined(w)'
  BY <1>2, <1>7 DEF Announce, Hear
<1>8. ASSUME UNCHANGED streamVars PROVE Rejoined(w)'
  BY <1>2, <1>8 DEF streamVars
<1>9. QED
  BY <1>3, <1>4, <1>5, <1>6, <1>7, <1>8
     DEF Next, StreamNext, Write, Disconnect, Down, HistoryFails, vars

\* A stream at rest is up to date: one that has nothing to read, to replay or
\* on the wire has shown its client the newest event it owes, so an open
\* stream that has not always has a step of its own to take (stream, deliver).
THEOREM StreamsGoOn == Spec => []StreamsRun
<1> DEFINE RestInv == StreamInv /\ \A w \in Watchers : Rejoined(w)
<1>1. Init => RestInv
  BY StreamsStart DEF Init, StreamInit, Rejoined
<1>2. RestInv /\ [Next]_vars => RestInv'
  BY StreamsStep, RejoinedStep
<1>3. RestInv => StreamsRun
  <2> SUFFICES ASSUME RestInv, NEW w \in Watchers,
                      conn[w] = "live", wire[w] = << >>,
                      NEW n \in 1..Len(log[WatchOf[w]]), Owed(w, n)
               PROVE  n <= LastEventId(w)
    <3>1. ASSUME RestInv, NEW w \in Watchers, conn[w] # "closed", ~StreamReady(w)
          PROVE  conn[w] = "live" /\ wire[w] = << >>
      BY <3>1 DEF StreamReady, StreamInv, StreamsTypeOK
    <3>2. QED
      BY <3>1 DEF StreamsRun, CaughtUp
  <2> DEFINE l == Len(log[WatchOf[w]])
  <2>1. after[w] \in Nat /\ l \in Nat /\ shown[w] \in Seq(Nat) /\ LastEventId(w) \in Nat
    BY RealtimeAssumption, LenProperties, LastSeen
       DEF StreamInv, StreamsTypeOK, ChangesInv, ChangesTypeOK
  <2>2. CASE n <= after[w]
    BY <2>1, <2>2 DEF Rejoined
  <2>3. CASE n \in after[w] + 1 .. l
    <3>1. n \in OnItsWay(w)
      BY <2>3, StreamPassesOn DEF NothingBetween
    <3>2. n \in Range(shown[w])
      BY <3>1 DEF OnItsWay, Range
    <3>3. QED
      BY <2>1, <3>2, RangeOfSeq, LastSeen DEF Range
  <2>4. QED
    BY <2>1, <2>2, <2>3
<1>4. QED
  BY <1>1, <1>2, <1>3, PTL DEF Spec

-----------------------------------------------------------------------------
(* The feed behind the streams.                                            *)

Positive(s) == \A i \in 1..Len(s) : 0 < s[i]

\* Nothing is asked for, read or shown that is not in the history.
Recorded(w) ==
  /\ after[w] <= Len(log[WatchOf[w]])
  /\ rows[w] <= Len(log[WatchOf[w]])
  /\ AllUpTo(shown[w], Len(log[WatchOf[w]]))
  /\ Positive(wire[w])

FeedInv == StreamInv /\ \A w \in Watchers : Recorded(w)

LEMMA FeedStart == Init => FeedInv
<1> SUFFICES ASSUME Init PROVE FeedInv
  OBVIOUS
<1>1. StreamInv
  BY StreamsStart
<1>2. ASSUME NEW w \in Watchers PROVE Recorded(w)
  <2>1. shown[w] = << >> /\ wire[w] = << >> /\ after[w] = 0 /\ rows[w] = 0
    BY DEF Init, StreamInit
  <2>2. Len(log[WatchOf[w]]) \in Nat /\ Len(<< >>) = 0 /\ 1..0 = {}
    BY <1>1, RealtimeAssumption, LenProperties DEF StreamInv, ChangesInv, ChangesTypeOK
  <2>3. QED
    BY <2>1, <2>2 DEF Recorded, AllUpTo, Positive
<1>3. QED
  BY <1>1, <1>2 DEF FeedInv

\* The history of an order grows, by one event at a time.
LEMMA HistoryGrows ==
  ASSUME StreamInv, [Next]_vars
  PROVE  \/ log' = log
         \/ shown' = shown /\ \E o \in Orders : Feed!Record(o)
<1>1. ASSUME NEW x \in Changes, Records(x), UNCHANGED streamVars
      PROVE  shown' = shown /\ \E o \in Orders : Feed!Record(o)
  <2>1. OrderOf[x] \in Orders /\ NextOf[x] \in OrderStatus /\ seen[x] \in OrderStatus
    BY <1>1, ChangesAssumption DEF Records, StreamInv, ChangesInv, ChangesTypeOK, LocksFresh
  <2>2. [status |-> NextOf[x], previous |-> seen[x]] \in OrderEvent
    BY <2>1 DEF OrderEvent
  <2>3. shown' = shown
    BY <1>1 DEF streamVars
  <2>4. Feed!Record(OrderOf[x])
    BY <1>1, <2>2, <2>3 DEF Records, Feed!Record
  <2>5. QED
    BY <2>1, <2>3, <2>4
<1>2. ASSUME NEW x \in Changes, Write(x), ~Records(x) PROVE log' = log
  BY <1>2 DEF Write, Lock, Refuse, Commit, CommitUnheard, Fail
<1>3. ASSUME NEW x \in Changes, Announce(x) PROVE log' = log
  BY <1>3 DEF Announce, Publish
<1>4. ASSUME UNCHANGED changeVars PROVE log' = log
  BY <1>4 DEF changeVars
<1>5. ASSUME NEW q, Down(q) PROVE log' = log
  BY <1>5 DEF Down, Crash
<1>6. QED
  BY <1>1, <1>2, <1>3, <1>4, <1>5 DEF Next, Write, HistoryFails, vars

LEMMA HistoryLonger ==
  ASSUME StreamInv, [Next]_vars, NEW o \in Orders
  PROVE  /\ Len(log[o]) \in Nat /\ Len(log'[o]) \in Nat
         /\ Len(log[o]) <= Len(log'[o])
<1>1. log \in [Orders -> Seq(OrderEvent)] /\ Len(log[o]) \in Nat
  BY LenProperties DEF StreamInv, ChangesInv, ChangesTypeOK
<1>2. CASE log' = log
  BY <1>1, <1>2
<1>3. CASE \E p \in Orders : Feed!Record(p)
  <2>1. PICK p \in Orders, e \in OrderEvent : log' = [log EXCEPT ![p] = Append(@, e)]
    BY <1>3 DEF Feed!Record
  <2>2. log'[o] = log[o] \/ (log'[o] = Append(log[o], e) /\ log[o] \in Seq(OrderEvent))
    BY <1>1, <2>1
  <2>3. QED
    BY <1>1, <2>2
<1>4. QED
  BY <1>2, <1>3, HistoryGrows

LEMMA DeliveredPositive ==
  ASSUME NEW w, last[w] \in Nat, wire[w] \in Seq(Nat), Positive(wire[w]), NEW ids \in Seq(Nat)
  PROVE  Positive(Delivered(w, ids).out)
<1> DEFINE base == [last |-> last[w], out |-> wire[w]]
           acc == Delivered(w, ids)
           b == Len(wire[w])
<1>1. Follows(acc, base, ids, Len(ids)) /\ base.last = last[w] /\ base.out = wire[w]
  BY DeliveredFollows
<1> HIDE DEF acc, base
<1>2. /\ acc.out \in Seq(Nat)
      /\ \A i \in 1..b : acc.out[i] = wire[w][i]
      /\ \A i \in b + 1 .. Len(acc.out) : last[w] < acc.out[i]
  BY <1>1 DEF Follows, Stream
<1>3. Len(acc.out) \in Nat /\ b \in Nat /\ \A i \in 1..Len(acc.out) : acc.out[i] \in Nat
  BY <1>2, LenProperties, ElementOfSeq
<1> HIDE DEF b
<1>4. ASSUME NEW i \in 1..Len(acc.out) PROVE 0 < acc.out[i]
  <2>1. CASE i \in 1..b
    BY <1>2, <2>1 DEF Positive, b
  <2>2. CASE i \in b + 1 .. Len(acc.out)
    BY <1>2, <1>3, <2>2
  <2>3. QED
    BY <1>3, <2>1, <2>2
<1>5. QED
  BY <1>4 DEF Positive, acc

\* A live stream is not ahead of the history.
LEMMA LastRecorded ==
  ASSUME FeedInv, NEW w \in Watchers, conn[w] = "live"
  PROVE  last[w] <= Len(log[WatchOf[w]])
<1>1. Recorded(w) /\ PassedOn(w) /\ StreamInv
  BY DEF FeedInv, StreamInv, WatcherInv
<1>2. ASSUME NEW i \in Heard(w) PROVE Says(i) <= Len(log[WatchOf[w]])
  <2>1. Says(i) \in 1..Len(log[WatchOf[w]]) /\ WatchOf[w] \in Orders
    BY <1>1, <1>2, HeardFacts
  <2>2. Len(log[WatchOf[w]]) \in Nat
    BY <1>1, <2>1, LenProperties DEF StreamInv, ChangesInv, ChangesTypeOK
  <2>3. QED
    BY <2>1, <2>2
<1>3. QED
  BY <1>1, <1>2 DEF PassedOn, Recorded

\* What is written is not ahead of it either, and continues what was shown.
LEMMA WrittenRecorded ==
  ASSUME FeedInv, NEW w \in Watchers, wire[w] # << >>
  PROVE  /\ conn[w] = "live"
         /\ shown[w] \in Seq(Nat) /\ Head(wire[w]) \in Nat /\ 0 < Head(wire[w])
         /\ Head(wire[w]) <= Len(log[WatchOf[w]])
         /\ \A i \in 1..Len(shown[w]) : shown[w][i] < Head(wire[w])
<1>1. Recorded(w) /\ InOrder(w)
  BY DEF FeedInv, StreamInv, WatcherInv
<1>2. /\ conn[w] \in {"closed", "subscribed", "read", "live"}
      /\ shown[w] \in Seq(Nat) /\ wire[w] \in Seq(Nat)
      /\ last[w] \in Nat
  BY DEF FeedInv, StreamInv, StreamsTypeOK
<1>3. conn[w] = "live"
  BY <1>1, <1>2 DEF InOrder, HeldBack
<1>4. Head(wire[w]) = wire[w][1] /\ 1 \in 1..Len(wire[w]) /\ wire[w][1] \in Nat
  <2>1. Len(wire[w]) \in Nat /\ Len(wire[w]) # 0
    BY <1>2, LenProperties, EmptySeq
  <2>2. 1 \in 1..Len(wire[w])
    BY <2>1
  <2>3. QED
    BY <1>2, <2>2, ElementOfSeq
<1>5. wire[w][1] <= last[w] /\ last[w] <= Len(log[WatchOf[w]])
  BY <1>1, <1>3, <1>4, LastRecorded DEF InOrder, AllUpTo
<1>6. Len(log[WatchOf[w]]) \in Nat
  BY RealtimeAssumption, LenProperties DEF FeedInv, StreamInv, ChangesInv, ChangesTypeOK
<1>7. Head(wire[w]) <= Len(log[WatchOf[w]])
  <2> DEFINE n == Len(log[WatchOf[w]])
             h == Head(wire[w])
  <2>1. h \in Nat /\ last[w] \in Nat /\ n \in Nat /\ h <= last[w] /\ last[w] <= n
    BY <1>2, <1>4, <1>5, <1>6
  <2> HIDE DEF n, h
  <2>2. h <= n
    BY <2>1
  <2>3. QED
    BY <2>2 DEF n, h
<1>8. QED
  BY <1>1, <1>2, <1>3, <1>4, <1>7 DEF InOrder, Recorded, Positive

LEMMA RecordedStill ==
  ASSUME FeedInv, [Next]_vars, NEW w \in Watchers, Positive(wire'[w]), shown'[w] = shown[w],
         after'[w] \in {after[w], 0}, rows'[w] \in {rows[w], 0}
  PROVE  Recorded(w)'
<1> DEFINE m == Len(log[WatchOf[w]])
           n == Len(log'[WatchOf[w]])
<1>1. m \in Nat /\ n \in Nat /\ m <= n
  BY RealtimeAssumption, HistoryLonger DEF FeedInv
<1>2. after[w] <= m /\ rows[w] <= m /\ AllUpTo(shown[w], m)
  BY DEF FeedInv, Recorded
<1>3. /\ after[w] \in Nat /\ rows[w] \in Nat
      /\ \A i \in 1..Len(shown[w]) : shown[w][i] \in Nat
  BY ElementOfSeq DEF FeedInv, StreamInv, StreamsTypeOK
<1> HIDE DEF m, n
<1>4. after'[w] <= n /\ rows'[w] <= n
  BY <1>1, <1>2, <1>3
<1>5. \A i \in 1..Len(shown[w]) : shown[w][i] <= n
  BY <1>1, <1>2, <1>3 DEF AllUpTo
<1>6. QED
  BY <1>4, <1>5 DEF Recorded, AllUpTo, n

LEMMA ArriveRecorded ==
  ASSUME FeedInv, NEW w \in Watchers, Arrive(w), log' = log
  PROVE  Recorded(w)'
<1> DEFINE s == shown[w]
           t == wire[w]
           n == Len(log[WatchOf[w]])
<1>1. /\ t # << >> /\ s \in Seq(Nat) /\ t \in Seq(Nat)
      /\ shown'[w] = Append(s, Head(t)) /\ wire'[w] = Tail(t)
      /\ after'[w] = after[w] /\ rows'[w] = rows[w]
  BY DEF Arrive, FeedInv, StreamInv, StreamsTypeOK
<1>2. Head(t) \in Nat /\ Head(t) <= n
  BY <1>1, WrittenRecorded
<1>3. after[w] <= n /\ rows[w] <= n /\ AllUpTo(s, n) /\ Positive(t)
  BY DEF FeedInv, Recorded
<1> HIDE DEF s, t, n
<1>4. AllUpTo(Append(s, Head(t)), n)
  <2>1. /\ Len(Append(s, Head(t))) = Len(s) + 1 /\ Len(s) \in Nat
        /\ \A i \in 1..Len(s) : Append(s, Head(t))[i] = s[i]
        /\ Append(s, Head(t))[Len(s) + 1] = Head(t)
    BY <1>1, <1>2
  <2> DEFINE l == Len(s)
             u == Append(s, Head(t))
  <2> HIDE DEF l, u
  <2>2. \A i \in 1..(l + 1) : i \in 1..l \/ i = l + 1
    BY <2>1 DEF l
  <2>3. \A i \in 1..l : u[i] <= n
    BY <1>3, <2>1 DEF AllUpTo, l, u
  <2>4. u[l + 1] <= n /\ Len(u) = l + 1
    BY <1>2, <2>1 DEF l, u
  <2>5. QED
    BY <2>2, <2>3, <2>4 DEF AllUpTo, u
<1>5. Positive(Tail(t))
  <2>1. /\ Len(Tail(t)) = Len(t) - 1 /\ Len(t) \in Nat
        /\ \A i \in 1..(Len(t) - 1) : Tail(t)[i] = t[i + 1]
    BY <1>1, HeadTailProperties, LenProperties
  <2>2. \A i \in 1..(Len(t) - 1) : i + 1 \in 1..Len(t)
    BY <2>1
  <2>3. QED
    BY <1>3, <2>1, <2>2 DEF Positive
<1>6. QED
  BY <1>1, <1>3, <1>4, <1>5 DEF Recorded, n

\* A step of one stream.
LEMMA StreamRecorded ==
  ASSUME FeedInv, UNCHANGED <<changeVars, roomVars>>, StreamNext, [Next]_vars,
         NEW v \in Watchers
  PROVE  Recorded(v)'
<1>1. StreamsTypeOK /\ Recorded(v) /\ WatcherInv(v) /\ log' = log
  BY DEF FeedInv, StreamInv, changeVars
<1>2. Positive(wire[v]) /\ Positive(<< >>)
  BY <1>1 DEF Recorded, Positive
<1>3. PICK w \in Watchers :
        \/ (\E p \in Pods : Connect(w, p))
        \/ ReadHistory(w) \/ Replay(w) \/ Arrive(w) \/ Disconnect(w)
  BY DEF StreamNext
<1>4. CASE Disconnect(w)
  <2>1. shown' = shown /\ wire'[v] \in {wire[v], << >>}
        /\ after'[v] \in {after[v], 0} /\ rows'[v] \in {rows[v], 0}
    BY <1>4 DEF Disconnect, Close
  <2>2. QED
    BY <1>2, <2>1, RecordedStill
<1>5. CASE w # v
  <2>1. /\ after'[v] = after[v] /\ rows'[v] = rows[v]
        /\ shown'[v] = shown[v] /\ wire'[v] = wire[v]
    BY <1>1, <1>3, <1>4, <1>5 DEF Connect, ReadHistory, Replay, Arrive, StreamsTypeOK, Disconnect, Close
  <2>2. QED
    BY <1>2, <2>1, RecordedStill
<1>6. CASE w = v /\ \E p \in Pods : Connect(v, p)
  <2>1. /\ rows'[v] = rows[v] /\ shown'[v] = shown[v] /\ wire'[v] = wire[v]
        /\ after'[v] = LastEventId(v)
    BY <1>1, <1>6 DEF Connect, StreamsTypeOK
  <2>2. LastEventId(v) <= Len(log[WatchOf[v]])
    <3>1. shown[v] \in Seq(Nat) /\ Len(log[WatchOf[v]]) \in Nat
      BY <1>1, RealtimeAssumption, LenProperties DEF StreamsTypeOK, FeedInv, StreamInv, ChangesInv, ChangesTypeOK
    <3>2. CASE shown[v] = << >>
      BY <3>1, <3>2 DEF LastEventId
    <3>3. CASE shown[v] # << >>
      <4>1. Len(shown[v]) \in 1..Len(shown[v])
        BY <3>1, <3>3, LenProperties, EmptySeq
      <4>2. QED
        BY <1>1, <3>3, <4>1 DEF LastEventId, Last, Recorded, AllUpTo
    <3>4. QED
      BY <3>2, <3>3
  <2>3. QED
    BY <1>1, <2>1, <2>2 DEF Recorded
<1>7. CASE w = v /\ ReadHistory(v)
  <2>1. /\ after'[v] = after[v] /\ shown'[v] = shown[v] /\ wire'[v] = wire[v]
        /\ rows'[v] = Len(log[WatchOf[v]])
    BY <1>1, <1>7 DEF ReadHistory, StreamsTypeOK
  <2>2. Len(log[WatchOf[v]]) \in Nat
    BY RealtimeAssumption, LenProperties DEF FeedInv, StreamInv, ChangesInv, ChangesTypeOK
  <2>3. QED
    BY <1>1, <2>1, <2>2 DEF Recorded
<1>8. CASE w = v /\ Replay(v)
  <2> DEFINE history == [i \in 1..(rows[v] - after[v]) |-> after[v] + i]
             d == Delivered(v, history \o pending[v])
  <2>1. /\ after'[v] = after[v] /\ rows'[v] = rows[v] /\ shown'[v] = shown[v]
        /\ wire'[v] = d.out
    BY <1>1, <1>8 DEF Replay, StreamsTypeOK
  <2>2. /\ last[v] \in Nat /\ wire[v] \in Seq(Nat) /\ pending[v] \in Seq(Nat)
        /\ after[v] \in Nat /\ rows[v] \in Nat
    BY <1>1 DEF StreamsTypeOK
  <2>3. history \in Seq(Nat)
    <3>1. PICK h \in Nat : 1..(rows[v] - after[v]) = 1..h
      <4>1. CASE after[v] <= rows[v]
        <5>1. rows[v] - after[v] \in Nat
          BY <2>2, <4>1
        <5>2. QED
          BY <5>1
      <4>2. CASE rows[v] < after[v]
        BY <2>2, <4>2
      <4>3. QED
        BY <2>2, <4>1, <4>2
    <3>2. \A i \in 1..h : after[v] + i \in Nat
      BY <2>2
    <3>3. [i \in 1..h |-> after[v] + i] \in Seq(Nat)
      BY <3>2, IsASeq
    <3>4. QED
      BY <3>1, <3>3
  <2> HIDE DEF history
  <2>4. history \o pending[v] \in Seq(Nat)
    BY <2>2, <2>3, ConcatProperties
  <2>5. Positive(d.out)
    BY <1>2, <2>2, <2>4, DeliveredPositive
  <2> HIDE DEF d
  <2>6. QED
    BY <2>1, <2>5, RecordedStill
<1>9. CASE w = v /\ Arrive(v)
  BY <1>1, <1>9, ArriveRecorded
<1>10. QED
  BY <1>3, <1>4, <1>5, <1>6, <1>7, <1>8, <1>9

LEMMA FeedKeeps == FeedInv /\ [Next]_vars => FeedInv'
<1> SUFFICES ASSUME FeedInv, [Next]_vars PROVE FeedInv'
  OBVIOUS
<1>1. StreamInv'
  BY StreamsStep DEF FeedInv
<1> SUFFICES ASSUME NEW w \in Watchers PROVE Recorded(w)'
  BY <1>1 DEF FeedInv
<1>2. Positive(wire[w]) /\ Positive(<< >>)
  BY DEF FeedInv, Recorded, Positive
<1>3. ASSUME UNCHANGED streamVars PROVE Recorded(w)'
  BY <1>2, <1>3, RecordedStill DEF streamVars
<1>4. ASSUME NEW x \in Changes, Announce(x) PROVE Recorded(w)'
  <2>1. after' = after /\ rows' = rows /\ shown' = shown
    BY <1>4 DEF Announce, Hear
  <2>2. wire'[w] = wire[w] \/ wire'[w] = Delivered(w, <<seqOf[x]>>).out
    BY <1>4 DEF Announce, Hear
  <2>3. last[w] \in Nat /\ wire[w] \in Seq(Nat) /\ seqOf[x] \in Nat
    BY DEF FeedInv, StreamInv, StreamsTypeOK, ChangesInv, ChangesTypeOK
  <2>4. <<seqOf[x]>> \in Seq(Nat)
    BY <2>3
  <2>5. Positive(wire'[w])
    BY <1>2, <2>2, <2>3, <2>4, DeliveredPositive
  <2>6. QED
    BY <2>1, <2>5, RecordedStill
<1>5. ASSUME NEW q, Down(q) PROVE Recorded(w)'
  <2>1. /\ shown' = shown /\ wire'[w] \in {wire[w], << >>}
        /\ after'[w] \in {after[w], 0} /\ rows'[w] \in {rows[w], 0}
    BY <1>5 DEF Down, Close
  <2>2. QED
    BY <1>2, <2>1, RecordedStill
<1>6. ASSUME StreamNext, UNCHANGED <<changeVars, roomVars>> PROVE Recorded(w)'
  BY <1>6, StreamRecorded
<1>7. QED
  BY <1>3, <1>4, <1>5, <1>6 DEF Next, Write, HistoryFails, vars

\* Every step records an event, shows one, or is none of the reader's business.
LEMMA FeedStep ==
  ASSUME FeedInv, [Next]_vars
  PROVE  [Feed!Next]_(Feed!vars)
<1>1. CASE log' = log /\ shown' = shown
  BY <1>1 DEF Feed!vars
<1>2. CASE \E o \in Orders : Feed!Record(o)
  BY <1>2 DEF Feed!Next
<1>3. ASSUME NEW w \in Watchers, Arrive(w), log' = log PROVE [Feed!Next]_(Feed!vars)
  <2> DEFINE n == Head(wire[w])
             l == Len(log[WatchOf[w]])
  <2>1. /\ wire[w] # << >>
        /\ shown' = [shown EXCEPT ![w] = Append(@, n)]
    BY <1>3 DEF Arrive
  <2>2. /\ shown[w] \in Seq(Nat) /\ n \in Nat /\ 0 < n /\ n <= l
        /\ \A i \in 1..Len(shown[w]) : shown[w][i] < n
    BY <2>1, WrittenRecorded
  <2>3. Feed!Position(w) \in Nat /\ Feed!Position(w) < n
    <3>1. CASE shown[w] = << >>
      BY <2>2, <3>1 DEF Feed!Position
    <3>2. CASE shown[w] # << >>
      <4>1. Len(shown[w]) \in 1..Len(shown[w])
        BY <2>2, <3>2, LenProperties, EmptySeq
      <4>2. shown[w][Len(shown[w])] \in Nat
        BY <2>2, <4>1, ElementOfSeq
      <4>3. QED
        BY <2>2, <3>2, <4>1, <4>2 DEF Feed!Position
    <3>3. QED
      BY <3>1, <3>2
  <2>4. l \in Nat
    BY RealtimeAssumption, LenProperties DEF FeedInv, StreamInv, ChangesInv, ChangesTypeOK
  <2>5. n \in Feed!Position(w) + 1 .. l
    <3> HIDE DEF n, l
    <3>1. QED
      BY <2>2, <2>3, <2>4
  <2>6. Feed!Show(w)
    BY <1>3, <2>1, <2>5 DEF Feed!Show
  <2>7. QED
    BY <2>6 DEF Feed!Next
<1>4. CASE log' = log
  <2>1. shown' = shown \/ \E w \in Watchers : Arrive(w)
    BY DEF Next, Write, Announce, Hear, StreamNext, Connect, ReadHistory, Replay,
           Disconnect, Close, Down, HistoryFails, streamVars, vars
  <2>2. QED
    BY <1>1, <1>3, <1>4, <2>1
<1>5. QED
  BY <1>2, <1>4, HistoryGrows DEF FeedInv

\* The service keeps the promise of OrderFeed: however streams, reconnects,
\* changes in several processes and crashes interleave, a reader is shown
\* events of a history that only grows, each after its commit and after those
\* shown before.
THEOREM StreamIsFeed == Spec => ImplementsFeed
<1>1. Init => Feed!Init
  BY DEF Init, ChangesInit, StreamInit, Feed!Init
<1>2. QED
  BY <1>1, FeedStart, FeedKeeps, FeedStep, PTL DEF Spec, ImplementsFeed, Feed!Spec
=============================================================================
