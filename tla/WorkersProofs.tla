---------------------------- MODULE WorkersProofs ----------------------------
(***************************************************************************)
(* What holds of the task pool, of retried top-ups and of the publisher    *)
(* for any number of workers, tasks, writers, connections and failures.    *)
(***************************************************************************)
EXTENDS Workers, FiniteSetTheorems, TLAPS

(* The task pool.                                                          *)

Busy == {"handling", "written"}

\* The row a worker has locked is pending, is locked by no other, and its
\* transaction has the handler's writes once it has written them.
LocksHold ==
  \A w \in Workers :
    IF at[w] \in Busy
    THEN /\ task[w] \in Pending
         /\ \A v \in Workers : task[v] = task[w] => v = w
         /\ inTx[w] = IF at[w] = "written" THEN 1 ELSE 0
    ELSE task[w] = NoTask /\ inTx[w] = 0

AttemptsLeft == \A t \in Pending : attempts[t] < MaxAttempts

TasksInv == TasksTypeOK /\ LocksHold /\ AttemptsLeft /\ SettledOnce /\ LastOneOut

LEMMA TasksStart == TasksInit => TasksInv
  BY TasksAssumption DEF TasksInit, TasksInv, TasksTypeOK, LocksHold, AttemptsLeft,
     SettledOnce, LastOneOut, Busy, NoTask, Pending

\* Steps that only move a worker about.
LEMMA WorkerMoves ==
  ASSUME TasksInv, NEW w \in Workers,
         \/ \E t \in Tasks : Claim(w, t)
         \/ FindNone(w) \/ Count(w) \/ Write(w) \/ Die(w)
  PROVE  TasksInv'
<1> USE DEF TasksInv, Busy, NoTask
<1>1. UNCHANGED <<status, attempts, processed, written>>
  BY DEF Claim, FindNone, Count, Write, Die
<1>2. TasksTypeOK'
  BY <1>1 DEF Claim, FindNone, Count, Write, Die, TasksTypeOK, LocksHold
<1>3. AttemptsLeft' /\ SettledOnce'
  BY <1>1 DEF AttemptsLeft, SettledOnce, Pending
<1>4. LocksHold'
  <2>1. ASSUME NEW t \in Tasks, Claim(w, t) PROVE LocksHold'
    <3>1. t \in Pending /\ \A v \in Workers : task[v] # t
      BY <2>1 DEF Claim, Claimable, Locked
    <3>2. at[w] \notin Busy /\ inTx[w] = 0 /\ t # NoTask
      BY <2>1, TasksAssumption DEF Claim, LocksHold
    <3>3. QED
      BY <1>1, <2>1, <3>1, <3>2 DEF Claim, LocksHold, TasksTypeOK, Pending
  <2>2. CASE FindNone(w) \/ Count(w)
    BY <1>1, <2>2 DEF FindNone, Count, LocksHold, TasksTypeOK, Pending
  <2>3. CASE Write(w)
    BY <1>1, <2>3 DEF Write, LocksHold, TasksTypeOK, Pending
  <2>4. CASE Die(w)
    <3>1. \A t \in Pending : t # NoTask
      BY TasksAssumption DEF Pending
    <3>2. QED
      BY <1>1, <2>4, <3>1 DEF Die, LocksHold, TasksTypeOK, Pending
  <2>5. QED
    BY <2>1, <2>2, <2>3, <2>4
<1>5. LastOneOut'
  BY <1>1 DEF LastOneOut, Claim, FindNone, Count, Write, Die, Pending, NonePending, TasksTypeOK
<1>6. QED
  BY <1>2, <1>3, <1>4, <1>5

\* The two ways a transaction ends.
LEMMA WorkerSettles ==
  ASSUME TasksInv, NEW w \in Workers, Finish(w) \/ Fail(w)
  PROVE  TasksInv'
<1> DEFINE t == task[w]
<1> USE DEF TasksInv, Busy, NoTask
<1>1. /\ t \in Tasks /\ status[t] = "pending" /\ at[w] \in Busy
      /\ inTx[w] = IF at[w] = "written" THEN 1 ELSE 0
      /\ \A v \in Workers : task[v] = t => v = w
      /\ t # NoTask
  BY TasksAssumption DEF Finish, Fail, LocksHold, Pending
<1>2. attempts[t] < MaxAttempts /\ processed[t] = 0 /\ written[t] = 0
  BY <1>1 DEF AttemptsLeft, SettledOnce, Pending
<1>3. /\ at' = [at EXCEPT ![w] = "looking"]
      /\ task' = [task EXCEPT ![w] = NoTask]
      /\ inTx' = [inTx EXCEPT ![w] = 0]
      /\ attempts' = [attempts EXCEPT ![t] = @ + 1]
  BY DEF Finish, Fail, Settle
<1>4. \/ /\ status' = [status EXCEPT ![t] = "done"]
         /\ processed' = [processed EXCEPT ![t] = 1]
         /\ written' = [written EXCEPT ![t] = 1]
      \/ /\ status' = [status EXCEPT ![t] = IF attempts[t] + 1 >= MaxAttempts
                                              THEN "failed" ELSE "pending"]
         /\ processed' = processed
         /\ written' = [written EXCEPT ![t] = 0]
  BY <1>1, <1>2 DEF Finish, Fail, Settle, Kept, TasksTypeOK
<1> HIDE DEF t
<1>5. TasksTypeOK'
  BY <1>1, <1>3, <1>4 DEF TasksTypeOK
<1>6. Pending' \subseteq Pending /\ \A u \in Pending : u # t => u \in Pending'
  BY <1>1, <1>4 DEF Pending, TasksTypeOK
<1>7. LocksHold'
  <2>1. \A v \in Workers :
          /\ at'[v] = IF v = w THEN "looking" ELSE at[v]
          /\ task'[v] = IF v = w THEN NoTask ELSE task[v]
          /\ inTx'[v] = IF v = w THEN 0 ELSE inTx[v]
    BY <1>3 DEF TasksTypeOK
  <2>2. \A u \in Pending : u # NoTask
    BY TasksAssumption DEF Pending
  <2>3. \A v \in Workers \ {w} : task[v] # t
    BY <1>1
  <2>4. QED
    BY <1>6, <2>1, <2>2, <2>3 DEF LocksHold
<1>8. AttemptsLeft'
  BY <1>1, <1>2, <1>3, <1>4, TasksAssumption DEF AttemptsLeft, Pending, TasksTypeOK
<1>9. SettledOnce'
  BY <1>1, <1>2, <1>3, <1>4, TasksAssumption DEF SettledOnce, TasksTypeOK
<1>10. LastOneOut'
  BY <1>3, <1>6 DEF LastOneOut, TasksTypeOK
<1>11. QED
  BY <1>5, <1>7, <1>8, <1>9, <1>10

LEMMA TasksStep == TasksInv /\ [Next]_vars => TasksInv'
<1> SUFFICES ASSUME TasksInv, [Next]_vars PROVE TasksInv'
  OBVIOUS
<1>1. CASE UNCHANGED taskVars
  BY <1>1 DEF taskVars, TasksInv, TasksTypeOK, LocksHold, AttemptsLeft, SettledOnce,
              LastOneOut, Pending
<1>2. ASSUME NEW w \in Workers, WorkerStep(w) \/ Die(w) PROVE TasksInv'
  BY <1>2, WorkerMoves, WorkerSettles DEF WorkerStep
<1>3. QED
  BY <1>1, <1>2 DEF Next, Pool, TasksNext, TopUps, Publishing, vars

\* Every task is done once with its writes, or failed after its attempts with
\* none (worker.ts).
THEOREM TasksSettleOnce == Spec => []SettledOnce
<1>1. Init => TasksInv
  BY TasksStart DEF Init
<1>2. TasksInv => SettledOnce
  BY DEF TasksInv
<1>3. QED
  BY <1>1, <1>2, TasksStep, PTL DEF Spec

\* No worker leaves while there is a task to do (worker.ts).
THEOREM PoolIsLeftEmpty == Spec => []LastOneOut
<1>1. Init => TasksInv
  BY TasksStart DEF Init
<1>2. TasksInv => LastOneOut
  BY DEF TasksInv
<1>3. QED
  BY <1>1, <1>2, TasksStep, PTL DEF Spec

-----------------------------------------------------------------------------
(* The top-ups.                                                            *)

DoneWriters == {w \in Writers : doing[w] = "done"}

\* The balance is the number of writes committed; at most one transaction
\* holds the row, and it read the row as it is.  A writer has been refused at
\* most once for each write that others committed before its snapshot, so
\* none of them has given up.
TopUpInv ==
  /\ TopUpTypeOK
  /\ version = Cardinality(DoneWriters) /\ balance = version
  /\ \A w \in Writers :
       /\ doing[w] \in {"read", "updated"} => read[w] = snapshot[w] /\ snapshot[w] <= version
       /\ doing[w] = "updated" =>
            snapshot[w] = version /\ \A v \in Writers : doing[v] = "updated" => v = w
       /\ attempt[w] <= 1 + IF doing[w] = "read" THEN snapshot[w] ELSE version
       /\ doing[w] # "gaveUp"

LEMMA SomeMissing ==
  ASSUME NEW w \in Writers, doing[w] # "done"
  PROVE  /\ Cardinality(DoneWriters) < Cardinality(Writers)
         /\ Cardinality(DoneWriters) \in Nat /\ Cardinality(Writers) \in Nat
<1>1. IsFiniteSet(Writers) /\ DoneWriters \subseteq Writers /\ DoneWriters # Writers
  BY TopUpAssumption DEF DoneWriters
<1>2. QED
  BY <1>1, FS_Subset, FS_CardinalityType

LEMMA TopUpStart == TopUpInit => TopUpInv
<1> SUFFICES ASSUME TopUpInit PROVE TopUpInv
  OBVIOUS
<1>1. DoneWriters = {}
  BY DEF DoneWriters, TopUpInit
<1>2. Cardinality(DoneWriters) = 0
  BY <1>1, FS_EmptySet
<1>3. \A w \in Writers : 1 <= MaxRuns
  BY <1>2, SomeMissing, TopUpAssumption DEF TopUpInit
<1>4. TopUpTypeOK
  BY <1>3, TopUpAssumption DEF TopUpInit, TopUpTypeOK
<1>5. QED
  BY <1>2, <1>4 DEF TopUpInit, TopUpInv

LEMMA TopUpStep == TopUpInv /\ [Next]_vars => TopUpInv'
<1> SUFFICES ASSUME TopUpInv, [Next]_vars PROVE TopUpInv'
  OBVIOUS
<1> USE DEF TopUpInv, TopUpTypeOK
<1>1. CASE UNCHANGED topUpVars
  BY <1>1 DEF topUpVars, DoneWriters
<1>2. ASSUME NEW w \in Writers, Read(w) \/ Update(w) PROVE TopUpInv'
  <2>1. DoneWriters' = DoneWriters /\ UNCHANGED <<balance, version, attempt>>
    BY <1>2 DEF DoneWriters, Read, Update
  <2>2. TopUpTypeOK'
    BY <1>2, <2>1 DEF Read, Update
  <2>3. QED
    BY <1>2, <2>1, <2>2 DEF Read, Update, RowFree, Current
<1>3. ASSUME NEW w \in Writers, Commit(w) PROVE TopUpInv'
  <2>1. DoneWriters' = DoneWriters \union {w} /\ w \notin DoneWriters
    BY <1>3 DEF DoneWriters, Commit
  <2>2. IsFiniteSet(DoneWriters)
    BY TopUpAssumption, FS_Subset DEF DoneWriters
  <2>3. Cardinality(DoneWriters') = version + 1
    BY <2>1, <2>2, FS_AddElement
  <2>4. TopUpTypeOK'
    BY <1>3 DEF Commit
  <2>5. balance' = version' /\ version' = version + 1
    BY <1>3 DEF Commit
  <2>6. QED
    BY <1>3, <2>3, <2>4, <2>5 DEF Commit
<1>4. ASSUME NEW w \in Writers, Conflict(w) PROVE TopUpInv'
  <2>1. attempt[w] <= version
    BY <1>4 DEF Conflict, Current
  <2>2. version < Cardinality(Writers) /\ Cardinality(Writers) \in Nat
    BY <1>4, SomeMissing DEF Conflict
  <2>3. attempt[w] < MaxRuns
    BY <2>1, <2>2, TopUpAssumption
  <2>4. /\ doing' = [doing EXCEPT ![w] = "starting"]
        /\ attempt' = [attempt EXCEPT ![w] = @ + 1]
        /\ UNCHANGED <<balance, version, snapshot, read>>
    BY <1>4, <2>3, TopUpAssumption DEF Conflict
  <2>5. DoneWriters' = DoneWriters
    BY <1>4, <2>4 DEF DoneWriters, Conflict
  <2>6. TopUpTypeOK'
    BY <2>3, <2>4, TopUpAssumption
  <2>7. QED
    BY <2>1, <2>4, <2>5, <2>6
<1>5. QED
  BY <1>1, <1>2, <1>3, <1>4 DEF Next, TopUps, TopUpNext, Pool, Publishing, vars

\* As many attempts as there are writers are enough: no top-up is lost and
\* nobody gives up, however transactions overlap (retry.ts, demo-retry.ts).
THEOREM TopUpsAllCount == Spec => []EveryTopUpCounts
<1>1. Init => TopUpInv
  BY TopUpStart DEF Init
<1>2. TopUpInv => EveryTopUpCounts
  <2> SUFFICES ASSUME TopUpInv, \A w \in Writers : doing[w] \in {"done", "gaveUp"}
               PROVE  balance = Cardinality(Writers)
    BY DEF EveryTopUpCounts
  <2>1. DoneWriters = Writers
    BY DEF DoneWriters, TopUpInv
  <2>2. QED
    BY <2>1 DEF TopUpInv
<1>3. QED
  BY <1>1, <1>2, TopUpStep, PTL DEF Spec

-----------------------------------------------------------------------------
(* The publisher.                                                          *)

Used == {k \in Connections : conn[k] # "none"}

\* A connection is opened only while somebody waits for it, and a message
\* awaits its confirm only on the channel that is held.
PublisherInv ==
  /\ held \in Connections \union {None}
  /\ opening \in Connections \union {None}
  /\ chans \subseteq Connections
  /\ DOMAIN conn = Connections
  /\ OneKnownConnection
  /\ opening # None => caller.connect = "opening" \/ caller.pass = "opening"
  /\ caller.pass = "confirming" => held # None

LEMMA PublisherStart == PublisherInit => PublisherInv
  BY PublisherAssumption DEF PublisherInit, PublisherInv, OneKnownConnection, None

\* Losing connections.
LEMMA LosesKeep ==
  ASSUME PublisherInv, NEW C \in SUBSET Connections, Lose(C)
  PROVE  PublisherInv'
<1> USE DEF PublisherInv, OneKnownConnection, None
<1> DEFINE died == opening \in C /\ caller.connect = "opening"
<1>1. /\ conn' = [k \in Connections |-> IF k \in C \/ died THEN "none" ELSE conn[k]]
      /\ opening' = IF opening \in C THEN None ELSE opening
      /\ held' = IF held \in C THEN None ELSE held
      /\ chans' = chans \ C
      /\ stopped' = (stopped \/ died)
  BY DEF Lose, Ends, HeldAfter
<1>2. /\ caller'.connect = IF died THEN "done" ELSE caller.connect
      /\ caller'.pass = "confirming" => caller.pass = "confirming" /\ held \notin C
      /\ opening \notin C => caller'.pass = caller.pass \/ caller.pass = "confirming"
  BY DEF Lose, Ends
<1>3. None \notin C
  BY PublisherAssumption
<1> HIDE DEF died
<1>4. died => opening \in C /\ held = None
  BY <1>3 DEF died
<1>5. Used' = {held', opening'} \ {None}
  BY <1>1, <1>3, <1>4 DEF Used
<1>6. QED
  BY <1>1, <1>2, <1>3, <1>4, <1>5 DEF Used

LEMMA PublisherStepKeeps == PublisherInv /\ [Next]_vars => PublisherInv'
<1> SUFFICES ASSUME PublisherInv, [Next]_vars PROVE PublisherInv'
  OBVIOUS
<1> USE PublisherAssumption DEF PublisherInv, OneKnownConnection, None
<1>1. CASE UNCHANGED publisherVars
  BY <1>1 DEF publisherVars
<1>2. CASE Send
  <2>1. /\ ~stopped /\ caller.pass = "ready"
        /\ UNCHANGED <<chans, held, stopped>>
    BY <1>2 DEF Send
  <2>2. CASE held # None
    <3>1. UNCHANGED <<conn, opening>>
      BY <1>2, <2>2 DEF Send
    <3>2. opening = None
      BY <2>2
    <3>3. QED
      BY <2>1, <2>2, <3>1, <3>2
  <2>3. CASE held = None
    <3>1. open /\ caller' = [caller EXCEPT !.pass = "opening"]
      BY <1>2, <2>3 DEF Send
    <3>2. caller'.pass # "confirming" /\ (opening' # None => caller'.pass = "opening")
      BY <1>2, <2>3, <3>1 DEF open, OpensAnother
    <3>3. CASE opening # None
      BY <2>1, <2>3, <3>1, <3>2, <3>3 DEF open, OpensAnother
    <3>4. CASE opening = None
      <4>1. PICK k \in Connections : conn' = [conn EXCEPT ![k] = "dialing"] /\ opening' = k
        BY <3>1, <3>4 DEF open, OpensAnother
      <4>2. QED
        BY <2>1, <2>3, <3>2, <3>4, <4>1
    <3>5. QED
      BY <3>3, <3>4
  <2>4. QED
    BY <2>2, <2>3
<1>3. CASE Dialed
  BY <1>3 DEF Dialed
<1>4. CASE Checked
  BY <1>4 DEF Checked, Callers
<1>5. CASE Confirmed \/ BrokerUp
  BY <1>5 DEF Confirmed, BrokerUp
<1>6. CASE Refused
  BY <1>6, LosesKeep DEF Refused
<1>7. ASSUME NEW k \in Connections, ConnectionLost(k) PROVE PublisherInv'
  BY <1>7, LosesKeep DEF ConnectionLost
<1>8. CASE BrokerDown
  BY <1>8, LosesKeep DEF BrokerDown
<1>9. ASSUME NEW k \in Connections, ChannelClosed(k) PROVE PublisherInv'
  <2>1. CASE k = opening
    BY <1>9, <2>1, LosesKeep DEF ChannelClosed
  <2>2. CASE k # opening
    <3>1. /\ chans' = chans \ {k}
          /\ UNCHANGED <<conn, held, opening, stopped>>
          /\ caller' = [caller EXCEPT !.pass = IF @ = "confirming" THEN "ready" ELSE @]
      BY <1>9, <2>2 DEF ChannelClosed
    <3>2. OneKnownConnection' /\ chans' \subseteq Connections
      BY <3>1
    <3>3. caller'.pass # "confirming"
      BY <3>1
    <3>4. caller.connect = "opening" \/ caller.pass = "opening"
            => caller'.connect = "opening" \/ caller'.pass = "opening"
      BY <3>1
    <3>5. QED
      BY <3>1, <3>2, <3>3, <3>4
  <2>3. QED
    BY <2>1, <2>2
<1>10. CASE Close
  BY <1>10 DEF Close
<1>11. QED
  BY <1>1, <1>2, <1>3, <1>4, <1>5, <1>6, <1>7, <1>8, <1>9, <1>10
     DEF Next, Pool, TopUps, Publishing, PublisherNext, PublisherStep, vars

\* A process has at most one connection and knows of it (publisher.ts).
THEOREM NoStrayConnection == Spec => []OneKnownConnection
<1>1. Init => PublisherInv
  BY PublisherStart DEF Init
<1>2. PublisherInv => OneKnownConnection
  BY DEF PublisherInv
<1>3. QED
  BY <1>1, <1>2, PublisherStepKeeps, PTL DEF Spec

-----------------------------------------------------------------------------
(* The publisher goes on.                                                *)

\* What a call of the publisher waits for is there, and will answer it.
WaitsEnd ==
  /\ \A x \in Callers : caller[x] = "opening" => opening # None
  /\ opening # None => conn[opening] = "dialing" \/ opening \in chans
  /\ caller.pass = "confirming" => held \in chans
  /\ caller.pass # "done"

PublisherWaits ==
  /\ PublisherInv
  /\ WaitsEnd
  /\ broker \in {"up", "down"}
  /\ conn \in [Connections -> {"none", "dialing", "live"}]
  /\ caller \in [Callers -> {"ready", "opening", "confirming", "done"}]
  /\ caller.connect \in {"opening", "done"}
  /\ Connections # {}

\* The guards of Send, Confirmed, Dialed, Checked and Refused.
PublisherReady ==
  \/ /\ ~stopped
     /\ caller.pass = "ready"
     /\ held = None /\ opening = None => \E k \in Connections : conn[k] = "none"
  \/ caller.pass = "confirming" /\ held \in chans
  \/ opening # None /\ conn[opening] = "dialing" /\ broker \in {"up", "down"}
  \/ opening \in chans

\* Until the process closes its publisher there is a step of it that waits
\* for nobody.
PublisherRuns == ~stopped => PublisherReady

LEMMA WaitsStart == PublisherInit => PublisherWaits
<1> SUFFICES ASSUME PublisherInit PROVE PublisherWaits
  OBVIOUS
<1>1. PublisherInv
  BY PublisherStart
<1>2. WaitsEnd
  BY PublisherAssumption DEF PublisherInit, WaitsEnd, Callers, None
<1>3. QED
  BY <1>1, <1>2 DEF PublisherInit, PublisherWaits, Callers

\* Losing connections: who waits for one of them is told.
LEMMA LosesAnswer ==
  ASSUME PublisherWaits, NEW C \in SUBSET Connections, Lose(C),
         UNCHANGED broker \/ broker' = "down"
  PROVE  PublisherWaits'
<1>1. PublisherInv'
  BY LosesKeep DEF PublisherWaits
<1> USE DEF PublisherWaits, WaitsEnd, Callers, None
<1> DEFINE died == opening \in C /\ caller.connect = "opening"
           waits == \/ opening \in C /\ caller.pass = "opening"
                    \/ held \in C /\ caller.pass = "confirming"
<1>2. /\ conn' = [k \in Connections |-> IF k \in C \/ died THEN "none" ELSE conn[k]]
      /\ opening' = IF opening \in C THEN None ELSE opening
      /\ held' = IF held \in C THEN None ELSE held
      /\ chans' = chans \ C
      /\ caller' = [connect |-> IF died THEN "done" ELSE caller.connect,
                    pass |-> IF waits THEN "ready" ELSE caller.pass]
  BY DEF Lose, Ends, HeldAfter
<1>3. None \notin C
  BY PublisherAssumption
<1>4. /\ caller'.connect = IF died THEN "done" ELSE caller.connect
      /\ caller'.pass = IF waits THEN "ready" ELSE caller.pass
      /\ caller' \in [Callers -> {"ready", "opening", "confirming", "done"}]
  BY <1>2
<1>5. conn' \in [Connections -> {"none", "dialing", "live"}]
  BY <1>2
<1>6. opening' # None => opening' = opening /\ opening \notin C /\ conn'[opening] = conn[opening]
  BY <1>2 DEF PublisherInv
<1>7. WaitsEnd'
  BY <1>2, <1>3, <1>4, <1>6 DEF PublisherInv
<1>8. QED
  BY <1>1, <1>4, <1>5, <1>7

LEMMA WaitsStep == PublisherWaits /\ [Next]_vars => PublisherWaits'
<1> SUFFICES ASSUME PublisherWaits, [Next]_vars PROVE PublisherWaits'
  OBVIOUS
<1>0. PublisherInv /\ PublisherInv'
  BY PublisherStepKeeps DEF PublisherWaits
<1> USE PublisherAssumption DEF PublisherWaits, WaitsEnd, None, Callers
<1>1. CASE UNCHANGED publisherVars
  BY <1>0, <1>1 DEF publisherVars
<1>2. CASE Send
  <2>1. /\ ~stopped /\ caller.pass = "ready"
        /\ UNCHANGED <<broker, chans, held, stopped>>
    BY <1>2 DEF Send
  <2>2. CASE held # None
    <3>1. /\ UNCHANGED <<conn, opening>>
          /\ \/ held \in chans /\ caller' = [caller EXCEPT !.pass = "confirming"]
             \/ UNCHANGED caller
      BY <1>2, <2>2 DEF Send
    <3>2. QED
      BY <1>0, <2>1, <3>1
  <2>3. CASE held = None
    <3>1. open /\ caller' = [caller EXCEPT !.pass = "opening"]
      BY <1>2, <2>3 DEF Send
    <3>2. caller'.connect = caller.connect /\ caller'.pass = "opening"
      BY <3>1
    <3>3. CASE opening # None
      BY <1>0, <2>1, <3>1, <3>2, <3>3 DEF open, OpensAnother
    <3>4. CASE opening = None
      <4>1. PICK k \in Connections : conn' = [conn EXCEPT ![k] = "dialing"] /\ opening' = k
        BY <3>1, <3>4 DEF open, OpensAnother
      <4>2. QED
        BY <1>0, <2>1, <3>1, <3>2, <3>4, <4>1
    <3>5. QED
      BY <3>3, <3>4
  <2>4. QED
    BY <2>2, <2>3
<1>3. CASE Dialed
  BY <1>0, <1>3 DEF Dialed, PublisherInv
<1>4. CASE Checked
  <2>1. /\ opening \in chans /\ held' = opening /\ opening' = None
        /\ UNCHANGED <<broker, conn, chans>>
    BY <1>4 DEF Checked
  <2>2. /\ caller'.connect = IF caller.connect # "opening" THEN caller.connect ELSE "done"
        /\ caller'.pass = IF caller.pass # "opening" THEN caller.pass ELSE "confirming"
        /\ caller' \in [Callers -> {"ready", "opening", "confirming", "done"}]
    BY <1>4 DEF Checked
  <2>3. QED
    BY <1>0, <2>1, <2>2
<1>5. CASE Confirmed \/ BrokerUp
  BY <1>0, <1>5 DEF Confirmed, BrokerUp
<1>6. CASE Refused
  BY <1>6, LosesAnswer DEF Refused, PublisherInv
<1>7. ASSUME NEW k \in Connections, ConnectionLost(k) PROVE PublisherWaits'
  BY <1>7, LosesAnswer DEF ConnectionLost
<1>8. CASE BrokerDown
  BY <1>8, LosesAnswer DEF BrokerDown
<1>9. ASSUME NEW k \in Connections, ChannelClosed(k) PROVE PublisherWaits'
  <2>1. CASE k = opening
    BY <1>9, <2>1, LosesAnswer DEF ChannelClosed
  <2>2. CASE k # opening
    <3>1. /\ chans' = chans \ {k}
          /\ UNCHANGED <<broker, conn, held, opening, stopped>>
          /\ caller' = [caller EXCEPT !.pass = IF @ = "confirming" THEN "ready" ELSE @]
      BY <1>9, <2>2 DEF ChannelClosed
    <3>2. caller'.pass # "confirming" /\ caller'.connect = caller.connect
      BY <3>1
    <3>3. QED
      BY <1>0, <2>2, <3>1, <3>2
  <2>3. QED
    BY <2>1, <2>2
<1>10. CASE Close
  BY <1>0, <1>10 DEF Close, PublisherInv
<1>11. QED
  BY <1>1, <1>2, <1>3, <1>4, <1>5, <1>6, <1>7, <1>8, <1>9, <1>10
     DEF Next, Pool, TopUps, Publishing, PublisherNext, PublisherStep, vars

\* No call hangs: whoever waits for the broker waits for a connection that is
\* dialled or a channel that is open, so until the publisher is closed it can
\* go on, whatever was lost (publisher.ts:49-102).
THEOREM PublisherGoesOn == Spec => [](WaitsEnd /\ PublisherRuns)
<1>1. Init => PublisherWaits
  BY WaitsStart DEF Init
<1>2. PublisherWaits => WaitsEnd /\ PublisherRuns
  <2> SUFFICES ASSUME PublisherWaits, ~stopped PROVE PublisherReady
    BY DEF PublisherWaits, PublisherRuns
  <2> USE PublisherAssumption DEF PublisherWaits, WaitsEnd, PublisherInv, Callers, None
  <2>1. CASE caller.pass = "ready"
    BY <2>1 DEF PublisherReady, OneKnownConnection
  <2>2. CASE caller.pass \in {"opening", "confirming"}
    BY <2>2 DEF PublisherReady
  <2>3. QED
    BY <2>1, <2>2
<1>3. QED
  BY <1>1, <1>2, WaitsStep, PTL DEF Spec
=============================================================================
