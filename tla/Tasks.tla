-------------------------------- MODULE Tasks --------------------------------
(***************************************************************************)
(* The pool of workers on the tasks table (tasks/worker.ts).  A worker     *)
(* claims the first pending task that no other holds, in one transaction   *)
(* with the handler's writes, and the handler runs inside a savepoint: its *)
(* writes go when it fails while the attempt is counted.  A process may    *)
(* die with a task in its hands.                                           *)
(***************************************************************************)
EXTENDS Integers, FiniteSets

CONSTANTS
  Workers,      \* runWorker loops, each in a process of its own
  Tasks,        \* ids of the rows
  MaxAttempts,  \* attempts after which a task has failed
  FailTimes,    \* FailTimes[t]: attempts of t that the handler refuses
  MaxDeaths     \* bound: workers that die

ASSUME TasksAssumption ==
  /\ Tasks \subseteq Nat
  /\ MaxAttempts \in Nat \ {0}
  /\ FailTimes \in [Tasks -> Nat]

VARIABLES
  status,    \* status[t]
  attempts,  \* attempts[t]
  processed, \* processed[t]: how often t was finished
  written,   \* written[t]: how often the handler's writes for t are committed
  at,        \* at[w]: where worker w is
  task,      \* task[w]: the row that its transaction has locked
  inTx       \* inTx[w]: the handler's writes in w's transaction

taskVars == <<status, attempts, processed, written, at, task, inTx>>

-----------------------------------------------------------------------------

NoTask == -1

TasksInit ==
  /\ status = [t \in Tasks |-> "pending"]
  /\ attempts = [t \in Tasks |-> 0]
  /\ processed = [t \in Tasks |-> 0]
  /\ written = [t \in Tasks |-> 0]
  /\ at = [w \in Workers |-> "looking"]
  /\ task = [w \in Workers |-> NoTask]
  /\ inTx = [w \in Workers |-> 0]

Pending == {t \in Tasks : status[t] = "pending"}
Locked == {task[w] : w \in Workers}

\* FOR UPDATE SKIP LOCKED
Claimable == Pending \ Locked

\* The first row that can be claimed; the handler goes to work on it.
Claim(w, t) ==
  /\ at[w] = "looking"
  /\ t \in Claimable
  /\ \A u \in Claimable : t <= u
  /\ at' = [at EXCEPT ![w] = "handling"]
  /\ task' = [task EXCEPT ![w] = t]
  /\ UNCHANGED <<status, attempts, processed, written, inTx>>

\* No row: the worker counts the pending ones next.
FindNone(w) ==
  /\ at[w] = "looking"
  /\ Claimable = {}
  /\ at' = [at EXCEPT ![w] = "counting"]
  /\ UNCHANGED <<status, attempts, processed, written, task, inTx>>

\* Bug: what others hold is not counted.
NoneToClaim == Claimable = {}

NonePending == Pending = {}

\* The worker leaves, or sleeps and looks again.
Count(w) ==
  /\ at[w] = "counting"
  /\ at' = [at EXCEPT ![w] = IF NonePending THEN "left" ELSE "looking"]
  /\ UNCHANGED <<status, attempts, processed, written, task, inTx>>

\* The handler writes, in the savepoint.
Write(w) ==
  /\ at[w] = "handling"
  /\ at' = [at EXCEPT ![w] = "written"]
  /\ inTx' = [inTx EXCEPT ![w] = @ + 1]
  /\ UNCHANGED <<status, attempts, processed, written, task>>

Refuses(t) == attempts[t] < FailTimes[t]

\* The commit: the row is unlocked, what the transaction wrote is there.
Settle(w, n) ==
  /\ written' = [written EXCEPT ![task[w]] = @ + n]
  /\ attempts' = [attempts EXCEPT ![task[w]] = @ + 1]
  /\ at' = [at EXCEPT ![w] = "looking"]
  /\ task' = [task EXCEPT ![w] = NoTask]
  /\ inTx' = [inTx EXCEPT ![w] = 0]

Finish(w) ==
  LET t == task[w] IN
  /\ at[w] = "written"
  /\ ~Refuses(t)
  /\ status' = [status EXCEPT ![t] = "done"]
  /\ processed' = [processed EXCEPT ![t] = @ + 1]
  /\ Settle(w, inTx[w])

\* Bug: the handler writes in the transaction itself, without a savepoint.
NoSavepoint(w) == inTx[w]

\* What is left of the handler's writes when it throws.
Kept(w) == 0

\* The handler throws before its writes or after them.
Fail(w) ==
  LET t == task[w] IN
  /\ at[w] \in {"handling", "written"}
  /\ Refuses(t)
  /\ status' = [status EXCEPT ![t] = IF attempts[t] + 1 >= MaxAttempts THEN "failed" ELSE "pending"]
  /\ Settle(w, Kept(w))
  /\ UNCHANGED processed

\* The process dies: its transaction is rolled back.
Die(w) ==
  /\ at[w] \in {"looking", "handling", "written", "counting"}
  /\ Cardinality({v \in Workers : at[v] = "dead"}) < MaxDeaths
  /\ at' = [at EXCEPT ![w] = "dead"]
  /\ task' = [task EXCEPT ![w] = NoTask]
  /\ inTx' = [inTx EXCEPT ![w] = 0]
  /\ UNCHANGED <<status, attempts, processed, written>>

WorkerStep(w) ==
  \/ \E t \in Tasks : Claim(w, t)
  \/ FindNone(w) \/ Count(w) \/ Write(w) \/ Finish(w) \/ Fail(w)

TasksNext == \E w \in Workers : WorkerStep(w) \/ Die(w)

-----------------------------------------------------------------------------

TasksTypeOK ==
  /\ status \in [Tasks -> {"pending", "done", "failed"}]
  /\ attempts \in [Tasks -> Nat]
  /\ processed \in [Tasks -> Nat]
  /\ written \in [Tasks -> Nat]
  /\ at \in [Workers -> {"looking", "counting", "handling", "written", "left", "dead"}]
  /\ task \in [Workers -> Tasks \union {NoTask}]
  /\ inTx \in [Workers -> 0..1]

\* A task is done with the handler's writes in the database once, or it has
\* failed after MaxAttempts attempts and left nothing, whatever the other
\* workers did and however many died (demo-workers.ts:70-76, README.md:429-433).
SettledOnce ==
  \A t \in Tasks :
    /\ status[t] = "done" => processed[t] = 1 /\ written[t] = 1
    /\ status[t] # "done" => processed[t] = 0 /\ written[t] = 0
    /\ status[t] = "failed" <=> attempts[t] = MaxAttempts /\ processed[t] = 0

\* The pool is not left too early: when a worker goes there is no task still
\* to be done, not even in the hands of one that may die or fail
\* (worker.ts:78-81).
LastOneOut ==
  (\E w \in Workers : at[w] = "left") => Pending = {}
=============================================================================
