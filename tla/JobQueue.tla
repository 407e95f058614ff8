------------------------------ MODULE JobQueue ------------------------------
(***************************************************************************)
(* The BullMQ queue (queue/queue.ts) and its worker (queue-worker.ts,      *)
(* queue/jobs.ts): three attempts, a backoff between them, and a job whose *)
(* worker died comes back once.  What a processor does in between belongs  *)
(* to the module that extends this one.                                    *)
(***************************************************************************)
EXTENDS Integers, FiniteSets

CONSTANTS
  Jobs,
  FailTimes,   \* FailTimes[j]: attempts that fail in the processor itself
  Concurrency  \* jobs a worker works on at once

ASSUME QueueAssumption == Concurrency \in Nat \ {0}

VARIABLES
  job,       \* job[j]: state of j in the queue
  made,      \* made[j]: attemptsMade
  stalled    \* stalled[j]: how often its worker died under it

jobVars == <<job, made, stalled>>

-----------------------------------------------------------------------------

JobState == {"waiting", "active", "delayed", "completed", "failed"}

Attempts == 3
MaxStalled == 1

JobInit ==
  /\ job = [j \in Jobs |-> "waiting"]
  /\ made = [j \in Jobs |-> 0]
  /\ stalled = [j \in Jobs |-> 0]

Active == {j \in Jobs : job[j] = "active"}

TakeJob(j) ==
  /\ job[j] = "waiting"
  /\ Cardinality(Active) < Concurrency
  /\ job' = [job EXCEPT ![j] = "active"]
  /\ UNCHANGED <<made, stalled>>

\* demo.flaky fails its first attempts; an unknown name fails every one.
Fails(j) == made[j] < FailTimes[j]

Complete(j) ==
  /\ job[j] = "active"
  /\ job' = [job EXCEPT ![j] = "completed"]
  /\ made' = [made EXCEPT ![j] = @ + 1]
  /\ UNCHANGED stalled

\* Bug: the first retry is counted twice.
LastTooEarly(j) == made[j] + 2 >= Attempts

LastAttempt(j) == made[j] + 1 >= Attempts

\* The processor throws: another attempt after the backoff, or no more.
Throw(j) ==
  /\ job[j] = "active"
  /\ made' = [made EXCEPT ![j] = @ + 1]
  /\ job' = [job EXCEPT ![j] = IF LastAttempt(j) THEN "failed" ELSE "delayed"]
  /\ UNCHANGED stalled

BackoffEnds(j) ==
  /\ job[j] = "delayed"
  /\ job' = [job EXCEPT ![j] = "waiting"]
  /\ UNCHANGED <<made, stalled>>

\* The worker dies; the queue finds its active jobs stalled.
Stall(j) == IF stalled[j] < MaxStalled THEN "waiting" ELSE "failed"

WorkerDies ==
  /\ Active # {}
  /\ job' = [j \in Jobs |-> IF j \in Active THEN Stall(j) ELSE job[j]]
  /\ stalled' = [j \in Jobs |-> IF j \in Active THEN stalled[j] + 1 ELSE stalled[j]]
  /\ UNCHANGED made

-----------------------------------------------------------------------------

\* A job is given up only after three attempts, or when its worker died
\* under it twice (DEFAULT_JOB_OPTIONS).
GivenUpForCause ==
  \A j \in Jobs :
    job[j] = "failed" => made[j] = Attempts \/ stalled[j] > MaxStalled
=============================================================================
