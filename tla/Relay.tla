------------------------------- MODULE Relay -------------------------------
(***************************************************************************)
(* The transactional outbox (entities/outbox-event.entity.ts), the relays  *)
(* that empty it (events/relay.ts, one inside every API pod and one more   *)
(* as a process of its own, relay.ts) and the job that prunes it           *)
(* (prune.ts).                                                             *)
(*                                                                         *)
(* One pass of a relay is one transaction: it locks a batch of due rows,   *)
(* publishes them one after the other, records each outcome in its row,    *)
(* and commits.  Nothing it writes is seen by others before the commit, so *)
(* a pass has a draft of its rows.  Between any two steps the process may  *)
(* crash or its database session may be lost; in the second case the       *)
(* process goes on publishing without knowing.                             *)
(***************************************************************************)
EXTENDS Broker, FiniteSets

CONSTANTS
  Relays,       \* relay instances polling the same table
  Batch,        \* RELAY_BATCH: rows one pass takes at most
  MaxAttempts   \* OUTBOX_MAX_ATTEMPTS: failed publishes before a row is buried

ASSUME RelayAssumption ==
  /\ IsFiniteSet(Relays)
  /\ Batch \in Nat \ {0}
  /\ MaxAttempts \in Nat \ {0}

VARIABLES
  outbox,  \* outbox[e]: the committed row of event e
  rpc,     \* rpc[r]: where relay r stands in its pass
  locked,  \* locked[r]: rows the database session of r's pass holds FOR UPDATE
  todo,    \* todo[r]: rows of r's batch still to be handled
  draft    \* draft[r][e]: row e as r's transaction has it

relayVars == <<outbox, rpc, locked, todo, draft>>

-----------------------------------------------------------------------------

\* "none": the order is not committed; "pending": published_at and failed_at
\* are NULL; "published", "failed": the one of them that is set; "pruned": the
\* row is deleted.  due: next_attempt_at <= now().
Row == [status: {"none", "pending", "published", "failed", "pruned"},
        attempts: Nat, due: BOOLEAN]

NoRow == [status |-> "none", attempts |-> 0, due |-> FALSE]
NewRow == [status |-> "pending", attempts |-> 0, due |-> TRUE]

Phase == {"idle", "publish", "mark", "bury", "fail", "backoff"}

NoDraft == [e \in Events |-> NoRow]

RelayInit ==
  /\ outbox = NoDraft
  /\ rpc = [r \in Relays |-> "idle"]
  /\ locked = [r \in Relays |-> {}]
  /\ todo = [r \in Relays |-> {}]
  /\ draft = [r \in Relays |-> NoDraft]

RelayTypeOK ==
  /\ outbox \in [Events -> Row]
  /\ rpc \in [Relays -> Phase]
  /\ locked \in [Relays -> SUBSET Events]
  /\ todo \in [Relays -> SUBSET Events]
  /\ draft \in [Relays -> [Events -> Row]]

-----------------------------------------------------------------------------

\* Bug: the event is sent straight to the broker while the order may still be
\* rolled back.
PublishBeforeCommit(e) ==
  /\ outbox[e].status = "none"
  /\ accepted[e] = 0
  /\ Accept(e)
  /\ UNCHANGED <<relayVars, waiting, dlq, faults>>

\* A checkout commits: the order and its outbox row become visible together.
PlaceOrder(e) ==
  /\ outbox[e].status = "none"
  /\ outbox' = [outbox EXCEPT ![e] = NewRow]
  /\ UNCHANGED <<rpc, locked, todo, draft, brokerVars>>

LockedRows == UNION {locked[r] : r \in Relays}

\* WHERE published_at IS NULL AND failed_at IS NULL AND next_attempt_at <= now()
Due == {e \in Events : outbox[e].status = "pending" /\ outbox[e].due}

\* ORDER BY created_at, id LIMIT Batch
Oldest(rows) == {e \in rows : Cardinality({f \in rows : f < e}) < Batch}

Begin(r, rows) ==
  /\ rpc[r] = "idle"
  /\ rows # {}
  /\ rpc' = [rpc EXCEPT ![r] = "publish"]
  /\ locked' = [locked EXCEPT ![r] = rows]
  /\ todo' = [todo EXCEPT ![r] = rows]
  /\ draft' = [draft EXCEPT ![r] =
                 [e \in Events |-> IF e \in rows THEN outbox[e] ELSE NoRow]]
  /\ UNCHANGED <<outbox, brokerVars>>

\* Bugs: the query without FOR UPDATE SKIP LOCKED, and a query that leaves out
\* rows whose attempts are spent.
SelectWithoutLocks(r) == Begin(r, Oldest(Due))
SelectFreshOnly(r) ==
  Begin(r, Oldest({e \in Due \ LockedRows : outbox[e].attempts < MaxAttempts}))

\* FOR UPDATE SKIP LOCKED: rows another pass holds are passed over.
SelectBatch(r) == Begin(r, Oldest(Due \ LockedRows))

\* The row the loop is at: the oldest one left.
IsNext(r, e) == e \in todo[r] /\ \A f \in todo[r] : e <= f

\* publish() resolves: the broker confirmed the message.
PublishConfirmed(r, e) ==
  /\ rpc[r] = "publish"
  /\ IsNext(r, e)
  /\ Accept(e)
  /\ rpc' = [rpc EXCEPT ![r] = "mark"]
  /\ UNCHANGED <<outbox, locked, todo, draft, waiting, dlq, faults>>

\* What to do about a failed publish: the attempt that reaches MaxAttempts
\* sends the row to the dead-letter exchange.
AfterFailure(row) == IF row.attempts + 1 >= MaxAttempts THEN "bury" ELSE "backoff"

\* Bug: send() swallows the error.
PublishSwallowed(r, e) ==
  /\ rpc[r] = "publish"
  /\ IsNext(r, e)
  /\ Fault
  /\ rpc' = [rpc EXCEPT ![r] = "mark"]
  /\ UNCHANGED <<outbox, locked, todo, draft, work, accepted, waiting, dlq>>

\* publish() throws: the broker refused or was away, or took the message and
\* the confirm was lost.
PublishFails(r, e) ==
  /\ rpc[r] = "publish"
  /\ IsNext(r, e)
  /\ Fault
  /\ Accept(e) \/ UNCHANGED <<work, accepted>>
  /\ rpc' = [rpc EXCEPT ![r] = AfterFailure(draft[r][e])]
  /\ UNCHANGED <<outbox, locked, todo, draft, waiting, dlq>>

\* bury(): the dead-letter exchange confirms.
BuryConfirmed(r, e) ==
  /\ rpc[r] = "bury"
  /\ IsNext(r, e)
  /\ DeadLetter(e)
  /\ rpc' = [rpc EXCEPT ![r] = "fail"]
  /\ UNCHANGED <<outbox, locked, todo, draft, work, waiting, accepted, faults>>

\* bury() catches the error of deadLetter() and the row is backed off instead;
\* the dead letter may have arrived all the same.
BuryFails(r, e) ==
  /\ rpc[r] = "bury"
  /\ IsNext(r, e)
  /\ Fault
  /\ DeadLetter(e) \/ UNCHANGED dlq
  /\ rpc' = [rpc EXCEPT ![r] = "backoff"]
  /\ UNCHANGED <<outbox, locked, todo, draft, work, waiting, accepted>>

-----------------------------------------------------------------------------

\* The row as each of the three UPDATEs leaves it.
Published(row) ==
  [status |-> "published", attempts |-> row.attempts + 1, due |-> row.due]
Failed(row) ==
  [status |-> "failed", attempts |-> row.attempts + 1, due |-> row.due]
BackedOff(row) ==
  [status |-> row.status, attempts |-> row.attempts + 1, due |-> FALSE]

Updated(row, outcome) ==
  IF outcome = "mark" THEN Published(row)
  ELSE IF outcome = "fail" THEN Failed(row)
  ELSE BackedOff(row)

\* The pass is over and the relay waits for its next tick.
EndPass(r) ==
  /\ rpc' = [rpc EXCEPT ![r] = "idle"]
  /\ locked' = [locked EXCEPT ![r] = {}]
  /\ todo' = [todo EXCEPT ![r] = {}]
  /\ draft' = [draft EXCEPT ![r] = NoDraft]

\* The transaction is still there: its rows are still locked.
SessionAlive(r) == locked[r] # {}

\* Bug: the UPDATE goes through the pool instead of the pass's transaction, so
\* it does not notice that the transaction is gone.
UpdateOutsideTransaction(r, e) ==
  /\ rpc[r] \in {"mark", "fail", "backoff"}
  /\ IsNext(r, e)
  /\ outbox' = [outbox EXCEPT ![e] = Updated(@, rpc[r])]
  /\ draft' = [draft EXCEPT ![r][e] = Updated(@, rpc[r])]
  /\ todo' = [todo EXCEPT ![r] = @ \ {e}]
  /\ rpc' = [rpc EXCEPT ![r] = "publish"]
  /\ UNCHANGED <<locked, brokerVars>>

UpdateRow(r, e) ==
  /\ rpc[r] \in {"mark", "fail", "backoff"}
  /\ IsNext(r, e)
  /\ SessionAlive(r)
  /\ draft' = [draft EXCEPT ![r][e] = Updated(@, rpc[r])]
  /\ todo' = [todo EXCEPT ![r] = @ \ {e}]
  /\ rpc' = [rpc EXCEPT ![r] = "publish"]
  /\ UNCHANGED <<outbox, locked, brokerVars>>

\* COMMIT: the drafted rows become the rows.
Commit(r) ==
  /\ rpc[r] = "publish"
  /\ todo[r] = {}
  /\ SessionAlive(r)
  /\ outbox' = [e \in Events |-> IF e \in locked[r] THEN draft[r][e] ELSE outbox[e]]
  /\ EndPass(r)
  /\ UNCHANGED brokerVars

\* The session is gone: the next statement fails and runOnce rejects.
Abort(r) ==
  /\ ~SessionAlive(r)
  /\ \/ rpc[r] \in {"mark", "fail", "backoff"}
     \/ rpc[r] = "publish" /\ todo[r] = {}
  /\ EndPass(r)
  /\ UNCHANGED <<outbox, brokerVars>>

\* The server ends the session (failover, dropped connection): it rolls back
\* and unlocks the rows; the relay finds out at its next statement.
LoseSession(r) ==
  /\ rpc[r] # "idle"
  /\ SessionAlive(r)
  /\ Fault
  /\ locked' = [locked EXCEPT ![r] = {}]
  /\ UNCHANGED <<outbox, rpc, todo, draft, work, waiting, dlq, accepted>>

\* kill -9: the transaction rolls back, the process is started again.
RelayCrash(r) ==
  /\ rpc[r] # "idle"
  /\ Fault
  /\ EndPass(r)
  /\ UNCHANGED <<outbox, work, waiting, dlq, accepted>>

\* next_attempt_at is reached.
BackoffElapses(e) ==
  /\ outbox[e].status = "pending"
  /\ ~outbox[e].due
  /\ outbox' = [outbox EXCEPT ![e].due = TRUE]
  /\ UNCHANGED <<rpc, locked, todo, draft, brokerVars>>

\* Bug: retention by age alone, settled or not.
PruneAnyOutbox(e) ==
  /\ outbox[e].status \in {"pending", "published", "failed"}
  /\ e \notin LockedRows
  /\ outbox' = [outbox EXCEPT ![e] = [NoRow EXCEPT !.status = "pruned"]]
  /\ UNCHANGED <<rpc, locked, todo, draft, brokerVars>>

\* Rows published more than 7 days or failed more than 30 days ago are deleted.
PruneOutbox(e) ==
  /\ outbox[e].status \in {"published", "failed"}
  /\ outbox' = [outbox EXCEPT ![e] = [NoRow EXCEPT !.status = "pruned"]]
  /\ UNCHANGED <<rpc, locked, todo, draft, brokerVars>>

-----------------------------------------------------------------------------

\* The steps of a pass that the code takes by itself, without a fault.
RelayStep(r) ==
  \/ SelectBatch(r)
  \/ \E e \in Events : PublishConfirmed(r, e) \/ BuryConfirmed(r, e) \/ UpdateRow(r, e)
  \/ Commit(r)
  \/ Abort(r)

RelayFault(r) ==
  \/ \E e \in Events : PublishFails(r, e) \/ BuryFails(r, e)
  \/ LoseSession(r)
  \/ RelayCrash(r)

RelayNext ==
  \/ \E e \in Events : PlaceOrder(e) \/ BackoffElapses(e) \/ PruneOutbox(e)
  \/ \E r \in Relays : RelayStep(r) \/ RelayFault(r)

\* A relay polls for as long as it lives (the timer re-arms itself after every
\* pass, failed or not) and time passes.  Orders, faults and pruning are never
\* owed.
RelayFairness ==
  /\ \A r \in Relays : WF_<<relayVars, brokerVars>>(RelayStep(r))
  /\ \A e \in Events : WF_<<relayVars, brokerVars>>(BackoffElapses(e))

-----------------------------------------------------------------------------

\* A row leaves the relay's query only when the broker has its event: a row
\* marked published was accepted by the work queue, a row marked failed was
\* accepted by the dead-letter queue, a pruned row was one of the two
\* (relay.ts publishes before it updates, and commits last).
SettledMeansHandedOver ==
  \A e \in Events :
    /\ outbox[e].status = "published" => accepted[e] > 0
    /\ outbox[e].status = "failed" => e \in dlq
    /\ outbox[e].status = "pruned" => accepted[e] > 0 \/ e \in dlq

\* Several relays share the table without publishing each other's rows: a
\* second copy of an event takes a fault, and each fault makes one at most
\* (FOR UPDATE SKIP LOCKED in relay.ts).
DuplicatesOnlyFromFaults ==
  \A e \in Events : accepted[e] <= 1 + faults

\* Two passes never hold the same row, and a held row is pending.
LocksExclusive ==
  /\ \A r, s \in Relays : r # s => locked[r] \cap locked[s] = {}
  /\ \A r \in Relays : \A e \in locked[r] : outbox[e].status = "pending"

\* What was published or failed keeps that outcome until it is pruned,
\* whichever pass looks at the row: also a pass whose session was lost and that
\* learns of it late (UPDATEs run inside the pass's transaction).
OutcomeIsFinal ==
  [][\A e \in Events :
       outbox[e].status \in {"published", "failed", "pruned"} =>
         outbox'[e].status \in {outbox[e].status, "pruned"}]_outbox
=============================================================================
