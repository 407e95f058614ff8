-------------------------------- MODULE TopUp --------------------------------
(***************************************************************************)
(* withRetry (common/retry.ts) at the work it is made for, the concurrent  *)
(* top-ups of demo-retry.ts: a REPEATABLE READ transaction reads a balance *)
(* and writes it back, PostgreSQL refuses the write (40001) when another   *)
(* has committed one since the snapshot, and the whole transaction is run  *)
(* again.                                                                  *)
(***************************************************************************)
EXTENDS Integers, FiniteSets

CONSTANTS
  Writers,    \* the top-ups, of one unit each
  MaxRuns     \* maxAttempts of withRetry

ASSUME TopUpAssumption ==
  /\ IsFiniteSet(Writers)
  /\ MaxRuns \in Nat
  /\ MaxRuns >= Cardinality(Writers)

VARIABLES
  balance,   \* users.balance_cents
  version,   \* committed writes of the row
  doing,     \* doing[w]: where writer w is
  attempt,   \* attempt[w]: of withRetry
  snapshot,  \* snapshot[w]: the version w's transaction reads
  read       \* read[w]: the balance it has read

topUpVars == <<balance, version, doing, attempt, snapshot, read>>

-----------------------------------------------------------------------------

TopUpInit ==
  /\ balance = 0
  /\ version = 0
  /\ doing = [w \in Writers |-> "starting"]
  /\ attempt = [w \in Writers |-> 1]
  /\ snapshot = [w \in Writers |-> 0]
  /\ read = [w \in Writers |-> 0]

\* The transaction's first statement: snapshot and balance.
Read(w) ==
  /\ doing[w] = "starting"
  /\ doing' = [doing EXCEPT ![w] = "read"]
  /\ snapshot' = [snapshot EXCEPT ![w] = version]
  /\ read' = [read EXCEPT ![w] = balance]
  /\ UNCHANGED <<balance, version, attempt>>

RowFree == \A v \in Writers : doing[v] # "updated"

\* Bug: the default isolation level, READ COMMITTED.
AnySnapshot(w) == TRUE

Current(w) == snapshot[w] = version

\* The UPDATE, when no other transaction holds the row.
Update(w) ==
  /\ doing[w] = "read"
  /\ RowFree
  /\ Current(w)
  /\ doing' = [doing EXCEPT ![w] = "updated"]
  /\ UNCHANGED <<balance, version, attempt, snapshot, read>>

Commit(w) ==
  /\ doing[w] = "updated"
  /\ balance' = read[w] + 1
  /\ version' = version + 1
  /\ doing' = [doing EXCEPT ![w] = "done"]
  /\ UNCHANGED <<attempt, snapshot, read>>

\* Another committed first: withRetry sleeps and runs it again from the
\* start, or gives up and throws.
Conflict(w) ==
  /\ doing[w] = "read"
  /\ RowFree
  /\ ~Current(w)
  /\ IF attempt[w] >= MaxRuns
       THEN doing' = [doing EXCEPT ![w] = "gaveUp"] /\ UNCHANGED attempt
       ELSE /\ doing' = [doing EXCEPT ![w] = "starting"]
            /\ attempt' = [attempt EXCEPT ![w] = @ + 1]
  /\ UNCHANGED <<balance, version, snapshot, read>>

TopUpNext ==
  \E w \in Writers : Read(w) \/ Update(w) \/ Commit(w) \/ Conflict(w)

-----------------------------------------------------------------------------

TopUpTypeOK ==
  /\ balance \in Nat
  /\ version \in Nat
  /\ doing \in [Writers -> {"starting", "read", "updated", "done", "gaveUp"}]
  /\ attempt \in [Writers -> 1..MaxRuns]
  /\ snapshot \in [Writers -> Nat]
  /\ read \in [Writers -> Nat]

\* As many attempts as there are writers are enough: when all have ended the
\* balance has every top-up, none is lost and none gave up
\* (demo-retry.ts:63-74; its WRITERS + 5 is more than that).
EveryTopUpCounts ==
  (\A w \in Writers : doing[w] \in {"done", "gaveUp"})
    => balance = Cardinality(Writers)
=============================================================================
