------------------------------- MODULE Workers -------------------------------
(***************************************************************************)
(* Three parts of the back end that touch nothing of each other: the task  *)
(* pool, top-ups under withRetry, and a process's publisher.  Steps of     *)
(* different parts commute, so a behaviour is about one of them.           *)
(***************************************************************************)
EXTENDS Tasks, TopUp, Publisher

VARIABLE part

vars == <<taskVars, topUpVars, publisherVars, part>>

Init ==
  /\ TasksInit /\ TopUpInit /\ PublisherInit
  /\ part \in {"pool", "topUps", "publisher"}

Pool == part = "pool" /\ TasksNext /\ UNCHANGED <<topUpVars, publisherVars, part>>

TopUps == part = "topUps" /\ TopUpNext /\ UNCHANGED <<taskVars, publisherVars, part>>

Publishing(A) == part = "publisher" /\ A /\ UNCHANGED <<taskVars, topUpVars, part>>

Next == Pool \/ TopUps \/ Publishing(PublisherNext)

Spec == Init /\ [][Next]_vars

\* Calls to the broker return, and the relay goes on with its passes.
FairSpec == Spec /\ WF_vars(Publishing(PublisherStep))

-----------------------------------------------------------------------------

\* When the broker is back the relay's next publishes succeed, without a
\* restart of the process (README.md:951-952), unless the broker had closed
\* only the channel: send() goes on using that (publisher.ts:49).
PublisherRecovers == part = "publisher" => PublishesAgain
=============================================================================
