------------------------------- MODULE Outbox -------------------------------
(***************************************************************************)
(* The outbox half of the pipeline on its own: orders, relays, and a       *)
(* broker nobody consumes from.                                            *)
(***************************************************************************)
EXTENDS Relay

outboxVars == <<relayVars, brokerVars>>

Init == BrokerInit /\ RelayInit
Next == RelayNext
Spec == Init /\ [][Next]_outboxVars
FairSpec == Spec /\ RelayFairness

-----------------------------------------------------------------------------

\* Every placed order's event is handed over in the end, also when burying it
\* failed: the row stays in the query until one of the two succeeds.
EventuallySettled ==
  \A e \in Events :
    outbox[e].status = "pending" ~> outbox[e].status \in {"published", "failed", "pruned"}
=============================================================================
