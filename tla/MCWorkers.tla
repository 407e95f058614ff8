------------------------------ MODULE MCWorkers ------------------------------
(***************************************************************************)
(* One task that succeeds, two that fail first and one that always does.   *)
(***************************************************************************)
EXTENDS Workers

MCFailTimes == [t \in Tasks |-> IF t = 1 THEN 3 ELSE IF t = 2 THEN 0 ELSE 1]
=============================================================================
