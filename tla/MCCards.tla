------------------------------- MODULE MCCards -------------------------------
(***************************************************************************)
(* Two requests for product 1, which is created, bought and returned to    *)
(* the shelf meanwhile, beside a refresh of its card (job 4) and a demo    *)
(* job that fails its three attempts (job 5).                              *)
(***************************************************************************)
EXTENDS Cards

MCAsks == <<1, 1>>
MCBuys == [b \in {"b"} |-> {1}]
MCFailTimes == [j \in {4, 5} |-> IF j = 5 THEN 3 ELSE 0]
MCBatch == <<1>>
=============================================================================
