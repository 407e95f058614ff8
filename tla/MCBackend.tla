------------------------------ MODULE MCBackend ------------------------------
(***************************************************************************)
(* Request 2 is a client's retry of request 1, and orders again when the   *)
(* key was pruned before it came.                                          *)
(***************************************************************************)
EXTENDS Backend, TLC

MCKeyOf == <<"a", "a">>
MCBodyOf == <<"one", "one">>
MCBuyerOf == "one" :> "ann"
MCQuantity == "one" :> <<1>>
MCPrice == <<1>>
MCStock == <<2>>
MCBalance == "ann" :> 2
=============================================================================
