----------------------------- MODULE MCCheckout -----------------------------
(***************************************************************************)
(* A small shop.  Request 2 is a client's retry of request 1, request 4    *)
(* uses their key for another body.  "both" and "two" race for the last    *)
(* product 1; "both" and "other" share no product but a buyer, who can pay *)
(* for two "both" or for one of each; "bogus" names a product and "ghost"  *)
(* a buyer that does not exist.                                            *)
(***************************************************************************)
EXTENDS Checkout, TLC

MCRequests == 1..6
MCKeyOf == <<"a", "a", "b", "a", "b", "c">>
MCBodyOf == <<"both", "both", "two", "ghost", "bogus", "other">>
MCBodies == {"both", "two", "ghost", "bogus", "other"}
MCBuyerOf ==
  [b \in MCBodies |->
     IF b = "ghost" THEN "bob" ELSE IF b \in {"both", "other"} THEN "ann" ELSE "cat"]
MCQuantity ==
  ("both" :> <<1, 1, 0, 0>>) @@ ("two" :> <<2, 1, 0, 0>>)
    @@ ("ghost" :> <<0, 1, 0, 0>>) @@ ("bogus" :> <<0, 1, 0, 1>>)
    @@ ("other" :> <<0, 0, 1, 0>>)
MCPrice == <<2, 1, 2>>
MCStock == <<2, 2, 1>>
MCBalance == ("ann" :> 6) @@ ("cat" :> 5)
=============================================================================
