----------------------------- MODULE MCRealtime -----------------------------
(***************************************************************************)
(* Order 1 of ann and order 2 of bob.  Order 1 is to be processed and to   *)
(* be cancelled, in one process or in two; order 2 is to be processed.     *)
(* "sse" is ann's stream of order 1, "bobs" a socket that tries both       *)
(* rooms.                                                                  *)
(***************************************************************************)
EXTENDS Realtime

MCOrderOf == <<1, 1, 2>>
MCNextOf == <<"processing", "cancelled", "processing">>
\* The processes are alike: the first change names process 1.
MCRoutes == {<<1, 1, 1>>, <<1, 2, 1>>}
MCOwnerOf == <<"ann", "bob">>
MCWatchOf == [sse |-> 1]
MCUserOf == [sse |-> "ann", bobs |-> "bob"]
=============================================================================
