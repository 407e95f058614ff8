------------------------------- MODULE MCPages -------------------------------
(***************************************************************************)
(* An admin and an owner page through three orders from one address.        *)
(***************************************************************************)
EXTENDS Pages

MCOwnerOf == [id \in Ids |-> IF id = 2 THEN "other" ELSE "owner"]
MCActorOf == [c \in Callers |-> c]
=============================================================================
