-------------------------------- MODULE Shop --------------------------------
(***************************************************************************)
(* What POST /orders is about: requests with their Idempotency-Key and     *)
(* body (orders/dto/create-order.dto.ts), products with stock, accounts    *)
(* with a balance.                                                         *)
(***************************************************************************)
EXTENDS Integers, FiniteSets, Functions

CONSTANTS
  Requests,        \* POST /orders requests; a client's retry is one more request
  Keys,            \* Idempotency-Key values
  Bodies,          \* request bodies, told apart as their fingerprints do
  Products,        \* product ids, ordered as numbers
  Catalog,         \* the products that exist
  Users,           \* user ids
  Accounts,        \* the users that exist
  KeyOf,           \* KeyOf[q]: the key request q carries
  BodyOf,          \* BodyOf[q]: its body
  BuyerOf,         \* BuyerOf[b]: user_id of body b
  Quantity,        \* Quantity[b][p]: units of p in all lines of b together
  Price,           \* Price[p]: price_cents
  InitialStock,
  InitialBalance,
  MaxPrunes,       \* bound: keys the retention job takes away
  MaxLost          \* bound: requests that fail or lose their answer

\* The products an order of body b reserves (the merged quantities).
Wanted == [b \in Bodies |-> {p \in Products : Quantity[b][p] > 0}]

\* totalCents
Total ==
  [b \in Bodies |->
     SumFunctionOnSet([p \in Catalog |-> Quantity[b][p] * Price[p]], Wanted[b] \cap Catalog)]

ASSUME ShopAssumption ==
  /\ IsFiniteSet(Requests)
  /\ Products \subseteq Nat
  /\ IsFiniteSet(Products)
  /\ Catalog \subseteq Products
  /\ Accounts \subseteq Users
  /\ KeyOf \in [Requests -> Keys]
  /\ BodyOf \in [Requests -> Bodies]
  /\ BuyerOf \in [Bodies -> Users]
  /\ Quantity \in [Bodies -> [Products -> Nat]]
  /\ Price \in [Catalog -> Nat]
  /\ InitialStock \in [Catalog -> Nat]
  /\ InitialBalance \in [Accounts -> Nat]
  /\ MaxPrunes \in Nat
  /\ MaxLost \in Nat

\* What a request has of its body.
Items(q) == Wanted[BodyOf[q]]
Units(q, p) == Quantity[BodyOf[q]][p]
Buyer(q) == BuyerOf[BodyOf[q]]
Cost(q) == Total[BodyOf[q]]
=============================================================================
