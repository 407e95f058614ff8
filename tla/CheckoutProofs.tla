--------------------------- MODULE CheckoutProofs ---------------------------
(***************************************************************************)
(* What holds of POST /orders for every set of requests and every shop:    *)
(* the locks of CheckoutInv, with them that the transaction is atomic, and *)
(* that until all are answered there is a request that can go on.          *)
(***************************************************************************)
EXTENDS Checkout, Induction

\* totalCents is a number: no product that is wanted has a price or a quantity
\* below zero (checkout.ts).
LEMMA TotalType == Total \in [Bodies -> Nat]
<1> SUFFICES ASSUME NEW b \in Bodies
             PROVE  SumFunctionOnSet([p \in Catalog |-> Quantity[b][p] * Price[p]],
                                     Wanted[b] \cap Catalog) \in Nat
  BY DEF Total
<1> DEFINE f == [p \in Catalog |-> Quantity[b][p] * Price[p]]
<1>1. f \in [Catalog -> Nat]
  <2>1. ASSUME NEW p \in Catalog PROVE Quantity[b][p] * Price[p] \in Nat
    <3>1. Quantity[b][p] \in Nat /\ Price[p] \in Nat
      BY ShopAssumption
    <3>2. \A m, n \in Nat : m * n \in Nat
      OBVIOUS
    <3>3. QED
      BY <3>1, <3>2
  <2>2. QED
    BY <2>1
<1>2. IsFiniteSet(Catalog) /\ Wanted[b] \cap Catalog \in SUBSET Catalog
  BY ShopAssumption, FS_Subset
<1> HIDE DEF f
<1>3. \A T \in SUBSET Catalog : SumFunctionOnSet(f, T) \in Nat
  BY <1>1, <1>2, SumNat
<1>4. QED
  BY <1>2, <1>3 DEF f

\* What a request asks for, as numbers (orders/dto/create-order.dto.ts).
LEMMA RequestFacts ==
  ASSUME NEW q \in Requests
  PROVE  /\ KeyOf[q] \in Keys
         /\ Items(q) \subseteq Products
         /\ \A p \in Products : Units(q, p) \in Nat /\ (p \notin Items(q) => Units(q, p) = 0)
         /\ Cost(q) \in Nat
<1>1. /\ KeyOf[q] \in Keys
      /\ BodyOf[q] \in Bodies
  BY ShopAssumption
<1>2. Items(q) = {p \in Products : Quantity[BodyOf[q]][p] > 0}
  BY <1>1 DEF Items, Wanted
<1>3. \A p \in Products : Quantity[BodyOf[q]][p] \in Nat
  BY <1>1, ShopAssumption
<1>4. Cost(q) \in Nat
  BY <1>1, TotalType DEF Cost
<1>5. QED
  BY <1>1, <1>2, <1>3, <1>4 DEF Units

\* The shop opens in order.
LEMMA CheckoutInvInit == CheckoutInit => CheckoutInv
<1> SUFFICES ASSUME CheckoutInit PROVE CheckoutInv
  OBVIOUS
<1>1. CheckoutTypeOK
  BY ShopAssumption DEF CheckoutInit, CheckoutTypeOK, Open
<1>2. QED
  BY <1>1 DEF CheckoutInit, CheckoutInv, KeysUnique, ClaimsHold, ReservationsHold, ChargesHold,
             ReplayIsOriginal, KeyRows, Open

-----------------------------------------------------------------------------
(* Steps that end a request, or only move it on.                           *)

\* An answer without a commit: everything q held is free again (the ROLLBACK
\* in common/idempotency.ts).
LEMMA RolledBack ==
  ASSUME CheckoutInv, NEW q \in Requests, NEW a \in Answers \ {"replayed"},
         pc[q] \in Open, End(q, a), UNCHANGED <<tables, original>>
  PROVE  CheckoutInv'
<1> USE DEF CheckoutInv, CheckoutTypeOK, tables
<1>1. /\ \A o \in Requests : pc'[o] = IF o = q THEN a ELSE pc[o]
      /\ \A o \in Requests : reserved'[o] = IF o = q THEN {} ELSE reserved[o]
      /\ pc' \in [Requests -> Open \union Answers]
      /\ reserved' \in [Requests -> SUBSET Catalog]
  BY DEF End, MoveTo
<1>2. a \notin Open /\ a \notin {"reserve", "save", "replayed"}
  BY DEF Open, Answers
<1>3. KeysUnique'
  BY DEF KeysUnique
<1>4. ClaimsHold'
  BY <1>1, <1>2 DEF ClaimsHold, KeyRows
<1>5. ReservationsHold'
  BY <1>1, <1>2 DEF ReservationsHold
<1>6. ChargesHold'
  BY <1>1, <1>2 DEF ChargesHold
<1>7. ReplayIsOriginal'
  BY <1>1, <1>2 DEF ReplayIsOriginal
<1>8. QED
  BY <1>1, <1>3, <1>4, <1>5, <1>6, <1>7

\* The claim (INSERT ... ON CONFLICT DO NOTHING).
LEMMA InvClaim == ASSUME CheckoutInv, NEW q \in Requests, Claim(q) PROVE CheckoutInv'
<1> USE DEF CheckoutInv, CheckoutTypeOK, tables
<1>1. PICK s \in {"lookup", "reserve"} :
        /\ MoveTo(q, s)
        /\ s = "reserve" => KeyRows(KeyOf[q]) = {} /\ KeyFree(KeyOf[q])
  BY DEF Claim
<1>2. UNCHANGED <<tables, reserved, original>> /\ pc[q] = "claim"
  BY DEF Claim
<1>3. /\ \A o \in Requests : pc'[o] = IF o = q THEN s ELSE pc[o]
      /\ pc' \in [Requests -> Open \union Answers]
  BY <1>1 DEF MoveTo, Open
<1>4. KeysUnique'
  BY <1>2 DEF KeysUnique
<1>5. ClaimsHold'
  <2>1. \A o \in Requests :
          s = "reserve" /\ pc[o] \in {"reserve", "save"} => KeyOf[o] # KeyOf[q]
    BY <1>1 DEF KeyFree, HoldsKey
  <2>2. \A o \in Requests : pc'[o] \in Open => o \notin orders
    BY <1>2, <1>3 DEF ClaimsHold, Open
  <2>3. \A o \in Requests : pc'[o] \in {"reserve", "save"} => KeyRows(KeyOf[o]) = {}
    BY <1>1, <1>3 DEF ClaimsHold
  <2>4. \A o, r \in Requests : o # r /\ pc'[o] \in {"reserve", "save"}
                                     /\ pc'[r] \in {"reserve", "save"} => KeyOf[o] # KeyOf[r]
    BY <1>3, <2>1 DEF ClaimsHold
  <2>5. \A k : KeyRows(k)' = KeyRows(k)
    BY <1>2 DEF KeyRows
  <2>6. QED
    BY <1>2, <2>2, <2>3, <2>4, <2>5 DEF ClaimsHold
<1>6. ReservationsHold'
  BY <1>2, <1>3 DEF ReservationsHold
<1>7. ChargesHold'
  BY <1>2, <1>3 DEF ChargesHold
<1>8. ReplayIsOriginal'
  BY <1>2, <1>3 DEF ReplayIsOriginal
<1>9. QED
  BY <1>2, <1>3, <1>4, <1>5, <1>6, <1>7, <1>8

\* The lookup of a key that is taken.
LEMMA InvLookup == ASSUME CheckoutInv, NEW q \in Requests, Lookup(q) PROVE CheckoutInv'
<1> USE DEF CheckoutInv, CheckoutTypeOK, tables
<1>1. CASE End(q, "reused") /\ UNCHANGED original
  BY <1>1, RolledBack DEF Lookup, Open, Answers
<1>2. CASE \E o \in KeyRows(KeyOf[q]) :
             /\ BodyOf[o] = BodyOf[q]
             /\ End(q, "replayed")
             /\ original' = [original EXCEPT ![q] = o]
  <2>1. PICK o \in stored : /\ KeyOf[o] = KeyOf[q]
                            /\ BodyOf[o] = BodyOf[q]
                            /\ End(q, "replayed")
                            /\ original' = [original EXCEPT ![q] = o]
    BY <1>2 DEF KeyRows
  <2>2. /\ \A r \in Requests : pc'[r] = IF r = q THEN "replayed" ELSE pc[r]
        /\ \A r \in Requests : reserved'[r] = IF r = q THEN {} ELSE reserved[r]
        /\ \A r \in Requests : original'[r] = IF r = q THEN o ELSE original[r]
        /\ pc' \in [Requests -> Open \union Answers]
        /\ reserved' \in [Requests -> SUBSET Catalog]
        /\ original' \in [Requests -> Requests]
    BY <2>1 DEF End, MoveTo, Answers
  <2>3. UNCHANGED tables /\ pc[q] = "lookup"
    BY DEF Lookup
  <2>4. o \in orders \ {q}
    BY <2>1, <2>3 DEF KeysUnique, ClaimsHold, Open
  <2>5. KeysUnique'
    BY <2>3 DEF KeysUnique
  <2>6. ClaimsHold'
    BY <2>2, <2>3 DEF ClaimsHold, KeyRows, Open
  <2>7. ReservationsHold'
    BY <2>2, <2>3 DEF ReservationsHold
  <2>8. ChargesHold'
    BY <2>2, <2>3 DEF ChargesHold
  <2>9. ReplayIsOriginal'
    BY <2>1, <2>2, <2>3, <2>4 DEF ReplayIsOriginal
  <2>10. QED
    BY <2>2, <2>3, <2>5, <2>6, <2>7, <2>8, <2>9
<1>3. QED
  BY <1>1, <1>2 DEF Lookup

\* A product is reserved: its row is now locked (checkout.ts, first UPDATE).
LEMMA InvReserve ==
  ASSUME CheckoutInv, NEW q \in Requests, NEW p \in Products, Reserve(q, p)
  PROVE  CheckoutInv'
<1> USE DEF CheckoutInv, CheckoutTypeOK, tables
<1>1. /\ pc[q] = "reserve"
      /\ p \in Items(q) /\ p \in Catalog
      /\ stock[p] >= Units(q, p)
      /\ \A o \in Requests : p \notin reserved[o]
      /\ UNCHANGED <<tables, pc, original>>
  BY DEF Reserve, IsNextLine, ProductFree, HoldsProduct
<1>2. /\ \A o \in Requests :
           reserved'[o] = IF o = q THEN reserved[o] \union {p} ELSE reserved[o]
      /\ reserved' \in [Requests -> SUBSET Catalog]
  BY <1>1 DEF Reserve
<1>3. KeysUnique' /\ ClaimsHold' /\ ReplayIsOriginal'
  BY <1>1 DEF KeysUnique, ClaimsHold, ReplayIsOriginal, KeyRows
<1>4. ReservationsHold'
  BY <1>1, <1>2 DEF ReservationsHold
<1>5. ChargesHold'
  BY <1>1, <1>2 DEF ChargesHold
<1>6. QED
  BY <1>1, <1>2, <1>3, <1>4, <1>5

\* The buyer is charged: the account's row is now locked (second UPDATE).
LEMMA InvCharge == ASSUME CheckoutInv, NEW q \in Requests, Charge(q) PROVE CheckoutInv'
<1> USE DEF CheckoutInv, CheckoutTypeOK, tables
<1>1. /\ pc[q] = "reserve"
      /\ reserved[q] = Items(q)
      /\ Buyer(q) \in Accounts
      /\ balance[Buyer(q)] >= Cost(q)
      /\ \A o \in Requests : pc[o] = "save" => Buyer(o) # Buyer(q)
      /\ UNCHANGED <<tables, reserved, original>>
  BY DEF Charge, AccountFree, HoldsAccount
<1>2. /\ \A o \in Requests : pc'[o] = IF o = q THEN "save" ELSE pc[o]
      /\ pc' \in [Requests -> Open \union Answers]
  BY DEF Charge, MoveTo, Open
<1>3. KeysUnique' /\ ReplayIsOriginal'
  BY <1>1, <1>2 DEF KeysUnique, ReplayIsOriginal
<1>4. ClaimsHold'
  BY <1>1, <1>2 DEF ClaimsHold, KeyRows, Open
<1>5. ReservationsHold'
  BY <1>1, <1>2 DEF ReservationsHold
<1>6. ChargesHold'
  BY <1>1, <1>2 DEF ChargesHold
<1>7. QED
  BY <1>1, <1>2, <1>3, <1>4, <1>5, <1>6

-----------------------------------------------------------------------------
(* The commit.                                                             *)

\* What a COMMIT makes of stock and balance: q's own share goes, and nobody
\* else's reservation or charge is touched.
LEMMA CommittedFacts ==
  ASSUME CheckoutInv, NEW q \in Requests, pc[q] = "save", Committed(q)
  PROVE  /\ stored' = stored \union {q} /\ orders' = orders \union {q}
         /\ pruned' = pruned
         /\ stock' \in [Catalog -> Nat]
         /\ balance' \in [Accounts -> Nat]
         /\ \A p \in Catalog : p \notin reserved[q] => stock'[p] = stock[p]
         /\ \A u \in Accounts : u # Buyer(q) => balance'[u] = balance[u]
<1> USE DEF CheckoutInv, CheckoutTypeOK
<1>1. Buyer(q) \in Accounts /\ balance[Buyer(q)] >= Cost(q) /\ Cost(q) \in Nat
  BY RequestFacts DEF ChargesHold
<1>2. \A p \in Catalog : Units(q, p) \in Nat /\ (p \in reserved[q] => stock[p] >= Units(q, p))
  BY RequestFacts, ShopAssumption DEF ReservationsHold
<1>3. stock' = [p \in Catalog |->
                 IF p \in reserved[q] THEN stock[p] - Units(q, p) ELSE stock[p]]
  BY DEF Committed
<1>4. \A p \in Catalog : (IF p \in reserved[q] THEN stock[p] - Units(q, p) ELSE stock[p]) \in Nat
  BY <1>2
<1>5. stock' \in [Catalog -> Nat]
  BY <1>3, <1>4
<1>6. balance[Buyer(q)] - Cost(q) \in Nat
  BY <1>1
<1>7. balance' = [balance EXCEPT ![Buyer(q)] = balance[Buyer(q)] - Cost(q)]
  BY DEF Committed
<1>8. balance' \in [Accounts -> Nat] /\ \A u \in Accounts : u # Buyer(q) => balance'[u] = balance[u]
  BY <1>6, <1>7
<1>9. QED
  BY <1>3, <1>5, <1>8 DEF Committed

\* A committed order keeps the invariant, whether or not its answer arrives.
LEMMA InvCommitted ==
  ASSUME CheckoutInv, NEW q \in Requests, pc[q] = "save", Committed(q),
         NEW a \in {"created", "lost"}, End(q, a), UNCHANGED original
  PROVE  CheckoutInv'
<1> USE DEF CheckoutInv, CheckoutTypeOK
<1>1. /\ \A o \in Requests : pc'[o] = IF o = q THEN a ELSE pc[o]
      /\ \A o \in Requests : reserved'[o] = IF o = q THEN {} ELSE reserved[o]
      /\ pc' \in [Requests -> Open \union Answers]
      /\ reserved' \in [Requests -> SUBSET Catalog]
  BY DEF End, MoveTo, Answers
<1>2. /\ stored' = stored \union {q} /\ orders' = orders \union {q}
      /\ pruned' = pruned
      /\ stock' \in [Catalog -> Nat]
      /\ balance' \in [Accounts -> Nat]
      /\ \A p \in Catalog : p \notin reserved[q] => stock'[p] = stock[p]
      /\ \A u \in Accounts : u # Buyer(q) => balance'[u] = balance[u]
  BY CommittedFacts
<1>3. \A o \in stored : KeyOf[o] # KeyOf[q]
  BY DEF ClaimsHold, KeyRows
<1>4. KeysUnique'
  BY <1>2, <1>3 DEF KeysUnique
<1>5. ClaimsHold'
  <2>1. \A o \in Requests : pc'[o] \in Open => o # q /\ o \notin orders'
    BY <1>1, <1>2 DEF ClaimsHold, Open
  <2>2. \A o \in Requests : pc'[o] \in {"reserve", "save"} =>
          o # q /\ pc[o] \in {"reserve", "save"} /\ KeyOf[o] # KeyOf[q]
    BY <1>1 DEF ClaimsHold
  <2>3. \A o \in Requests : pc'[o] \in {"reserve", "save"} => KeyRows(KeyOf[o])' = {}
    BY <1>2, <2>2 DEF ClaimsHold, KeyRows
  <2>4. QED
    BY <2>1, <2>2, <2>3 DEF ClaimsHold
<1>6. ReservationsHold'
  <2>1. \A o \in Requests : \A p \in reserved'[o] :
          o # q /\ p \in reserved[o] /\ p \in Catalog /\ p \notin reserved[q]
    BY <1>1 DEF ReservationsHold
  <2>2. QED
    BY <1>1, <1>2, <2>1 DEF ReservationsHold
<1>7. ChargesHold'
  <2>1. \A o \in Requests : pc'[o] = "save" =>
          o # q /\ pc[o] = "save" /\ Buyer(o) \in Accounts /\ Buyer(o) # Buyer(q)
    BY <1>1 DEF ChargesHold
  <2>2. QED
    BY <1>1, <1>2, <2>1 DEF ChargesHold
<1>8. ReplayIsOriginal'
  BY <1>1, <1>2 DEF ReplayIsOriginal
<1>9. QED
  BY <1>1, <1>2, <1>4, <1>5, <1>6, <1>7, <1>8

\* The retention job takes key rows away (prune.ts).
LEMMA InvPrune == ASSUME CheckoutInv, NEW k \in Keys, PruneKey(k) PROVE CheckoutInv'
<1> USE DEF CheckoutInv, CheckoutTypeOK
<1>1. /\ stored' \subseteq stored
      /\ pruned' \in [Keys -> Nat]
      /\ UNCHANGED <<orders, stock, balance, pc, reserved, original>>
  BY DEF PruneKey
<1>2. KeysUnique' /\ ReservationsHold' /\ ChargesHold' /\ ReplayIsOriginal'
  BY <1>1 DEF KeysUnique, ReservationsHold, ChargesHold, ReplayIsOriginal
<1>3. ClaimsHold'
  BY <1>1 DEF ClaimsHold, KeyRows
<1>4. QED
  BY <1>1, <1>2, <1>3

-----------------------------------------------------------------------------

\* Every step of every request, and the retention job, keep the invariant.
LEMMA InvStep == CheckoutInv /\ [CheckoutNext]_checkoutVars => CheckoutInv'
<1> SUFFICES ASSUME CheckoutInv, [CheckoutNext]_checkoutVars PROVE CheckoutInv'
  OBVIOUS
<1>1. CASE UNCHANGED checkoutVars
  BY <1>1 DEF CheckoutInv, CheckoutTypeOK, KeysUnique, ClaimsHold, ReservationsHold, ChargesHold,
              ReplayIsOriginal, KeyRows, checkoutVars, tables
<1>2. ASSUME NEW q \in Requests, NEW p \in Products, ReserveRefused(q, p)
      PROVE  CheckoutInv'
  BY <1>2, RolledBack DEF ReserveRefused, Open, Answers
<1>3. ASSUME NEW q \in Requests, ChargeRefused(q)
      PROVE  CheckoutInv'
  BY <1>3, RolledBack DEF ChargeRefused, Open, Answers
<1>4. ASSUME NEW q \in Requests, CommitOrder(q)
      PROVE  CheckoutInv'
  BY <1>4, InvCommitted DEF CommitOrder
<1>5. ASSUME NEW q \in Requests, Lose(q)
      PROVE  CheckoutInv'
  <2>1. CASE UNCHANGED tables
    BY <1>5, <2>1, RolledBack DEF Lose, Answers
  <2>2. CASE pc[q] = "save" /\ Committed(q)
    BY <1>5, <2>2, InvCommitted DEF Lose
  <2>3. QED
    BY <1>5, <2>1, <2>2 DEF Lose
<1>6. QED
  BY <1>1, <1>2, <1>3, <1>4, <1>5, InvClaim, InvLookup, InvReserve, InvCharge, InvPrune
  DEF CheckoutNext, Step

\* The invariant holds in every reachable state.
THEOREM CheckoutInvariance == CheckoutSpec => []CheckoutInv
  BY CheckoutInvInit, InvStep, PTL DEF CheckoutSpec

\* Stock and balances never go below zero: the CHECK constraints of
\* products and users never fire.
THEOREM NothingOverdrawn == CheckoutSpec => []CheckoutTypeOK
<1>1. CheckoutInv => CheckoutTypeOK
  BY DEF CheckoutInv
<1>2. QED
  BY <1>1, CheckoutInvariance, PTL

\* A replayed answer is the committed order of the same key and body.
THEOREM ReplaysAreOriginal == CheckoutSpec => []ReplayIsOriginal
<1>1. CheckoutInv => ReplayIsOriginal
  BY DEF CheckoutInv
<1>2. QED
  BY <1>1, CheckoutInvariance, PTL

-----------------------------------------------------------------------------
(* Atomicity.                                                              *)

\* The commit is the whole purchase of OrderBook, in one step.
LEMMA CommitIsPurchase ==
  ASSUME CheckoutInv, NEW q \in Requests, pc[q] = "save", Committed(q)
  PROVE  Atomic!Purchase(q)
<1> USE DEF CheckoutInv, CheckoutTypeOK
<1>1. Atomic!KeyRows(KeyOf[q]) = {}
  BY DEF ClaimsHold, KeyRows, Atomic!KeyRows
<1>2. /\ Items(q) = reserved[q]
      /\ Items(q) \subseteq Catalog
      /\ \A p \in Items(q) : stock[p] >= Units(q, p)
      /\ Buyer(q) \in Accounts
      /\ balance[Buyer(q)] >= Cost(q)
  BY DEF ChargesHold, ReservationsHold
<1>3. \A p \in Catalog : (IF p \in reserved[q] THEN stock[p] - Units(q, p) ELSE stock[p])
                            = stock[p] - Units(q, p)
  BY <1>2, RequestFacts, ShopAssumption
<1>4. stock' = [p \in Catalog |-> stock[p] - Units(q, p)]
  BY <1>3 DEF Committed
<1>5. QED
  BY <1>1, <1>2, <1>4
  DEF Committed, Atomic!Purchase

\* Every step is a step of OrderBook or none at all.
LEMMA StepIsAtomic ==
  ASSUME CheckoutInv, [CheckoutNext]_checkoutVars
  PROVE  [Atomic!Next]_(Atomic!vars)
<1> DEFINE Outcome == [q \in Requests |-> IF pc[q] \in Open THEN "open" ELSE pc[q]]
<1> USE DEF CheckoutInv, CheckoutTypeOK
<1>1. ASSUME UNCHANGED tables, Outcome' = Outcome
      PROVE  UNCHANGED Atomic!vars
  BY <1>1 DEF Atomic!vars, tables
<1>2. ASSUME NEW q \in Requests, pc[q] \in Open, NEW s \in Open, MoveTo(q, s)
      PROVE  Outcome' = Outcome
  BY <1>2 DEF MoveTo
<1>3. ASSUME NEW q \in Requests, pc[q] \in Open, NEW a \in Answers, End(q, a)
      PROVE  Atomic!Answer(q, a)
  <2>1. a \notin Open
    BY DEF Open, Answers
  <2>2. QED
    BY <1>3, <2>1 DEF Atomic!Answer, End, MoveTo
<1>4. ASSUME UNCHANGED tables
      PROVE  Atomic!Nothing
  BY <1>4 DEF tables, Atomic!Nothing
<1>5. CASE UNCHANGED checkoutVars
  BY <1>1, <1>5 DEF checkoutVars
<1>6. ASSUME NEW q \in Requests, Claim(q) \/ Charge(q)
      PROVE  [Atomic!Next]_(Atomic!vars)
  <2>1. Outcome' = Outcome
    BY <1>2, <1>6 DEF Claim, Charge, Open
  <2>2. QED
    BY <1>1, <1>6, <2>1 DEF Claim, Charge
<1>7. ASSUME NEW q \in Requests, NEW p \in Products, Reserve(q, p)
      PROVE  [Atomic!Next]_(Atomic!vars)
  BY <1>1, <1>7 DEF Reserve
<1>8. ASSUME NEW q \in Requests, Lookup(q)
      PROVE  [Atomic!Next]_(Atomic!vars)
  <2>1. CASE \E o \in KeyRows(KeyOf[q]) : BodyOf[o] = BodyOf[q] /\ End(q, "replayed")
    <3>1. Atomic!Answer(q, "replayed")
      BY <1>3, <1>8, <2>1 DEF Lookup, Open, Answers
    <3>2. Atomic!Replay(q)
      BY <1>4, <1>8, <2>1, <3>1 DEF Lookup, Atomic!Replay, Atomic!KeyRows, KeyRows
    <3>3. QED
      BY <3>2 DEF Atomic!Next
  <2>2. CASE (\A o \in KeyRows(KeyOf[q]) : BodyOf[o] # BodyOf[q]) /\ End(q, "reused")
    <3>1. Atomic!Answer(q, "reused")
      BY <1>3, <1>8, <2>2 DEF Lookup, Open, Answers
    <3>2. Atomic!Reuse(q)
      BY <1>4, <1>8, <2>2, <3>1 DEF Lookup, Atomic!Reuse, Atomic!KeyRows, KeyRows
    <3>3. QED
      BY <3>2 DEF Atomic!Next
  <2>3. QED
    BY <1>8, <2>1, <2>2 DEF Lookup
<1>9. ASSUME NEW q \in Requests, pc[q] = "reserve", End(q, "conflict"),
             UNCHANGED tables,
             \/ \E p \in Items(q) \cap Catalog : stock[p] < Units(q, p)
             \/ Buyer(q) \in Accounts /\ balance[Buyer(q)] < Cost(q)
      PROVE  [Atomic!Next]_(Atomic!vars)
  <2>1. Atomic!Answer(q, "conflict")
    BY <1>3, <1>9 DEF Open, Answers
  <2>2. Atomic!Conflict(q)
    BY <1>4, <1>9, <2>1 DEF Atomic!Conflict
  <2>3. QED
    BY <2>2 DEF Atomic!Next
<1>10. ASSUME NEW q \in Requests, pc[q] = "reserve", End(q, "unknown"),
              UNCHANGED tables,
              ~(Items(q) \subseteq Catalog) \/ Buyer(q) \notin Accounts
       PROVE  [Atomic!Next]_(Atomic!vars)
  <2>1. Atomic!Answer(q, "unknown")
    BY <1>3, <1>10 DEF Open, Answers
  <2>2. Atomic!Unknown(q)
    BY <1>4, <1>10, <2>1 DEF Atomic!Unknown
  <2>3. QED
    BY <2>2 DEF Atomic!Next
<1>11. ASSUME NEW q \in Requests, NEW p \in Products, ReserveRefused(q, p)
       PROVE  [Atomic!Next]_(Atomic!vars)
  BY <1>9, <1>10, <1>11 DEF ReserveRefused, IsNextLine
<1>12. ASSUME NEW q \in Requests, ChargeRefused(q)
       PROVE  [Atomic!Next]_(Atomic!vars)
  BY <1>9, <1>10, <1>12 DEF ChargeRefused
<1>13. ASSUME NEW q \in Requests, CommitOrder(q)
       PROVE  [Atomic!Next]_(Atomic!vars)
  <2>1. Atomic!Answer(q, "created")
    BY <1>3, <1>13 DEF CommitOrder, Open, Answers
  <2>2. Atomic!Create(q)
    BY <1>13, <2>1, CommitIsPurchase DEF CommitOrder, Atomic!Create
  <2>3. QED
    BY <2>2 DEF Atomic!Next
<1>14. ASSUME NEW q \in Requests, Lose(q)
       PROVE  [Atomic!Next]_(Atomic!vars)
  <2>1. Atomic!Answer(q, "lost")
    BY <1>3, <1>14 DEF Lose, Answers
  <2>2. Atomic!Purchase(q) \/ Atomic!Nothing
    BY <1>4, <1>14, CommitIsPurchase DEF Lose
  <2>3. QED
    BY <2>1, <2>2 DEF Atomic!Fail, Atomic!Next
<1>15. ASSUME NEW k \in Keys, PruneKey(k)
       PROVE  [Atomic!Next]_(Atomic!vars)
  <2>1. Atomic!Prune(k)
    BY <1>15 DEF PruneKey, Atomic!Prune, KeyRows, Atomic!KeyRows
  <2>2. QED
    BY <2>1 DEF Atomic!Next
<1>16. QED
  BY <1>5, <1>6, <1>7, <1>8, <1>11, <1>12, <1>13, <1>14, <1>15 DEF CheckoutNext, Step

\* POST /orders is atomic: whatever requests overlap, get lost or are retried,
\* it behaves as if each took effect in one step.
THEOREM CheckoutIsAtomic == CheckoutSpec => ImplementsOrderBook
<1>1. CheckoutInit => Atomic!Init
  BY DEF CheckoutInit, Open, Atomic!Init
<1>2. QED
  BY <1>1, StepIsAtomic, CheckoutInvariance, PTL DEF CheckoutSpec, ImplementsOrderBook, Atomic!Spec

-----------------------------------------------------------------------------
(* Counting orders.                                                        *)

\* Each step keeps the count of a key's orders: the commit adds one and its
\* row, the retention job takes the row and counts it.
LEMMA CountStep == CheckoutInv /\ OrdersCounted /\ [CheckoutNext]_checkoutVars => OrdersCounted'
<1> SUFFICES ASSUME CheckoutInv, OrdersCounted, [CheckoutNext]_checkoutVars
             PROVE  OrdersCounted'
  OBVIOUS
<1> USE DEF CheckoutInv, CheckoutTypeOK
<1> DEFINE Of(k) == {o \in orders : KeyOf[o] = k}
<1>1. \A k : IsFiniteSet(Of(k)) /\ Cardinality(Of(k)) \in Nat
  BY FS_Subset, FS_CardinalityType, ShopAssumption
<1>2. CASE UNCHANGED <<stored, orders, pruned>>
  BY <1>2 DEF OrdersCounted, KeyRows
<1>3. ASSUME NEW q \in Requests, pc[q] = "save", Committed(q)
      PROVE  OrdersCounted'
  <2>1. /\ stored' = stored \union {q} /\ orders' = orders \union {q}
        /\ pruned' = pruned
        /\ q \notin orders
        /\ KeyRows(KeyOf[q]) = {}
    BY <1>3 DEF Committed, ClaimsHold, Open
  <2>2. ASSUME NEW k \in Keys, k # KeyOf[q]
        PROVE  Of(k)' = Of(k) /\ KeyRows(k)' = KeyRows(k)
    BY <2>1, <2>2 DEF KeyRows
  <2>3. Of(KeyOf[q])' = Of(KeyOf[q]) \union {q} /\ KeyRows(KeyOf[q])' # {}
    BY <2>1 DEF KeyRows
  <2>4. Cardinality(Of(KeyOf[q]) \union {q}) = Cardinality(Of(KeyOf[q])) + 1
    <3>1. q \notin Of(KeyOf[q])
      BY <2>1
    <3>2. IsFiniteSet(Of(KeyOf[q]))
      BY <1>1
    <3> HIDE DEF Of
    <3>3. QED
      BY <3>1, <3>2, FS_AddElement
  <2> HIDE DEF Of
  <2>5. ASSUME NEW k \in Keys
        PROVE  Cardinality(Of(k)') = pruned'[k] + (IF KeyRows(k)' = {} THEN 0 ELSE 1)
    <3>1. Cardinality(Of(k)) = pruned[k] + (IF KeyRows(k) = {} THEN 0 ELSE 1)
      BY DEF OrdersCounted, Of
    <3>2. CASE k = KeyOf[q]
      <4>1. Cardinality(Of(k)) = pruned[k]
        BY <2>1, <3>1, <3>2
      <4>2. Of(k)' = Of(k) \union {q} /\ KeyRows(k)' # {}
        BY <2>3, <3>2
      <4>3. Cardinality(Of(k) \union {q}) = Cardinality(Of(k)) + 1
        BY <2>4, <3>2
      <4>4. QED
        BY <2>1, <4>1, <4>2, <4>3
    <3>3. CASE k # KeyOf[q]
      BY <2>1, <2>2, <3>1, <3>3
    <3>4. QED
      BY <3>2, <3>3
  <2>6. QED
    BY <2>5 DEF OrdersCounted, Of
<1>4. ASSUME NEW k \in Keys, PruneKey(k)
      PROVE  OrdersCounted'
  <2>1. /\ orders' = orders
        /\ KeyRows(k) # {} /\ KeyRows(k)' = {}
        /\ pruned' = [pruned EXCEPT ![k] = @ + 1]
        /\ \A j \in Keys : j # k => KeyRows(j)' = KeyRows(j)
    BY <1>4 DEF PruneKey, KeyRows
  <2>2. QED
    BY <2>1 DEF OrdersCounted
<1>5. QED
  BY <1>2, <1>3, <1>4
  DEF CheckoutNext, Step, Claim, Lookup, Reserve, ReserveRefused, Charge, ChargeRefused,
      CommitOrder, Lose, checkoutVars, tables

\* One key, one order, until the retention job takes the key away.
THEOREM OneOrder == CheckoutSpec => []OneOrderPerKey
<1>1. ASSUME CheckoutInit PROVE OrdersCounted
  <2>1. \A k \in Keys : {o \in orders : KeyOf[o] = k} = {} /\ KeyRows(k) = {}
    BY <1>1 DEF CheckoutInit, KeyRows
  <2>2. \A k \in Keys : Cardinality({o \in orders : KeyOf[o] = k}) = 0
    BY <2>1, FS_EmptySet
  <2>3. \A k \in Keys : pruned[k] = 0
    BY <1>1 DEF CheckoutInit
  <2>4. QED
    BY <2>1, <2>2, <2>3 DEF OrdersCounted
<1>2. ASSUME CheckoutInv, OrdersCounted PROVE OneOrderPerKey
  <2> SUFFICES ASSUME NEW k \in Keys
               PROVE  Cardinality({o \in orders : KeyOf[o] = k}) <= 1 + pruned[k]
    BY DEF OneOrderPerKey
  <2> DEFINE placed == Cardinality({o \in orders : KeyOf[o] = k})
  <2>1. placed = pruned[k] + (IF KeyRows(k) = {} THEN 0 ELSE 1)
    BY <1>2 DEF OrdersCounted
  <2>2. pruned[k] \in Nat
    BY <1>2 DEF CheckoutInv, CheckoutTypeOK
  <2> HIDE DEF placed
  <2>3. placed <= 1 + pruned[k]
    BY <2>1, <2>2
  <2>4. QED
    BY <2>3 DEF placed
<1>3. QED
  BY <1>1, <1>2, CountStep, CheckoutInvariance, PTL DEF CheckoutSpec

-----------------------------------------------------------------------------
(* Deadlock.                                                               *)

\* Each step keeps the order of the reservations (the sort in checkout.ts).
LEMMA OrderStep == CheckoutInv /\ ReservedInOrder /\ [CheckoutNext]_checkoutVars => ReservedInOrder'
<1> SUFFICES ASSUME CheckoutInv, ReservedInOrder, [CheckoutNext]_checkoutVars
             PROVE  ReservedInOrder'
  OBVIOUS
<1> USE DEF CheckoutInv, CheckoutTypeOK
<1>1. ASSUME NEW q \in Requests, NEW p \in Products, Reserve(q, p)
      PROVE  ReservedInOrder'
  <2>1. /\ p \in Items(q)
        /\ \A r \in Items(q) \ reserved[q] : p <= r
        /\ \A o \in Requests :
             reserved'[o] = IF o = q THEN reserved[o] \union {p} ELSE reserved[o]
    BY <1>1 DEF Reserve, IsNextLine
  <2>2. Items(q) \subseteq Nat /\ p \in Nat
    BY RequestFacts, ShopAssumption
  <2>3. \A r \in Items(q) \ (reserved[q] \union {p}) : p < r
    BY <2>1, <2>2
  <2>4. \A o \in Requests : \A m \in reserved'[o] : \A r \in Items(o) \ reserved'[o] : m < r
    <3> SUFFICES ASSUME NEW o \in Requests, NEW m \in reserved'[o],
                        NEW r \in Items(o) \ reserved'[o]
                 PROVE  m < r
      OBVIOUS
    <3>1. CASE o = q /\ m = p
      BY <2>1, <2>3, <3>1
    <3>2. CASE m \in reserved[o]
      BY <2>1, <3>2 DEF ReservedInOrder
    <3>3. QED
      BY <2>1, <3>1, <3>2
  <2>5. QED
    BY <2>4 DEF ReservedInOrder, Items
<1>2. ASSUME \A o \in Requests : reserved'[o] \in {{}, reserved[o]}
      PROVE  ReservedInOrder'
  BY <1>2 DEF ReservedInOrder
<1>3. ASSUME NEW q \in Requests, NEW a, End(q, a)
      PROVE  \A o \in Requests : reserved'[o] \in {{}, reserved[o]}
  BY <1>3 DEF End
<1>4. QED
  BY <1>1, <1>2, <1>3
  DEF CheckoutNext, Step, Claim, Lookup, ReserveRefused, Charge, ChargeRefused, CommitOrder,
      Lose, PruneKey, checkoutVars

\* Who is waited for and waits itself stands between two products; who waits
\* for such a one waits for a product, and is behind it.
LEMMA WaitsUp ==
  ASSUME CheckoutInv, ReservedInOrder,
         NEW q \in Requests, NEW o \in Requests, NEW x \in Requests, NEW y \in Requests,
         WaitsFor(q, o), WaitsFor(o, x), WaitsFor(x, y)
  PROVE  /\ pc[o] = "reserve"
         /\ \E p \in Products : IsNextLine(o, p)
         /\ pc[q] = "reserve" =>
              \E p, r \in Products : IsNextLine(q, p) /\ IsNextLine(o, r) /\ p < r
<1> USE DEF CheckoutInv, CheckoutTypeOK
<1>1. \A a, b \in Requests : WaitsFor(a, b) =>
        pc[a] \in {"claim", "reserve"} /\ pc[b] \in {"reserve", "save"}
  BY DEF WaitsFor, HoldsKey, HoldsProduct, HoldsAccount, ReservationsHold
<1>2. \A a, b, c \in Requests :
        WaitsFor(a, b) /\ WaitsFor(b, c) /\ pc[a] = "reserve" =>
          \E p \in Products : IsNextLine(a, p) /\ p \in reserved[b]
  BY <1>1, ShopAssumption DEF WaitsFor, HoldsAccount, HoldsProduct
<1>3. pc[o] = "reserve"
  BY <1>1
<1>4. PICK r \in Products : IsNextLine(o, r)
  BY <1>2, <1>3
<1>5. ASSUME pc[q] = "reserve"
      PROVE  \E p \in Products : IsNextLine(q, p) /\ p < r
  <2>1. PICK p \in Products : IsNextLine(q, p) /\ p \in reserved[o]
    BY <1>2, <1>5
  <2>2. p < r
    BY <1>4, <2>1 DEF ReservedInOrder, IsNextLine
  <2>3. QED
    BY <2>1, <2>2
<1>6. QED
  BY <1>3, <1>4, <1>5

\* A circle of waiting requests would have no last one in the order of the
\* products they wait for.
LEMMA NoCircle ==
  ASSUME CheckoutInv, ReservedInOrder, NEW S \in SUBSET Requests, S # {}
  PROVE  \E q \in S : \A o \in S : ~WaitsFor(q, o)
<1> SUFFICES ASSUME \A q \in S : \E o \in S : WaitsFor(q, o)
             PROVE  FALSE
  OBVIOUS
<1> DEFINE R == {q \in S : pc[q] = "reserve"}
           Behind(q) == {r \in R : \E p, n \in Products :
                           IsNextLine(q, p) /\ IsNextLine(r, n) /\ p <= n}
           T == {Behind(q) : q \in R}
<1>1. \A q \in R : \E o \in R : \E p, n \in Products :
        IsNextLine(q, p) /\ IsNextLine(o, n) /\ p < n
  BY WaitsUp
<1>2. R # {}
  BY WaitsUp
<1>3. \A q \in Requests : \A p, n \in Products : IsNextLine(q, p) /\ IsNextLine(q, n) => p = n
  BY ShopAssumption DEF IsNextLine
<1>4. T \subseteq FiniteSubsetsOf(Requests) /\ T # {}
  <2>1. FiniteSubsetsOf(Requests) = SUBSET Requests
    BY FS_FiniteSubsetsOfFinite, ShopAssumption
  <2>2. \A q \in R : Behind(q) \in SUBSET Requests
    OBVIOUS
  <2> HIDE DEF Behind
  <2>3. QED
    BY <1>2, <2>1, <2>2
<1>5. PICK B \in T : \A C \in T : <<C, B>> \notin StrictSubsetOrdering(Requests)
  BY <1>4, WFMin, FS_StrictSubsetOrderingWellFounded
<1>6. PICK q \in R : B = Behind(q)
  BY <1>5
<1>7. PICK o \in R, p \in Products, n \in Products : IsNextLine(q, p) /\ IsNextLine(o, n) /\ p < n
  BY <1>1, <1>6
<1>8. Behind(o) \subseteq Behind(q)
  BY <1>3, <1>7, ShopAssumption
<1>9. q \in Behind(q) /\ q \notin Behind(o)
  BY <1>3, <1>6, <1>7, ShopAssumption
<1>10. Behind(o) \in T /\ Behind(o) \in SUBSET Requests /\ Behind(q) \in SUBSET Requests
  BY <1>7
<1> HIDE DEF Behind, T
<1>11. <<Behind(o), Behind(q)>> \in StrictSubsetOrdering(Requests)
  BY <1>8, <1>9, <1>10 DEF StrictSubsetOrdering
<1>12. QED
  BY <1>5, <1>6, <1>10, <1>11

\* Checkouts never wait for each other in a circle.
THEOREM DeadlockFree == CheckoutSpec => []NoDeadlock
<1>1. CheckoutInit => ReservedInOrder
  BY DEF CheckoutInit, ReservedInOrder
<1>2. ASSUME CheckoutInv, ReservedInOrder PROVE NoDeadlock
  <2> DEFINE waiting == {q \in Requests : \E o \in Requests : WaitsFor(q, o)}
  <2>1. waiting \subseteq Requests
    OBVIOUS
  <2> HIDE DEF waiting
  <2>2. \A S \in (SUBSET waiting) \ {{}} :
          \E q \in S : \A o \in S : ~WaitsFor(q, o)
    <3> SUFFICES ASSUME NEW S \in (SUBSET waiting) \ {{}}
                 PROVE  \E q \in S : \A o \in S : ~WaitsFor(q, o)
      OBVIOUS
    <3>1. S \in SUBSET Requests /\ S # {}
      BY <2>1
    <3>2. QED
      BY <1>2, <3>1, NoCircle
  <2>3. QED
    BY <2>2 DEF NoDeadlock, waiting
<1>3. QED
  BY <1>1, <1>2, OrderStep, CheckoutInvariance, PTL DEF CheckoutSpec

-----------------------------------------------------------------------------
(* The books.                                                              *)

\* What the orders of a set took of product p, and cost together.
UnitsOf(p, S) == SumFunctionOnSet([o \in Requests |-> Units(o, p)], S)
CostOf(S) == SumFunctionOnSet([o \in Requests |-> Cost(o)], S)

OrdersOf(u) == {o \in orders : Buyer(o) = u}

LEMMA UnitsFacts ==
  ASSUME NEW p \in Catalog
  PROVE  /\ UnitsOf(p, {}) = 0
         /\ \A S \in SUBSET Requests : UnitsOf(p, S) \in Int
         /\ \A S \in SUBSET Requests : \A q \in Requests \ S :
              UnitsOf(p, S \union {q}) = Units(q, p) + UnitsOf(p, S)
<1> DEFINE f == [o \in Requests |-> Units(o, p)]
<1>1. f \in [Requests -> Int]
  BY RequestFacts, ShopAssumption
<1>2. \A q \in Requests : f[q] = Units(q, p)
  OBVIOUS
<1> HIDE DEF f
<1>3. /\ SumFunctionOnSet(f, {}) = 0
      /\ \A S \in SUBSET Requests : SumFunctionOnSet(f, S) \in Int
      /\ \A S \in SUBSET Requests : \A q \in Requests \ S :
           SumFunctionOnSet(f, S \union {q}) = f[q] + SumFunctionOnSet(f, S)
  BY <1>1, SumFacts, ShopAssumption
<1>4. QED
  BY <1>2, <1>3 DEF UnitsOf, f

LEMMA CostFacts ==
  /\ CostOf({}) = 0
  /\ \A S \in SUBSET Requests : CostOf(S) \in Int
  /\ \A S \in SUBSET Requests : \A q \in Requests \ S :
       CostOf(S \union {q}) = Cost(q) + CostOf(S)
<1> DEFINE f == [o \in Requests |-> Cost(o)]
<1>1. f \in [Requests -> Int]
  BY RequestFacts
<1>2. \A q \in Requests : f[q] = Cost(q)
  OBVIOUS
<1> HIDE DEF f
<1>3. /\ SumFunctionOnSet(f, {}) = 0
      /\ \A S \in SUBSET Requests : SumFunctionOnSet(f, S) \in Int
      /\ \A S \in SUBSET Requests : \A q \in Requests \ S :
           SumFunctionOnSet(f, S \union {q}) = f[q] + SumFunctionOnSet(f, S)
  BY <1>1, SumFacts, ShopAssumption
<1>4. QED
  BY <1>2, <1>3 DEF CostOf, f

\* A commit takes its order's units and its price, of every product and of
\* every account.
LEMMA BooksCommitted ==
  ASSUME CheckoutInv, BooksBalance, NEW q \in Requests, pc[q] = "save", Committed(q)
  PROVE  BooksBalance'
<1>1. /\ q \in Requests \ orders /\ orders \in SUBSET Requests
      /\ orders' = orders \union {q}
      /\ reserved[q] = Items(q)
      /\ Buyer(q) \in Accounts
  BY DEF CheckoutInv, CheckoutTypeOK, ClaimsHold, ChargesHold, Open, Committed
<1>2. stock' \in [Catalog -> Nat] /\ balance' \in [Accounts -> Nat]
  BY CommittedFacts
<1>3. ASSUME NEW p \in Catalog PROVE stock'[p] = InitialStock[p] - UnitsOf(p, orders')
  <2>1. Units(q, p) \in Nat /\ (p \notin Items(q) => Units(q, p) = 0)
    BY RequestFacts, ShopAssumption
  <2>2. stock'[p] = stock[p] - Units(q, p)
    <3>1. stock'[p] = IF p \in Items(q) THEN stock[p] - Units(q, p) ELSE stock[p]
      BY <1>1 DEF Committed
    <3>2. stock[p] \in Nat
      BY DEF CheckoutInv, CheckoutTypeOK
    <3>3. QED
      BY <2>1, <3>1, <3>2
  <2>3. stock[p] = InitialStock[p] - UnitsOf(p, orders)
    BY DEF BooksBalance, UnitsOf
  <2>4. UnitsOf(p, orders') = Units(q, p) + UnitsOf(p, orders) /\ UnitsOf(p, orders) \in Int
    BY <1>1, UnitsFacts
  <2>5. InitialStock[p] \in Int
    BY ShopAssumption
  <2>6. QED
    BY <2>1, <2>2, <2>3, <2>4, <2>5
<1>4. ASSUME NEW u \in Accounts
      PROVE  balance'[u] = InitialBalance[u] - CostOf(OrdersOf(u)')
  <2>1. balance[u] = InitialBalance[u] - CostOf(OrdersOf(u)) /\ OrdersOf(u) \in SUBSET Requests
    BY <1>1 DEF BooksBalance, CostOf, OrdersOf
  <2>2. CASE Buyer(q) = u
    <3>1. OrdersOf(u)' = OrdersOf(u) \union {q} /\ q \in Requests \ OrdersOf(u)
      BY <1>1, <2>2 DEF OrdersOf
    <3>2. CostOf(OrdersOf(u)') = Cost(q) + CostOf(OrdersOf(u)) /\ CostOf(OrdersOf(u)) \in Int
      BY <2>1, <3>1, CostFacts
    <3>3. balance'[u] = balance[u] - Cost(q)
      BY <2>2 DEF Committed, CheckoutInv, CheckoutTypeOK
    <3>4. Cost(q) \in Nat /\ InitialBalance[u] \in Int
      BY RequestFacts, ShopAssumption
    <3>5. QED
      BY <2>1, <3>2, <3>3, <3>4
  <2>3. CASE Buyer(q) # u
    <3>1. OrdersOf(u)' = OrdersOf(u)
      BY <1>1, <2>3 DEF OrdersOf
    <3>2. balance'[u] = balance[u]
      BY <2>3 DEF Committed, CheckoutInv, CheckoutTypeOK
    <3>3. QED
      BY <2>1, <3>1, <3>2
  <2>4. QED
    BY <2>2, <2>3
<1>5. QED
  BY <1>2, <1>3, <1>4 DEF BooksBalance, UnitsOf, CostOf, OrdersOf

LEMMA BooksStep == CheckoutInv /\ BooksBalance /\ [CheckoutNext]_checkoutVars => BooksBalance'
<1> SUFFICES ASSUME CheckoutInv, BooksBalance, [CheckoutNext]_checkoutVars PROVE BooksBalance'
  OBVIOUS
<1>1. ASSUME UNCHANGED <<orders, stock, balance>> PROVE BooksBalance'
  BY <1>1 DEF BooksBalance
<1>2. ASSUME NEW q \in Requests, CommitOrder(q) \/ Lose(q) PROVE BooksBalance'
  BY <1>1, <1>2, BooksCommitted DEF CommitOrder, Lose, tables
<1>3. ASSUME NEW q \in Requests, Step(q), ~CommitOrder(q) PROVE BooksBalance'
  BY <1>1, <1>3 DEF Step, Claim, Lookup, Reserve, ReserveRefused, Charge, ChargeRefused, tables
<1>4. ASSUME NEW k \in Keys, PruneKey(k) PROVE BooksBalance'
  BY <1>1, <1>4 DEF PruneKey
<1>5. CASE UNCHANGED checkoutVars
  BY <1>1, <1>5 DEF checkoutVars, tables
<1>6. QED
  BY <1>2, <1>3, <1>4, <1>5 DEF CheckoutNext

\* For any number of requests, products and accounts: what is gone from stock
\* and balances is what the committed orders took, to the unit and the cent,
\* whatever is refused, lost or replayed on the way (the UPDATEs and the
\* COMMIT of checkout.ts).
THEOREM BooksAreBalanced == CheckoutSpec => []BooksBalance
<1>1. CheckoutInit => BooksBalance
  <2> SUFFICES ASSUME CheckoutInit PROVE BooksBalance
    OBVIOUS
  <2>1. orders = {} /\ stock = InitialStock /\ balance = InitialBalance
    BY DEF CheckoutInit
  <2>2. \A u : OrdersOf(u) = {}
    BY <2>1 DEF OrdersOf
  <2>3. \A p \in Catalog : UnitsOf(p, orders) = 0 /\ InitialStock[p] \in Nat
    BY <2>1, UnitsFacts, ShopAssumption
  <2>4. \A u \in Accounts : CostOf(OrdersOf(u)) = 0 /\ InitialBalance[u] \in Nat
    BY <2>2, CostFacts, ShopAssumption
  <2>5. QED
    BY <2>1, <2>3, <2>4 DEF BooksBalance, UnitsOf, CostOf, OrdersOf
<1>2. QED
  BY <1>1, BooksStep, CheckoutInvariance, PTL DEF CheckoutSpec

-----------------------------------------------------------------------------
(* Progress.                                                               *)

\* The guard of Step(q): its next statement waits for nobody.
StepReady(q) ==
  \/ pc[q] = "claim" /\ (KeyRows(KeyOf[q]) # {} \/ KeyFree(KeyOf[q]))
  \/ pc[q] \in {"lookup", "save"}
  \/ /\ pc[q] = "reserve"
     /\ \E p \in Products :
          /\ IsNextLine(q, p)
          /\ p \notin Catalog \/ stock[p] < Units(q, p) \/ ProductFree(p)
  \/ /\ pc[q] = "reserve"
     /\ Items(q) = reserved[q]
     /\ \/ Buyer(q) \notin Accounts
        \/ balance[Buyer(q)] < Cost(q)
        \/ AccountFree(Buyer(q))

\* While a request is not answered somebody's next statement can run.
CheckoutRuns ==
  (\E q \in Requests : pc[q] \in Open) => \E q \in Requests : StepReady(q)

\* The lines of a request come one after the other until all are reserved.
LEMMA SomeLine ==
  ASSUME CheckoutInv, NEW q \in Requests, pc[q] = "reserve", Items(q) # reserved[q]
  PROVE  \E p \in Products : IsNextLine(q, p)
<1>1. Items(q) \ reserved[q] # {}
  BY DEF CheckoutInv, CheckoutTypeOK, ReservationsHold
<1>2. Items(q) \subseteq Products /\ Items(q) \ reserved[q] \in SUBSET Nat
  BY RequestFacts, ShopAssumption
<1>3. PICK p \in Items(q) \ reserved[q] : \A o \in Items(q) \ reserved[q] : p <= o
  BY <1>1, <1>2, LeastNumber
<1>4. QED
  BY <1>2, <1>3 DEF IsNextLine

\* A request that cannot go on waits for one that is not answered either.
LEMMA StuckWaits ==
  ASSUME CheckoutInv, NEW q \in Requests, pc[q] \in Open, ~StepReady(q)
  PROVE  \E o \in Requests : WaitsFor(q, o) /\ pc[o] \in Open
<1> USE DEF CheckoutInv, CheckoutTypeOK
<1>1. CASE pc[q] = "claim"
  <2>1. KeyRows(KeyOf[q]) = {} /\ ~KeyFree(KeyOf[q])
    BY <1>1 DEF StepReady
  <2>2. PICK o \in Requests : HoldsKey(o, KeyOf[q])
    BY <2>1 DEF KeyFree
  <2>3. QED
    BY <1>1, <2>1, <2>2 DEF WaitsFor, HoldsKey, Open
<1>2. CASE pc[q] = "reserve" /\ Items(q) # reserved[q]
  <2>1. PICK p \in Products : IsNextLine(q, p)
    BY <1>2, SomeLine
  <2>2. p \in Catalog /\ ~(stock[p] < Units(q, p)) /\ ~ProductFree(p)
    BY <1>2, <2>1 DEF StepReady
  <2>3. PICK o \in Requests : HoldsProduct(o, p)
    BY <2>2 DEF ProductFree
  <2>4. q # o /\ pc[o] \in Open
    BY <2>1, <2>3 DEF IsNextLine, HoldsProduct, ReservationsHold, Open
  <2>5. stock[p] >= Units(q, p)
    BY <2>2, RequestFacts
  <2>6. QED
    BY <1>2, <2>1, <2>2, <2>3, <2>4, <2>5 DEF WaitsFor
<1>3. CASE pc[q] = "reserve" /\ Items(q) = reserved[q]
  <2>1. /\ Buyer(q) \in Accounts
        /\ ~(balance[Buyer(q)] < Cost(q))
        /\ ~AccountFree(Buyer(q))
    BY <1>3 DEF StepReady
  <2>2. PICK o \in Requests : HoldsAccount(o, Buyer(q))
    BY <2>1 DEF AccountFree
  <2>3. balance[Buyer(q)] >= Cost(q)
    BY <2>1, RequestFacts
  <2>4. q # o /\ pc[o] \in Open
    BY <1>3, <2>2 DEF HoldsAccount, Open
  <2>5. QED
    BY <1>3, <2>1, <2>2, <2>3, <2>4 DEF WaitsFor
<1>4. QED
  BY <1>1, <1>2, <1>3 DEF StepReady, Open

\* There is always a request that can go on, until all are answered: the locks
\* of the transactions never hold everybody up (checkout.ts, idempotency.ts).
THEOREM CheckoutsGoOn == CheckoutSpec => []CheckoutRuns
<1>1. CheckoutInit => ReservedInOrder
  BY DEF CheckoutInit, ReservedInOrder
<1>2. CheckoutInv /\ ReservedInOrder => CheckoutRuns
  <2> SUFFICES ASSUME CheckoutInv, ReservedInOrder,
                      NEW q \in Requests, pc[q] \in Open,
                      \A o \in Requests : ~StepReady(o)
               PROVE  FALSE
    BY DEF CheckoutRuns
  <2> DEFINE S == {o \in Requests : pc[o] \in Open}
  <2>1. S \in SUBSET Requests /\ S # {}
    OBVIOUS
  <2>2. PICK o \in S : \A x \in S : ~WaitsFor(o, x)
    BY <2>1, NoCircle
  <2>3. QED
    BY <2>2, StuckWaits
<1>3. QED
  BY <1>1, <1>2, OrderStep, CheckoutInvariance, PTL DEF CheckoutSpec

\* The statements request q has before it at most.
StatementsLeft(q) ==
  CASE pc[q] = "claim"   -> Cardinality(Items(q)) + 3
    [] pc[q] = "reserve" -> Cardinality(Items(q) \ reserved[q]) + 2
    [] pc[q] \in {"lookup", "save"} -> 1
    [] OTHER -> 0

\* What a request does brings it nearer to its answer, and nothing that others
\* do takes it back.
OnlyForward ==
  [][\A q \in Requests :
       <<pc[q], reserved[q]>>' # <<pc[q], reserved[q]>>
         => StatementsLeft(q)' < StatementsLeft(q)]_checkoutVars

\* What is left of a request counts, and an open request has a statement left.
LEMMA LinesLeft ==
  ASSUME CheckoutInv, NEW q \in Requests
  PROVE  /\ IsFiniteSet(Items(q)) /\ IsFiniteSet(Items(q) \ reserved[q])
         /\ Cardinality(Items(q)) \in Nat
         /\ Cardinality(Items(q) \ reserved[q]) \in Nat
         /\ StatementsLeft(q) \in Nat
         /\ pc[q] \in Open => StatementsLeft(q) > 0
<1>1. IsFiniteSet(Items(q)) /\ IsFiniteSet(Items(q) \ reserved[q])
  BY RequestFacts, ShopAssumption, FS_Subset
<1>2. Cardinality(Items(q)) \in Nat /\ Cardinality(Items(q) \ reserved[q]) \in Nat
  BY <1>1, FS_CardinalityType
<1>3. QED
  BY <1>1, <1>2 DEF StatementsLeft, Open

\* The same of one request.
CloserStep(q) ==
  <<pc[q], reserved[q]>>' # <<pc[q], reserved[q]>>
    => StatementsLeft(q)' < StatementsLeft(q)

\* A transition brings a request nearer to its answer or leaves it where it is.
LEMMA Closer ==
  ASSUME CheckoutInv, CheckoutInv', [CheckoutNext]_checkoutVars, NEW q \in Requests
  PROVE  CloserStep(q)
<1>0. /\ IsFiniteSet(Items(q) \ reserved[q])
      /\ Cardinality(Items(q)) \in Nat
      /\ Cardinality(Items(q) \ reserved[q]) \in Nat
      /\ StatementsLeft(q) \in Nat
      /\ pc[q] \in Open => StatementsLeft(q) > 0
  BY LinesLeft
<1> USE DEF CheckoutInv, CheckoutTypeOK, CloserStep
<1>1. ASSUME NEW o \in Requests, Step(o) \/ Lose(o), o # q
      PROVE  UNCHANGED <<pc[q], reserved[q]>>
  BY <1>1 DEF Step, Claim, Lookup, Reserve, ReserveRefused, Charge, ChargeRefused,
              CommitOrder, Lose, MoveTo, End
<1>2. ASSUME NEW a \in Answers, pc[q] \in Open, End(q, a)
      PROVE  CloserStep(q)
  <2>1. pc'[q] = a /\ pc'[q] \notin Open
    BY <1>2 DEF End, MoveTo, Answers, Open
  <2>2. StatementsLeft(q)' = 0
    BY <2>1 DEF StatementsLeft, Open
  <2>3. QED
    BY <1>2, <2>2, <1>0
<1>3. CASE Claim(q)
  <2>1. pc[q] = "claim" /\ pc'[q] \in {"lookup", "reserve"} /\ UNCHANGED reserved
    BY <1>3 DEF Claim, MoveTo
  <2>2. reserved[q] = {}
    BY <2>1 DEF ReservationsHold
  <2>3. Items(q) \ reserved'[q] = Items(q)
    BY <2>1, <2>2
  <2>4. StatementsLeft(q) = Cardinality(Items(q)) + 3
    BY <2>1 DEF StatementsLeft
  <2>5. StatementsLeft(q)' \in {1, Cardinality(Items(q)) + 2}
    BY <2>1, <2>3 DEF StatementsLeft, Items
  <2>6. QED
    BY <2>4, <2>5, <1>0
<1>4. ASSUME NEW p \in Products, Reserve(q, p)
      PROVE  CloserStep(q)
  <2>1. /\ pc[q] = "reserve" /\ pc'[q] = "reserve"
        /\ p \in Items(q) \ reserved[q]
        /\ Items(q) \ reserved'[q] = (Items(q) \ reserved[q]) \ {p}
    BY <1>4 DEF Reserve, IsNextLine
  <2>2. Cardinality(Items(q) \ reserved'[q]) = Cardinality(Items(q) \ reserved[q]) - 1
    <3> DEFINE left == Items(q) \ reserved[q]
    <3>1. IsFiniteSet(left) /\ p \in left
      BY <2>1, <1>0
    <3>2. Cardinality(left \ {p}) = Cardinality(left) - 1
      <4> HIDE DEF left
      <4>1. QED
        BY <3>1, FS_RemoveElement
    <3>3. QED
      BY <2>1, <3>2
  <2>3. StatementsLeft(q) = Cardinality(Items(q) \ reserved[q]) + 2
    BY <2>1 DEF StatementsLeft
  <2>4. StatementsLeft(q)' = Cardinality(Items(q) \ reserved'[q]) + 2
    BY <2>1 DEF StatementsLeft, Items
  <2>5. QED
    BY <2>2, <2>3, <2>4, <1>0
<1>5. CASE Charge(q)
  <2>1. pc[q] = "reserve" /\ pc'[q] = "save"
    BY <1>5 DEF Charge, MoveTo
  <2>2. StatementsLeft(q)' = 1 /\ StatementsLeft(q) = Cardinality(Items(q) \ reserved[q]) + 2
    BY <2>1 DEF StatementsLeft
  <2>3. QED
    BY <2>2, <1>0
<1>6. ASSUME \/ Lookup(q) \/ ChargeRefused(q) \/ CommitOrder(q) \/ Lose(q)
             \/ \E p \in Products : ReserveRefused(q, p)
      PROVE  CloserStep(q)
  <2>1. pc[q] \in Open /\ \E a \in Answers : End(q, a)
    BY <1>6 DEF Lookup, ChargeRefused, CommitOrder, Lose, ReserveRefused, Open, Answers
  <2>2. QED
    BY <2>1, <1>2
<1>7. ASSUME UNCHANGED <<pc, reserved>> PROVE CloserStep(q)
  BY <1>7
<1> HIDE DEF CloserStep
<1>8. ASSUME UNCHANGED <<pc[q], reserved[q]>> PROVE CloserStep(q)
  BY <1>8 DEF CloserStep
<1>9. QED
  BY <1>1, <1>3, <1>4, <1>5, <1>6, <1>7, <1>8
  DEF CheckoutNext, Step, PruneKey, checkoutVars

\* A checkout does not go round: it is answered after the statements for its
\* key, its products, its buyer and the commit, at most, however often it has
\* to wait (checkout.ts; idempotency.ts looks the key up once).
THEOREM CheckoutsEnd == CheckoutSpec => OnlyForward
<1>1. CheckoutInv /\ CheckoutInv' /\ [CheckoutNext]_checkoutVars
        => [\A q \in Requests :
              <<pc[q], reserved[q]>>' # <<pc[q], reserved[q]>>
                => StatementsLeft(q)' < StatementsLeft(q)]_checkoutVars
  BY Closer DEF CloserStep
<1>2. QED
  BY <1>1, CheckoutInvariance, PTL DEF CheckoutSpec, OnlyForward
=============================================================================
