----------------------------- MODULE TokensProofs -----------------------------
(***************************************************************************)
(* What holds of the tokens for any number of processes, calls, logins and *)
(* token pairs, through rotations of the signing key and pruning.          *)
(***************************************************************************)
EXTENDS Tokens, TLAPS

(* The invariant.                                                          *)

Dead == {"revoked", "pruned"}

\* The processes are at most one config apart; a token signed with the new
\* key shows that one of them has come to the third config, and a process of
\* the fourth shows that no old token is left.
RotationHolds ==
  /\ phase \in [Pods -> 1..4]
  /\ kid \in [Pairs -> {"none", "old", "new"}]
  /\ \A p, q \in Pods : phase[p] <= phase[q] + 1
  /\ \A t \in Pairs : kid[t] = "new" => \E p \in Pods : phase[p] >= 3
  /\ \A t \in Pairs, p \in Pods : phase[p] = 4 /\ kid[t] = "old" => t \in lapsed

\* A pair has a row, a family and a key as soon as it is issued.
RowsHold ==
  /\ row \in [Pairs -> Row]
  /\ DOMAIN family = Pairs
  /\ expired \subseteq lapsed
  /\ \A t \in Pairs :
       /\ kid[t] = "none" <=> row[t] = "none"
       /\ family[t] = NoFamily <=> row[t] = "none"
       /\ t \in lapsed => row[t] # "none"
       /\ row[t] = "pruned" => t \in expired

\* What a call has locked is of its own family and locked by no other.
LocksHold ==
  /\ DOMAIN stage = Calls
  /\ token \in [Calls -> Pairs \union {NoPair}]
  /\ next \in [Calls -> Pairs \union {NoPair}]
  /\ held \in [Calls -> SUBSET Pairs]
  /\ todo \in [Calls -> SUBSET Pairs]
  /\ \A c \in Calls :
       /\ stage[c] = "idle" => held[c] = {} /\ todo[c] = {}
       /\ stage[c] # "idle" => token[c] \in Pairs /\ row[token[c]] # "none"
       /\ \A u \in held[c] \union todo[c] : family[u] = family[token[c]]
       /\ IF stage[c] = "exchanged"
          THEN /\ token[c] \in held[c] /\ row[token[c]] = "fresh"
               /\ next[c] \in Pairs /\ row[next[c]] = "none"
          ELSE next[c] = NoPair
  /\ \A c, d \in Calls :
       c # d => held[c] \cap held[d] = {} /\ (next[c] = next[d] => next[c] = NoPair)

\* A pair that has a successor is spent.
SuccessorsHold ==
  /\ DOMAIN parent = Pairs
  /\ \A t \in Pairs : parent[t] # NoPair => /\ parent[t] \in Pairs
                                            /\ row[parent[t]] \in {"used"} \union Dead
  /\ OneSuccessor

\* A revocation under way has every row of the family in hand, and one that
\* was answered has left none alive, but for those that escaped; rows are
\* revoked and tokens denied with their family only.
RevocationHolds ==
  /\ \A c \in Calls : Revoking(c) =>
       \A u \in Pairs :
         \/ family[u] # family[token[c]]
         \/ u \in escaped \union held[c] \union todo[c]
         \/ row[u] \in Dead
  /\ \A t \in Pairs : family[t] \in killed => t \in escaped \/ row[t] \in Dead
  /\ \A t \in Pairs : row[t] = "revoked" \/ t \in denied => family[t] \in killed
  /\ \A f \in killed : f # NoFamily /\ \E t \in Pairs : family[t] = f

TokensInv ==
  RotationHolds /\ RowsHold /\ LocksHold /\ SuccessorsHold /\ RevocationHolds

LEMMA KeyFacts ==
  /\ Phases = 1..4
  /\ \A n \in 1..4 :
       /\ Configs[n].kid = IF n <= 2 THEN "old" ELSE "new"
       /\ "old" \in Configs[n].keyring <=> n <= 3
       /\ "new" \in Configs[n].keyring <=> n >= 2
       /\ Configs[n].keyring = {"new"} <=> n = 4
<1>1. DOMAIN Configs = 1..4
  BY DEF Configs
<1>2. \A n \in 1..4 : n = 1 \/ n = 2 \/ n = 3 \/ n = 4
  OBVIOUS
<1>3. \A n \in 1..4 :
       /\ Configs[n].kid = IF n <= 2 THEN "old" ELSE "new"
       /\ Configs[n].keyring = IF n = 1 THEN {"old"} ELSE IF n = 4 THEN {"new"} ELSE {"old", "new"}
  BY <1>2 DEF Configs
<1>4. Phases = 1..4
  BY <1>1, <1>2, <1>3 DEF Phases, ValidConfig
<1>5. QED
  BY <1>2, <1>3, <1>4

LEMMA Start == Init => TokensInv
<1> SUFFICES ASSUME Init PROVE TokensInv
  OBVIOUS
<1> USE DEF Init, KeysInit
<1>1. RotationHolds
  BY DEF RotationHolds
<1>2. RowsHold
  BY DEF RowsHold, Row, NoFamily
<1>3. LocksHold
  BY DEF LocksHold, NoPair
<1>4. SuccessorsHold
  BY DEF SuccessorsHold, OneSuccessor, NoPair
<1>5. RevocationHolds
  BY DEF RevocationHolds, Revoking
<1>6. QED
  BY <1>1, <1>2, <1>3, <1>4, <1>5 DEF TokensInv

-----------------------------------------------------------------------------
(* Steps inside a transaction.                                             *)

LEMMA RowsAlone ==
  ASSUME TokensInv, UNCHANGED <<keyVars, row, family, expired, auxVars>>
  PROVE  RotationHolds' /\ RowsHold' /\ SuccessorsHold'
  BY DEF TokensInv, RotationHolds, RowsHold, SuccessorsHold, OneSuccessor, keyVars, auxVars

\* A call that is not under way, and what it may do to another call's view.
LEMMA LocksFree ==
  ASSUME TokensInv, NEW c \in Calls, NEW t \in Pairs, RowFree(c, t)
  PROVE  \A d \in Calls \ {c} : t \notin held[d]
  BY DEF RowFree

LEMMA BeginKeeps ==
  ASSUME TokensInv, NEW c \in Calls, NEW t \in Pairs,
         \/ Reuse(c, t) \/ \E n \in Pairs : Exchange(c, t, n)
         \/ \E p \in Pods : Logout(c, t, p)
  PROVE  TokensInv'
<1> USE DEF TokensInv
<1>1. UNCHANGED <<keyVars, row, family, expired, denied, todo, auxVars>>
  BY DEF Reuse, Exchange, Logout
<1>2. /\ stage[c] = "idle" /\ stage'[c] \in {"reuse", "exchanged", "logout"}
      /\ \A d \in Calls \ {c} : stage'[d] = stage[d] /\ token'[d] = token[d] /\ next'[d] = next[d] /\ held'[d] = held[d]
      /\ DOMAIN stage' = Calls
      /\ token' \in [Calls -> Pairs \union {NoPair}] /\ token'[c] = t
      /\ next' \in [Calls -> Pairs \union {NoPair}]
      /\ held' \in [Calls -> SUBSET Pairs] /\ held'[c] \subseteq {t}
      /\ held'[c] # {} => RowFree(c, t)
  <2>1. CASE Reuse(c, t)
    BY <2>1 DEF Reuse, Goto, LocksHold
  <2>2. ASSUME NEW n \in Pairs, Exchange(c, t, n) PROVE <1>2!:
    BY <2>2 DEF Exchange, Goto, LocksHold
  <2>3. ASSUME NEW p \in Pods, Logout(c, t, p) PROVE <1>2!:
    BY <2>3 DEF Logout, Goto, LocksHold
  <2>4. QED
    BY <2>1, <2>2, <2>3
<1>3. row[t] # "none"
  <2>1. ASSUME NEW p \in Pods, Logout(c, t, p) PROVE row[t] # "none"
    <3>1. kid[t] \in Configs[phase[p]].keyring /\ phase[p] \in 1..4
      BY <2>1 DEF Logout, GuardAnswer, Accepted, Verifies, KeyKnown, RotationHolds
    <3>2. \A n \in 1..4 : "none" \notin Configs[n].keyring
      BY KeyFacts DEF Configs
    <3>3. QED
      BY <3>1, <3>2 DEF RowsHold
  <2>2. QED
    BY <2>1 DEF Reuse, Exchange
<1>4. IF stage'[c] = "exchanged"
      THEN /\ held'[c] = {t} /\ row[t] = "fresh"
           /\ next'[c] \in Pairs /\ row[next'[c]] = "none"
           /\ \A d \in Calls : next[d] # next'[c]
      ELSE next'[c] = NoPair
  <2>1. stage[c] = "idle" /\ next[c] = NoPair
    BY <1>2 DEF LocksHold
  <2>2. CASE Reuse(c, t)
    BY <2>1, <2>2 DEF Reuse, Goto, LocksHold
  <2>3. ASSUME NEW n \in Pairs, Exchange(c, t, n) PROVE <1>4!:
    <3>1. row[n] = "none" /\ \A d \in Calls : next[d] # n
      BY <2>3 DEF Exchange, IsNext, Unused
    <3>2. stage'[c] = "exchanged" /\ held'[c] = {t} /\ row[t] = "fresh" /\ next'[c] = n
      BY <2>3 DEF Exchange, Goto, LocksHold
    <3>3. QED
      BY <3>1, <3>2
  <2>4. ASSUME NEW p \in Pods, Logout(c, t, p) PROVE <1>4!:
    BY <2>1, <2>4 DEF Logout, Goto, LocksHold
  <2>5. QED
    BY <2>2, <2>3, <2>4
<1>5. LocksHold'
  <2>1. todo[c] = {} /\ \A u \in held'[c] : u = t /\ \A d \in Calls \ {c} : t \notin held[d]
    BY <1>2, LocksFree DEF LocksHold
  <2>2. \A d \in Calls :
         /\ stage'[d] = "idle" => held'[d] = {} /\ todo[d] = {}
         /\ stage'[d] # "idle" => token'[d] \in Pairs /\ row[token'[d]] # "none"
         /\ \A u \in held'[d] \union todo[d] : family[u] = family[token'[d]]
         /\ IF stage'[d] = "exchanged"
            THEN /\ token'[d] \in held'[d] /\ row[token'[d]] = "fresh"
                 /\ next'[d] \in Pairs /\ row[next'[d]] = "none"
            ELSE next'[d] = NoPair
    <3>1. ASSUME NEW d \in Calls, d # c
          PROVE /\ stage'[d] = stage[d] /\ token'[d] = token[d]
                /\ next'[d] = next[d] /\ held'[d] = held[d]
      BY <1>2, <3>1
    <3>2. QED
      BY <1>2, <1>3, <1>4, <2>1, <3>1 DEF LocksHold
  <2>3. \A d, e \in Calls :
         d # e => held'[d] \cap held'[e] = {} /\ (next'[d] = next'[e] => next'[d] = NoPair)
    BY <1>2, <1>4, <2>1 DEF LocksHold
  <2>4. QED
    BY <1>1, <1>2, <2>2, <2>3 DEF LocksHold
<1>6. RevocationHolds'
  BY <1>1, <1>2 DEF RevocationHolds, Revoking, auxVars
<1>7. QED
  BY <1>1, <1>5, <1>6, RowsAlone

LEMMA SweepKeeps == ASSUME TokensInv, NEW c \in Calls, Sweep(c) PROVE TokensInv'
<1> USE DEF TokensInv
<1>1. /\ UNCHANGED <<keyVars, row, family, expired, denied, token, next, held, auxVars>>
      /\ \A d \in Calls \ {c} : todo'[d] = todo[d] /\ stage'[d] = stage[d]
      /\ stage[c] \in {"reuse", "logout"} /\ stage'[c] \in {"revoking", "loggingOut"}
      /\ todo'[c] = Visible(c)
      /\ DOMAIN stage' = Calls
      /\ todo' \in [Calls -> SUBSET Pairs]
  BY DEF Sweep, Goto, LocksHold, Visible, FamilyRows
<1>2. Visible(c) = {u \in Pairs : family[u] = family[token[c]] /\ row[u] \in {"fresh", "used"}}
  BY DEF Visible, FamilyRows
<1>3. LocksHold'
  <2>1. \A d \in Calls : (stage'[d] = "exchanged" <=> stage[d] = "exchanged")
                         /\ (stage'[d] = "idle" <=> stage[d] = "idle")
    BY <1>1
  <2>2. QED
    BY <1>1, <1>2, <2>1 DEF LocksHold
<1>4. RevocationHolds'
  <2>1. \A u \in Pairs : \/ family[u] # family[token[c]]
                         \/ u \in todo'[c]
                         \/ row[u] \in Dead
    <3>1. token[c] \in Pairs /\ row[token[c]] # "none"
      BY <1>1 DEF LocksHold
    <3>2. QED
      BY <1>1, <1>2, <3>1 DEF RowsHold, Row, Dead
  <2>2. \A d \in Calls \ {c} : Revoking(d)' => Revoking(d)
    BY <1>1 DEF Revoking
  <2>3. QED
    BY <1>1, <2>1, <2>2 DEF RevocationHolds, auxVars
<1>5. QED
  BY <1>1, <1>3, <1>4, RowsAlone

LEMMA RevokeRowKeeps ==
  ASSUME TokensInv, NEW c \in Calls, NEW u \in Pairs, RevokeRow(c, u) PROVE TokensInv'
<1> USE DEF TokensInv
<1>1. /\ UNCHANGED <<keyVars, row, family, expired, denied, stage, token, next, auxVars>>
      /\ u \in todo[c]
      /\ \A d \in Calls : held'[d] = IF d = c THEN held[d] \union {u} ELSE held[d]
      /\ \A d \in Calls : todo'[d] = IF d = c THEN todo[d] \ {u} ELSE todo[d]
      /\ held' \in [Calls -> SUBSET Pairs]
      /\ todo' \in [Calls -> SUBSET Pairs]
      /\ \A d \in Calls \ {c} : u \notin held[d]
  BY LocksFree DEF RevokeRow, LocksHold
<1>2. \A d \in Calls : held'[d] \union todo'[d] = held[d] \union todo[d] /\ held[d] \subseteq held'[d]
  BY <1>1
<1>3. LocksHold'
  BY <1>1, <1>2 DEF LocksHold
<1>4. RevocationHolds'
  BY <1>1, <1>2 DEF RevocationHolds, Revoking, auxVars
<1>5. QED
  BY <1>1, <1>3, <1>4, RowsAlone

\* What End does to the calls.
LEMMA EndFacts ==
  ASSUME TokensInv, NEW c \in Calls, End(c)
  PROVE  /\ DOMAIN stage' = Calls
         /\ token' \in [Calls -> Pairs \union {NoPair}]
         /\ next' \in [Calls -> Pairs \union {NoPair}]
         /\ held' \in [Calls -> SUBSET Pairs]
         /\ todo' \in [Calls -> SUBSET Pairs]
         /\ stage'[c] = "idle" /\ next'[c] = NoPair /\ held'[c] = {} /\ todo'[c] = {}
         /\ ~Revoking(c)'
         /\ \A d \in Calls \ {c} :
              /\ stage'[d] = stage[d] /\ token'[d] = token[d] /\ next'[d] = next[d]
              /\ held'[d] = held[d] /\ todo'[d] = todo[d]
  BY DEF TokensInv, LocksHold, End, Goto, Revoking

LEMMA RollbackKeeps ==
  ASSUME TokensInv, NEW c \in Calls, DeadlockVictim(c) \/ Abort(c) PROVE TokensInv'
<1> USE DEF TokensInv
<1>1. End(c) /\ UNCHANGED <<keyVars, row, family, expired, denied, auxVars>>
  BY DEF DeadlockVictim, Abort
<1>2. LocksHold'
  BY <1>1, EndFacts DEF LocksHold
<1>3. RevocationHolds'
  BY <1>1, EndFacts DEF RevocationHolds, Revoking, auxVars
<1>4. QED
  BY <1>1, <1>2, <1>3, RowsAlone

-----------------------------------------------------------------------------
(* Steps that write rows.                                                  *)

LEMMA SignKeeps ==
  ASSUME TokensInv, NEW t \in Pairs, NEW p \in Pods, Sign(t, p), UNCHANGED <<phase, lapsed>>
  PROVE  /\ RotationHolds'
         /\ kid'[t] # "none"
         /\ \A u \in Pairs \ {t} : kid'[u] = kid[u]
<1> USE DEF TokensInv, RotationHolds
<1>1. phase[p] \in 1..4 /\ Configs[phase[p]].kid = IF phase[p] <= 2 THEN "old" ELSE "new"
  BY KeyFacts
<1>2. kid' = [kid EXCEPT ![t] = IF phase[p] <= 2 THEN "old" ELSE "new"]
  BY <1>1 DEF Sign
<1>3. \A q \in Pods : phase[q] \in 1..4 /\ phase[q] <= phase[p] + 1
  OBVIOUS
<1>4. QED
  BY <1>1, <1>2, <1>3

LEMMA LoginKeeps ==
  ASSUME TokensInv, NEW f \in Families, NEW p \in Pods, NEW t \in Pairs, Login(f, p, t)
  PROVE  TokensInv'
<1> USE DEF TokensInv
<1>1. /\ Sign(t, p)
      /\ row[t] = "none" /\ \A c \in Calls : next[c] # t
      /\ \A u \in Pairs : family[u] # f
      /\ row' = [row EXCEPT ![t] = "fresh"]
      /\ family' = [family EXCEPT ![t] = f]
      /\ UNCHANGED <<phase, lapsed, expired, denied, stage, token, next, held, todo,
                     parent, killed, escaped>>
  BY DEF Login, FamilyRows, IsNext, Unused, txVars, auxVars
<1>2. family[t] = NoFamily /\ f # NoFamily
  BY <1>1 DEF RowsHold
<1>3. \A u \in Pairs : /\ row'[u] = IF u = t THEN "fresh" ELSE row[u]
                       /\ family'[u] = IF u = t THEN f ELSE family[u]
  BY <1>1 DEF RowsHold
<1>4. RowsHold'
  BY <1>1, <1>2, <1>3, SignKeeps DEF RowsHold, Row
<1>5. \A c \in Calls : stage[c] # "idle" => token[c] \in Pairs /\ token[c] # t
  BY <1>1 DEF LocksHold
<1>6. \A c \in Calls : t \notin held[c] \union todo[c]
  BY <1>1, <1>2, <1>5 DEF LocksHold, RowsHold
<1>7. LocksHold'
  BY <1>1, <1>3, <1>5, <1>6 DEF LocksHold
<1>8. SuccessorsHold'
  BY <1>1, <1>3 DEF SuccessorsHold, OneSuccessor, Dead
<1>9. RevocationHolds'
  <2>1. \A c \in Calls : Revoking(c) => stage[c] # "idle"
    BY DEF Revoking
  <2>2. f \notin killed /\ t \notin denied /\ row[t] # "revoked"
    BY <1>1, <1>2 DEF RevocationHolds
  <2>3. QED
    <3>1. \A c \in Calls : Revoking(c)' <=> Revoking(c)
      BY <1>1 DEF Revoking
    <3>2. ASSUME NEW c \in Calls, Revoking(c)
          PROVE  \A u \in Pairs : \/ family'[u] # family'[token[c]]
                                  \/ u \in escaped \union held[c] \union todo[c]
                                  \/ row'[u] \in Dead
      <4>1. token[c] \in Pairs /\ token[c] # t /\ family[token[c]] # f
        BY <1>1, <1>5, <2>1, <3>2
      <4>2. QED
        BY <1>3, <3>2, <4>1 DEF RevocationHolds
    <3>3. \A u \in Pairs : family'[u] \in killed => u \in escaped \/ row'[u] \in Dead
      BY <1>3, <2>2 DEF RevocationHolds
    <3>4. \A u \in Pairs : row'[u] = "revoked" \/ u \in denied => family'[u] \in killed
      BY <1>3, <2>2 DEF RevocationHolds
    <3>5. \A g \in killed : g # NoFamily /\ \E u \in Pairs : family'[u] = g
      BY <1>2, <1>3 DEF RevocationHolds
    <3>6. QED
      BY <1>1, <3>1, <3>2, <3>3, <3>4, <3>5 DEF RevocationHolds
<1>10. QED
  BY <1>1, <1>4, <1>7, <1>8, <1>9, SignKeeps

LEMMA ExchangeKeeps ==
  ASSUME TokensInv, NEW c \in Calls, NEW p \in Pods, CommitExchange(c, p)
  PROVE  TokensInv'
<1> DEFINE t == token[c]
           n == next[c]
<1> USE DEF TokensInv
<1>1. /\ stage[c] = "exchanged"
      /\ row' = [row EXCEPT ![t] = "used", ![n] = "fresh"]
      /\ family' = [family EXCEPT ![n] = family[t]]
      /\ parent' = [parent EXCEPT ![n] = t]
      /\ escaped' = IF t \in escaped \/ Overlooked(family[t]) THEN escaped \union {n} ELSE escaped
      /\ Sign(n, p)
      /\ End(c)
      /\ UNCHANGED <<phase, lapsed, expired, denied, killed>>
  BY DEF CommitExchange
<1>2. /\ t \in Pairs /\ n \in Pairs /\ t # n
      /\ t \in held[c] /\ row[t] = "fresh" /\ row[n] = "none"
      /\ \A d \in Calls \ {c} : t \notin held[d] /\ next[d] # n
  <2>1. /\ t \in Pairs /\ n \in Pairs
        /\ t \in held[c] /\ row[t] = "fresh" /\ row[n] = "none"
    BY <1>1 DEF LocksHold
  <2>2. n # NoPair
    BY <2>1, PairsAssumption DEF NoPair
  <2>3. \A d \in Calls \ {c} : held[c] \cap held[d] = {} /\ next[d] # n
    BY <2>2 DEF LocksHold
  <2>4. QED
    BY <2>1, <2>3
<1> HIDE DEF t, n
<1>3. family[t] # NoFamily /\ family[n] = NoFamily
  BY <1>2 DEF RowsHold
<1>4. \A u \in Pairs : /\ row'[u] = IF u = t THEN "used" ELSE IF u = n THEN "fresh" ELSE row[u]
                       /\ family'[u] = IF u = n THEN family[t] ELSE family[u]
                       /\ parent'[u] = IF u = n THEN t ELSE parent[u]
  BY <1>1, <1>2 DEF RowsHold, SuccessorsHold
<1>5. RowsHold'
  <2>1. /\ kid'[n] # "none" /\ \A u \in Pairs \ {n} : kid'[u] = kid[u]
    BY <1>1, <1>2, SignKeeps
  <2>2. \A u \in Pairs :
         /\ kid'[u] = "none" <=> row'[u] = "none"
         /\ family'[u] = NoFamily <=> row'[u] = "none"
         /\ u \in lapsed => row'[u] # "none"
         /\ row'[u] = "pruned" => u \in expired
    BY <1>2, <1>3, <1>4, <2>1 DEF RowsHold
  <2>3. row' \in [Pairs -> Row] /\ DOMAIN family' = Pairs
    BY <1>1, <1>2 DEF RowsHold, Row
  <2>4. QED
    BY <1>1, <2>2, <2>3 DEF RowsHold
<1>6. \A d \in Calls : stage[d] # "idle" => token[d] \in Pairs /\ token[d] # n
  BY <1>2 DEF LocksHold
<1>7. \A d \in Calls : n \notin held[d] \union todo[d]
  BY <1>2, <1>3, <1>6 DEF LocksHold, RowsHold
<1>8. LocksHold'
  <2>1. ASSUME NEW d \in Calls, d # c
        PROVE  /\ stage'[d] = stage[d] /\ token'[d] = token[d] /\ next'[d] = next[d]
               /\ held'[d] = held[d] /\ todo'[d] = todo[d]
               /\ token[d] # t \/ stage[d] # "exchanged"
               /\ stage[d] = "exchanged" => next[d] \notin {n, t}
    BY <1>1, <1>2, <2>1, EndFacts DEF LocksHold
  <2>2. stage'[c] = "idle" /\ next'[c] = NoPair /\ held'[c] = {} /\ todo'[c] = {}
    BY <1>1, EndFacts
  <2>3. ASSUME NEW d \in Calls
        PROVE  /\ stage'[d] = "idle" => held'[d] = {} /\ todo'[d] = {}
               /\ stage'[d] # "idle" => token'[d] \in Pairs /\ row'[token'[d]] # "none"
               /\ \A u \in held'[d] \union todo'[d] : family'[u] = family'[token'[d]]
               /\ IF stage'[d] = "exchanged"
                  THEN /\ token'[d] \in held'[d] /\ row'[token'[d]] = "fresh"
                       /\ next'[d] \in Pairs /\ row'[next'[d]] = "none"
                  ELSE next'[d] = NoPair
    <3>1. CASE d = c
      BY <2>2, <3>1
    <3>2. CASE d # c
      <4>1. stage[d] # "idle" => token[d] \in Pairs /\ token[d] # n /\ row'[token[d]] # "none"
        BY <1>2, <1>4, <1>6 DEF LocksHold
      <4>2. \A u \in held[d] \union todo[d] : u \in Pairs /\ family'[u] = family'[token[d]]
        BY <1>4, <1>6, <1>7 DEF LocksHold
      <4>3. stage[d] = "exchanged" =>
              /\ token[d] \in held[d] /\ row'[token[d]] = "fresh"
              /\ next[d] \in Pairs /\ row'[next[d]] = "none"
        BY <1>2, <1>4, <1>6, <2>1, <3>2 DEF LocksHold
      <4>4. stage[d] # "exchanged" => next[d] = NoPair
        BY DEF LocksHold
      <4>5. stage[d] = "idle" => held[d] = {} /\ todo[d] = {}
        BY DEF LocksHold
      <4>6. QED
        BY <2>1, <3>2, <4>1, <4>2, <4>3, <4>4, <4>5
    <3>3. QED
      BY <3>1, <3>2
  <2>4. \A d, e \in Calls : d # e =>
          held'[d] \cap held'[e] = {} /\ (next'[d] = next'[e] => next'[d] = NoPair)
    BY <2>1, <2>2 DEF LocksHold
  <2>5. QED
    BY <1>1, <2>3, <2>4, EndFacts DEF LocksHold
<1>9. SuccessorsHold'
  <2>1. \A u \in Pairs : parent[u] # t
    BY <1>2, PairsAssumption DEF SuccessorsHold, Dead, NoPair
  <2>2. \A u \in Pairs : parent[u] # NoPair => parent[u] # n
    BY <1>2 DEF SuccessorsHold, Dead
  <2>3. OneSuccessor'
    BY <1>2, <1>4, <2>1 DEF SuccessorsHold, OneSuccessor
  <2>4. DOMAIN parent' = Pairs
    BY <1>1 DEF SuccessorsHold
  <2>5. \A u \in Pairs : parent'[u] # NoPair =>
          parent'[u] \in Pairs /\ row'[parent'[u]] \in {"used"} \union Dead
    BY <1>2, <1>4, <2>2 DEF SuccessorsHold
  <2>6. QED
    BY <2>3, <2>4, <2>5 DEF SuccessorsHold
<1>10. RevocationHolds'
  <2>1. ~Revoking(c)' /\ \A d \in Calls \ {c} :
          /\ Revoking(d)' <=> Revoking(d)
          /\ Revoking(d) => token'[d] = token[d] /\ token[d] \in Pairs /\ token[d] # n
          /\ held'[d] = held[d] /\ todo'[d] = todo[d]
    BY <1>1, <1>6, EndFacts DEF Revoking
  <2>2. escaped \subseteq escaped'
    BY <1>1
  <2>3. \A d \in Calls \ {c} : Revoking(d) /\ family[token[d]] = family[t] => n \in escaped'
    BY <1>1 DEF Overlooked
  <2>4. family[t] \in killed => n \in escaped'
    BY <1>1, <1>2 DEF RevocationHolds, Dead
  <2>5. \A u \in Pairs : row[u] \in Dead => row'[u] = row[u] /\ u # n
    BY <1>2, <1>4 DEF Dead
  <2>6. ASSUME NEW d \in Calls, Revoking(d)'
        PROVE  \A u \in Pairs : \/ family'[u] # family'[token'[d]]
                                \/ u \in escaped' \union held'[d] \union todo'[d]
                                \/ row'[u] \in Dead
    <3>1. d # c /\ Revoking(d)
      BY <2>1, <2>6
    <3>2. QED
      BY <1>2, <1>4, <2>1, <2>2, <2>3, <2>5, <3>1 DEF RevocationHolds
  <2>7. \A u \in Pairs : family'[u] \in killed => u \in escaped' \/ row'[u] \in Dead
    BY <1>2, <1>4, <2>2, <2>4, <2>5 DEF RevocationHolds
  <2>8. \A u \in Pairs : row'[u] = "revoked" \/ u \in denied => family'[u] \in killed
    BY <1>2, <1>3, <1>4 DEF RevocationHolds
  <2>9. \A f \in killed : f # NoFamily /\ \E u \in Pairs : family'[u] = f
    BY <1>2, <1>3, <1>4 DEF RevocationHolds
  <2>10. QED
    BY <1>1, <2>6, <2>7, <2>8, <2>9 DEF RevocationHolds
<1>11. QED
  BY <1>1, <1>2, <1>5, <1>8, <1>9, <1>10, SignKeeps

LEMMA RevokeKeeps == ASSUME TokensInv, NEW c \in Calls, CommitRevoked(c) PROVE TokensInv'
<1> DEFINE f == family[token[c]]
<1> USE DEF TokensInv
<1>1. /\ Revoking(c) /\ todo[c] = {}
      /\ row' = [u \in Pairs |-> IF u \in Revoked(c) THEN "revoked" ELSE row[u]]
      /\ denied' \subseteq denied \union {token[c]}
      /\ killed' = killed \union {f}
      /\ End(c)
      /\ UNCHANGED <<keyVars, family, expired, parent, escaped>>
  BY DEF CommitRevoked
<1>2. stage[c] # "idle" /\ stage[c] # "exchanged" /\ token[c] \in Pairs /\ f # NoFamily
  BY <1>1 DEF Revoking, LocksHold, RowsHold
<1>3. \A u \in held[c] : u \in Pairs /\ family[u] = f
  BY DEF LocksHold
<1> HIDE DEF f
<1>4. \A u \in Pairs :
       row'[u] = IF u \in held[c] /\ row[u] # "pruned" THEN "revoked" ELSE row[u]
  BY <1>1 DEF Revoked
<1>5. \A u \in held[c] : row[u] # "none"
  BY <1>2, <1>3 DEF RowsHold
<1>6. RowsHold'
  <2>1. row' \in [Pairs -> Row]
    BY <1>1 DEF RowsHold, Row
  <2>2. QED
    BY <1>1, <1>4, <1>5, <2>1 DEF RowsHold, keyVars
<1>7. LocksHold'
  <2>1. ASSUME NEW d \in Calls, d # c
        PROVE  /\ stage'[d] = stage[d] /\ token'[d] = token[d] /\ next'[d] = next[d]
               /\ held'[d] = held[d] /\ todo'[d] = todo[d]
               /\ held[d] \cap held[c] = {}
    BY <1>1, <2>1, EndFacts DEF LocksHold
  <2>2. stage'[c] = "idle" /\ next'[c] = NoPair /\ held'[c] = {} /\ todo'[c] = {}
    BY <1>1, EndFacts
  <2>3. \A u \in Pairs : (row[u] = "none" <=> row'[u] = "none")
    BY <1>4, <1>5
  <2>4. QED
    BY <1>1, <1>4, <2>1, <2>2, <2>3, EndFacts DEF LocksHold
<1>8. SuccessorsHold'
  BY <1>1, <1>4 DEF SuccessorsHold, OneSuccessor, Dead
<1>9. RevocationHolds'
  <2>1. \A u \in Pairs : row[u] \in Dead \/ u \in held[c] => row'[u] \in Dead
    BY <1>4 DEF Dead
  <2>2. ~Revoking(c)' /\ \A d \in Calls \ {c} :
          /\ Revoking(d)' <=> Revoking(d)
          /\ token'[d] = token[d] /\ held'[d] = held[d] /\ todo'[d] = todo[d]
    BY <1>1, EndFacts DEF Revoking
  <2>3. \A u \in Pairs : family[u] = f => u \in escaped \/ row'[u] \in Dead
    BY <1>1, <2>1 DEF RevocationHolds, f
  <2>4. \A u \in Pairs : row'[u] = "revoked" \/ u \in denied' => family[u] \in killed'
    BY <1>1, <1>3, <1>4 DEF RevocationHolds, f
  <2>5. \A g \in killed' : g # NoFamily /\ \E u \in Pairs : family[u] = g
    BY <1>1, <1>2 DEF RevocationHolds, f
  <2>6. QED
    BY <1>1, <2>1, <2>2, <2>3, <2>4, <2>5 DEF RevocationHolds
<1>10. RotationHolds'
  BY <1>1 DEF RotationHolds, keyVars
<1>11. QED
  BY <1>6, <1>7, <1>8, <1>9, <1>10

LEMMA PruneKeeps == ASSUME TokensInv, PruneTokens PROVE TokensInv'
<1> USE DEF TokensInv
<1>1. /\ \A t \in expired, c \in Calls : t \notin held[c]
      /\ row' = [t \in Pairs |-> IF t \in expired THEN "pruned" ELSE row[t]]
      /\ UNCHANGED <<keyVars, family, expired, denied, txVars, auxVars>>
  BY DEF PruneTokens
<1>2. \A t \in Pairs : /\ row'[t] = IF t \in expired THEN "pruned" ELSE row[t]
                       /\ t \in expired => row[t] # "none"
                       /\ row'[t] = "none" <=> row[t] = "none"
  BY <1>1 DEF RowsHold
<1>3. RowsHold'
  <2>1. row' \in [Pairs -> Row]
    BY <1>1 DEF RowsHold, Row
  <2>2. QED
    BY <1>1, <1>2, <2>1 DEF RowsHold, keyVars
<1>4. LocksHold'
  BY <1>1, <1>2 DEF LocksHold, txVars
<1>5. SuccessorsHold'
  BY <1>1, <1>2 DEF SuccessorsHold, OneSuccessor, Dead, auxVars
<1>6. RevocationHolds'
  BY <1>1, <1>2 DEF RevocationHolds, Revoking, Dead, txVars, auxVars
<1>7. RotationHolds'
  BY <1>1 DEF RotationHolds, keyVars
<1>8. QED
  BY <1>3, <1>4, <1>5, <1>6, <1>7

\* Time, the denylist and the keys.
LEMMA RestKeeps ==
  ASSUME TokensInv,
         UNCHANGED <<row, family, txVars, auxVars>>,
         expired \subseteq expired', expired' \subseteq lapsed', denied' \subseteq denied,
         \A t \in lapsed' : t \in Pairs => row[t] # "none",
         RotationHolds', UNCHANGED kid
  PROVE  TokensInv'
<1> USE DEF TokensInv
<1>1. RowsHold'
  BY DEF RowsHold
<1>2. LocksHold'
  BY DEF LocksHold, txVars
<1>3. SuccessorsHold'
  BY DEF SuccessorsHold, OneSuccessor, auxVars
<1>4. RevocationHolds'
  BY DEF RevocationHolds, Revoking, txVars, auxVars
<1>5. QED
  BY <1>1, <1>2, <1>3, <1>4

LEMMA RotateKeeps ==
  ASSUME TokensInv, NEW p \in Pods, Rotate(p) PROVE RotationHolds'
<1> USE DEF TokensInv, RotationHolds
<1>1. /\ phase[p] \in 1..4 /\ phase[p] + 1 \in 1..4
      /\ \A q \in Pods : phase[q] >= phase[p]
      /\ phase[p] + 1 = 4 => \A t \in Pairs : kid[t] = "old" => t \in lapsed
      /\ phase' = [phase EXCEPT ![p] = @ + 1]
      /\ UNCHANGED <<kid, lapsed>>
  BY KeyFacts DEF Rotate
<1>2. \A q \in Pods : phase'[q] = IF q = p THEN phase[p] + 1 ELSE phase[q]
  BY <1>1
<1>3. \A q \in Pods : phase[q] \in 1..4 /\ phase[q] <= phase[p] + 1
  OBVIOUS
<1>4. QED
  BY <1>1, <1>2, <1>3

LEMMA Inductive == TokensInv /\ [Next]_vars => TokensInv'
<1> SUFFICES ASSUME TokensInv, [Next]_vars PROVE TokensInv'
  OBVIOUS
<1>1. CASE UNCHANGED vars
  <2>1. UNCHANGED <<phase, kid, lapsed, row, family, txVars, auxVars, denied, expired>>
    BY <1>1 DEF vars, keyVars, txVars, auxVars
  <2>2. QED
    BY <2>1, RestKeeps DEF TokensInv, RowsHold, RotationHolds
<1>2. ASSUME NEW f \in Families, NEW p \in Pods, NEW t \in Pairs, Login(f, p, t)
      PROVE  TokensInv'
  BY <1>2, LoginKeeps
<1>3. ASSUME NEW c \in Calls, NEW t \in Pairs,
             \/ Reuse(c, t) \/ \E n \in Pairs : Exchange(c, t, n)
             \/ \E p \in Pods : Logout(c, t, p)
      PROVE  TokensInv'
  BY <1>3, BeginKeeps
<1>4. ASSUME NEW c \in Calls, CallStep(c) \/ Abort(c) PROVE TokensInv'
  BY <1>4, ExchangeKeeps, SweepKeeps, RevokeRowKeeps, RevokeKeeps, RollbackKeeps
     DEF CallStep
<1>5. ASSUME NEW t \in Pairs, Expire(t) PROVE TokensInv'
  <2>1. UNCHANGED <<phase, kid, lapsed, row, family, txVars, auxVars, denied>>
    BY <1>5 DEF Expire, keyVars
  <2>2. expired' = expired \union {t} /\ t \in lapsed
    BY <1>5 DEF Expire
  <2>3. QED
    BY <2>1, <2>2, RestKeeps DEF TokensInv, RowsHold, RotationHolds
<1>6. ASSUME NEW t \in Pairs, Lapse(t), UNCHANGED restVars PROVE TokensInv'
  <2>1. UNCHANGED <<phase, kid, row, family, txVars, auxVars, denied, expired>>
    BY <1>6 DEF Lapse, restVars
  <2>2. lapsed' = lapsed \union {t} /\ kid[t] # "none"
    BY <1>6 DEF Lapse
  <2>3. QED
    BY <2>1, <2>2, RestKeeps DEF TokensInv, RowsHold, RotationHolds
<1>7. ASSUME NEW p \in Pods, Rotate(p), UNCHANGED restVars PROVE TokensInv'
  <2>1. UNCHANGED <<kid, lapsed, row, family, txVars, auxVars, denied, expired>>
    BY <1>7 DEF Rotate, restVars
  <2>2. QED
    BY <1>7, <2>1, RotateKeeps, RestKeeps DEF TokensInv, RowsHold
<1>8. CASE PruneTokens
  BY <1>8, PruneKeeps
<1>9. CASE PruneDenied
  <2>1. /\ UNCHANGED <<phase, kid, lapsed, row, family, txVars, auxVars, expired>>
        /\ denied' \subseteq denied
    BY <1>9 DEF PruneDenied, keyVars
  <2>2. QED
    BY <2>1, RestKeeps DEF TokensInv, RowsHold, RotationHolds
<1>10. ASSUME NEW c \in Calls, NEW t \in Pairs, Refuse(c, t) PROVE TokensInv'
  BY <1>10, <1>1 DEF Refuse
<1>11. QED
  BY <1>1, <1>2, <1>3, <1>4, <1>5, <1>6, <1>7, <1>8, <1>9, <1>10 DEF Next

LEMMA Holds == Spec => []TokensInv
  BY Start, Inductive, PTL DEF Spec

-----------------------------------------------------------------------------

\* A refresh token is exchanged once (refresh, auth.service.ts).
THEOREM ExchangedOnce == Spec => []OneSuccessor
<1>1. TokensInv => OneSuccessor
  BY DEF TokensInv, SuccessorsHold
<1>2. QED
  BY <1>1, Holds, PTL

\* An answered reuse or logout leaves nothing of the family alive, but what a
\* refresh added while it was under way (revokeFamily).
THEOREM RevocationIsComplete == Spec => []RevocationReaches
<1>1. TokensInv => RevocationReaches
  <2> SUFFICES ASSUME TokensInv, NEW t \in Pairs, family[t] \in killed, t \notin escaped
               PROVE  ~Alive(t)
    BY DEF RevocationReaches
  <2>1. row[t] \in Dead
    BY DEF TokensInv, RevocationHolds
  <2>2. ASSUME NEW p \in Pods, Accepted(t, p) PROVE FALSE
    <3>1. t \notin lapsed /\ row[t] # "revoked"
      BY <2>2 DEF Accepted, Verifies, FamilyRows
    <3>2. QED
      BY <2>1, <3>1 DEF TokensInv, RowsHold, Dead
  <2>3. QED
    BY <2>1, <2>2 DEF Alive, Dead
<1>2. QED
  BY <1>1, Holds, PTL

\* A 401 has a cause in the token, through a rotation of the key
\* (AccessTokens.verify, AuthService.authenticate).
THEOREM RotationIsSmooth == Spec => []RefusedForCause
<1>1. TokensInv => RefusedForCause
  <2> SUFFICES ASSUME TokensInv, NEW t \in Pairs, NEW p \in Pods, row[t] # "none",
                      GuardAnswer("any", t, p, FALSE) = "401",
                      t \notin lapsed
               PROVE  family[t] \in killed
    BY DEF RefusedForCause
  <2>1. ~Accepted(t, p)
    BY DEF GuardAnswer
  <2>2. kid[t] \in {"old", "new"} /\ phase[p] \in 1..4
    BY DEF TokensInv, RotationHolds, RowsHold
  <2>3. KeyKnown(t, p)
    <3>1. kid[t] = "old" => phase[p] <= 3
      BY <2>2 DEF TokensInv, RotationHolds
    <3>2. ASSUME kid[t] = "new" PROVE phase[p] >= 2
      <4>1. PICK q \in Pods : phase[q] >= 3
        BY <3>2 DEF TokensInv, RotationHolds
      <4>2. phase[q] \in 1..4 /\ phase[q] <= phase[p] + 1
        BY DEF TokensInv, RotationHolds
      <4>3. QED
        BY <2>2, <4>1, <4>2
    <3>3. QED
      BY <2>2, <3>1, <3>2, KeyFacts DEF KeyKnown
  <2>4. t \in denied \/ \E u \in FamilyRows(family[t]) : row[u] = "revoked"
    BY <2>1, <2>3 DEF Accepted, Verifies
  <2>5. QED
    BY <2>4 DEF TokensInv, RevocationHolds, FamilyRows
<1>2. QED
  BY <1>1, Holds, PTL

-----------------------------------------------------------------------------
(* Calls that wait for each other.                                         *)

SomeCallReady ==
  (\E c \in Calls : stage[c] # "idle") => \E c \in Calls : Ready(c)

\* Somebody wrote the rows there are.
Staged ==
  /\ \A c \in Calls : stage[c] \in {"idle", "reuse", "exchanged", "logout"} \/ Revoking(c)
  /\ Pods # {} \/ \A t \in Pairs : row[t] = "none"

LEMMA StagedStep == TokensInv /\ Staged /\ [Next]_vars => Staged'
<1> SUFFICES ASSUME TokensInv, Staged, [Next]_vars PROVE Staged'
  OBVIOUS
<1>1. \A c \in Calls : stage'[c] \in {"idle", "reuse", "exchanged", "logout"} \/ Revoking(c)'
  <2> DEFINE Known(s) == s \in {"idle", "reuse", "exchanged", "logout", "revoking", "loggingOut"}
  <2>1. \A c \in Calls : Known(stage[c])
    BY DEF Staged, Revoking
  <2>2. stage' = stage \/ \E c \in Calls : \E s : Known(s) /\ stage' = [stage EXCEPT ![c] = s]
    BY DEF Next, CallStep, Login, Refuse, Reuse, Exchange, CommitExchange, Logout, Sweep,
           RevokeRow, CommitRevoked, DeadlockVictim, Abort, Expire, PruneTokens,
           PruneDenied, End, Goto, restVars, txVars, vars
  <2>3. \A c \in Calls : Known(stage'[c])
    BY <2>1, <2>2 DEF TokensInv, LocksHold
  <2>4. QED
    BY <2>3 DEF Revoking
<1>2. ASSUME Pods = {} PROVE \A t \in Pairs : row'[t] = "none"
  <2>1. \A t \in Pairs : row[t] = "none"
    BY <1>2 DEF Staged
  <2>2. \A c \in Calls : stage[c] = "idle"
    BY <2>1 DEF TokensInv, LocksHold
  <2>3. \A t \in Pairs : t \notin expired
    BY <2>1 DEF TokensInv, RowsHold
  <2>4. row' = row \/ \A t \in Pairs : row'[t] = row[t]
    BY <1>2, <2>1, <2>2, <2>3
       DEF Next, CallStep, Login, Refuse, Reuse, Exchange, CommitExchange, Logout, Sweep,
           RevokeRow, CommitRevoked, DeadlockVictim, Abort, Expire, PruneTokens,
           PruneDenied, Revoking, restVars, vars
  <2>5. QED
    BY <2>1, <2>4
<1>3. QED
  BY <1>1, <1>2 DEF Staged

\* However many calls revoke one family at once, one of them can go on: if
\* all wait, they wait for each other only, and that is the circle PostgreSQL
\* breaks (revokeFamily on the connection of its transaction).
THEOREM CallsGoOn == Spec => []SomeCallReady
<1>1. Init => Staged
  BY DEF Init, Staged
<1>2. TokensInv /\ Staged => SomeCallReady
  <2> SUFFICES ASSUME TokensInv, Staged, NEW c \in Calls, stage[c] # "idle",
                      \A d \in Calls : ~Ready(d)
               PROVE  FALSE
    BY DEF SomeCallReady
  <2> DEFINE D == {d \in Calls : stage[d] # "idle"}
  <2>1. Pods # {}
    BY DEF Staged, TokensInv, LocksHold
  <2>2. ASSUME NEW d \in D, NEW u \in todo[d] PROVE \E e \in D \ {d} : u \in held[e]
    <3>1. Revoking(d)
      BY <2>1 DEF Staged, Ready
    <3>2. ~RowFree(d, u)
      BY <3>1 DEF Ready
    <3>3. PICK e \in Calls \ {d} : u \in held[e]
      BY <3>2 DEF RowFree
    <3>4. stage[e] # "idle"
      BY <3>3 DEF TokensInv, LocksHold
    <3>5. QED
      BY <3>3, <3>4
  <2>3. \A d \in D : todo[d] # {}
    BY <2>1 DEF Staged, Ready
  <2>4. Ready(c)
    BY <2>2, <2>3 DEF Ready
  <2>5. QED
    BY <2>4
<1>3. QED
  BY <1>1, <1>2, StagedStep, Holds, PTL DEF Spec
=============================================================================
