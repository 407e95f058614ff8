------------------------------- MODULE Tokens -------------------------------
(***************************************************************************)
(* AuthService (auth/auth.service.ts) with the refresh_tokens and          *)
(* access_denylist tables, AuthGuard in front of it and the retention job  *)
(* (prune.ts) behind it.  A login starts a family of token pairs; refresh  *)
(* spends a pair and adds the next one; reuse and logout revoke the        *)
(* family.  A transaction is several steps: SELECT ... FOR UPDATE waits    *)
(* for the row, revokeFamily sees the rows of its snapshot and waits for   *)
(* those that are locked.                                                  *)
(***************************************************************************)
EXTENDS SigningKeys

CONSTANTS
  Families,  \* logins
  Calls      \* POST /auth/refresh and /auth/logout under way at one time

VARIABLES
  row,       \* row[t]: what refresh_tokens says of pair t
  family,    \* family[t]: family_id
  expired,   \* refresh tokens past expires_at
  denied,    \* access_denylist
  stage,     \* stage[c]: where call c stands
  token,     \* token[c]: the pair whose token it brings
  next,      \* next[c]: the pair its transaction has inserted
  held,      \* held[c]: rows it has locked
  todo,      \* todo[c]: rows its revokeFamily has yet to update
  parent,    \* auxiliary: parent[t]: the pair exchanged for t
  killed,    \* auxiliary: families that somebody was told are revoked
  escaped    \* auxiliary: pairs added past a running revocation, and their heirs

vars == <<keyVars, row, family, expired, denied, stage, token, next, held, todo,
          parent, killed, escaped>>

-----------------------------------------------------------------------------

Row == {"none", "fresh", "used", "revoked", "pruned"}
NoPair == 0
NoFamily == 0

Init ==
  /\ KeysInit
  /\ row = [t \in Pairs |-> "none"]
  /\ family = [t \in Pairs |-> NoFamily]
  /\ expired = {}
  /\ denied = {}
  /\ stage = [c \in Calls |-> "idle"]
  /\ token = [c \in Calls |-> NoPair]
  /\ next = [c \in Calls |-> NoPair]
  /\ held = [c \in Calls |-> {}]
  /\ todo = [c \in Calls |-> {}]
  /\ parent = [t \in Pairs |-> NoPair]
  /\ killed = {}
  /\ escaped = {}

auxVars == <<parent, killed, escaped>>
txVars == <<stage, token, next, held, todo>>

Goto(c, s) == stage' = [stage EXCEPT ![c] = s]

FamilyRows(f) == {t \in Pairs : family[t] = f}

Unused == {t \in Pairs : row[t] = "none" /\ \A c \in Calls : next[c] # t}
IsNext(t) == t \in Unused /\ \A u \in Unused : t <= u

\* issuePair for a login, in a transaction of its own.
Login(f, p, t) ==
  /\ FamilyRows(f) = {}
  /\ IsNext(t)
  /\ row' = [row EXCEPT ![t] = "fresh"]
  /\ family' = [family EXCEPT ![t] = f]
  /\ Sign(t, p)
  /\ UNCHANGED <<phase, lapsed, expired, denied, txVars, auxVars>>

\* Bug: SELECT without FOR UPDATE.
NoLock(c, t) == TRUE

\* Bug: a query of the transaction goes to a connection of its own.
SelfLocked(c, t) == \A d \in Calls : t \notin held[d]

RowFree(c, t) == \A d \in Calls \ {c} : t \notin held[d]

\* refresh: the row is found, locked and read.  Unknown, revoked and expired
\* tokens are refused (401).
Refuse(c, t) ==
  /\ stage[c] = "idle"
  /\ RowFree(c, t)
  /\ \/ row[t] \in {"pruned", "revoked"}
     \/ row[t] = "fresh" /\ t \in expired
  /\ UNCHANGED vars

\* A spent token: reuse.
Reuse(c, t) ==
  /\ stage[c] = "idle"
  /\ RowFree(c, t)
  /\ row[t] = "used"
  /\ Goto(c, "reuse")
  /\ token' = [token EXCEPT ![c] = t]
  /\ held' = [held EXCEPT ![c] = {t}]
  /\ UNCHANGED <<keyVars, row, family, expired, denied, next, todo, auxVars>>

\* A good token: it is marked as used and the next pair is inserted.
Exchange(c, t, n) ==
  /\ stage[c] = "idle"
  /\ RowFree(c, t)
  /\ row[t] = "fresh" /\ t \notin expired
  /\ IsNext(n)
  /\ Goto(c, "exchanged")
  /\ token' = [token EXCEPT ![c] = t]
  /\ next' = [next EXCEPT ![c] = n]
  /\ held' = [held EXCEPT ![c] = {t}]
  /\ UNCHANGED <<keyVars, row, family, expired, denied, todo, auxVars>>

\* The end of a transaction: its locks go.
End(c) ==
  /\ Goto(c, "idle")
  /\ token' = [token EXCEPT ![c] = NoPair]
  /\ next' = [next EXCEPT ![c] = NoPair]
  /\ held' = [held EXCEPT ![c] = {}]
  /\ todo' = [todo EXCEPT ![c] = {}]

Revoking(c) == stage[c] \in {"revoking", "loggingOut"}

Overlooked(f) ==
  \E d \in Calls : Revoking(d) /\ family[token[d]] = f

CommitExchange(c, p) ==
  LET t == token[c]
      n == next[c] IN
  /\ stage[c] = "exchanged"
  /\ row' = [row EXCEPT ![t] = "used", ![n] = "fresh"]
  /\ family' = [family EXCEPT ![n] = family[t]]
  /\ parent' = [parent EXCEPT ![n] = t]
  /\ escaped' = IF t \in escaped \/ Overlooked(family[t]) THEN escaped \union {n} ELSE escaped
  /\ Sign(n, p)
  /\ End(c)
  /\ UNCHANGED <<phase, lapsed, expired, denied, killed>>

\* authenticate: the signature, then the denylist and the family.
Accepted(t, p) ==
  /\ Verifies(t, p)
  /\ t \notin denied
  /\ \A u \in FamilyRows(family[t]) : row[u] # "revoked"

\* Who may call a route: everybody, any principal, or an admin.
Routes == {"public", "any", "admin"}

\* AuthGuard.canActivate
GuardAnswer(route, t, p, isAdmin) ==
  IF route = "public" THEN "pass"
  ELSE IF ~Accepted(t, p) THEN "401"
  ELSE IF route = "admin" /\ ~isAdmin THEN "403"
  ELSE "pass"

\* logout, past the guard.
Logout(c, t, p) ==
  /\ stage[c] = "idle"
  /\ GuardAnswer("any", t, p, FALSE) = "pass"
  /\ Goto(c, "logout")
  /\ token' = [token EXCEPT ![c] = t]
  /\ UNCHANGED <<keyVars, row, family, expired, denied, next, held, todo, auxVars>>

\* Bug: only the row presented is revoked.
OwnRow(c) == {token[c]}

Visible(c) == {u \in FamilyRows(family[token[c]]) : row[u] \in {"fresh", "used"}}

\* revokeFamily: the UPDATE takes its snapshot
Sweep(c) ==
  /\ \/ stage[c] = "reuse" /\ Goto(c, "revoking")
     \/ stage[c] = "logout" /\ Goto(c, "loggingOut")
  /\ todo' = [todo EXCEPT ![c] = Visible(c)]
  /\ UNCHANGED <<keyVars, row, family, expired, denied, token, next, held, auxVars>>

\* ... and goes from row to row, waiting for the locked ones.
RevokeRow(c, u) ==
  /\ Revoking(c)
  /\ u \in todo[c]
  /\ RowFree(c, u)
  /\ held' = [held EXCEPT ![c] = @ \union {u}]
  /\ todo' = [todo EXCEPT ![c] = @ \ {u}]
  /\ UNCHANGED <<keyVars, row, family, expired, denied, stage, token, next, auxVars>>

Revoked(c) == {u \in held[c] : row[u] # "pruned"}

\* The commit: of a logout with the access token in the denylist.
CommitRevoked(c) ==
  /\ Revoking(c)
  /\ todo[c] = {}
  /\ row' = [u \in Pairs |-> IF u \in Revoked(c) THEN "revoked" ELSE row[u]]
  /\ denied' = IF stage[c] = "loggingOut" THEN denied \union {token[c]} ELSE denied
  /\ killed' = killed \union {family[token[c]]}
  /\ End(c)
  /\ UNCHANGED <<keyVars, family, expired, parent, escaped>>

\* Calls that wait for each other; PostgreSQL ends one of them.
DeadlockVictim(c) ==
  /\ \E D \in SUBSET Calls :
       /\ c \in D
       /\ \A d \in D :
            /\ todo[d] # {}
            /\ \A u \in todo[d] : \E e \in D \ {d} : u \in held[e]
  /\ End(c)
  /\ UNCHANGED <<keyVars, row, family, expired, denied, auxVars>>

Abort(c) ==
  /\ stage[c] \in {"exchanged", "reuse", "logout"} \/ Revoking(c)
  /\ End(c)
  /\ UNCHANGED <<keyVars, row, family, expired, denied, auxVars>>

-----------------------------------------------------------------------------

\* Thirty days after a pair was issued: its access token lapsed long ago, and
\* no transaction is that old.
Expire(t) ==
  /\ t \in lapsed \ expired
  /\ \A u \in Pairs : u < t => u \in expired
  /\ \A c \in Calls : stage[c] = "idle"
  /\ expired' = expired \union {t}
  /\ UNCHANGED <<keyVars, row, family, denied, txVars, auxVars>>

\* prune.ts: the rows that have expired, and the denied tokens.
PruneTokens ==
  /\ \A t \in expired, c \in Calls : t \notin held[c]
  /\ row' = [t \in Pairs |-> IF t \in expired THEN "pruned" ELSE row[t]]
  /\ UNCHANGED <<keyVars, family, expired, denied, txVars, auxVars>>

PruneDenied ==
  /\ denied' = denied \ lapsed
  /\ UNCHANGED <<keyVars, row, family, expired, txVars, auxVars>>

restVars == <<row, family, expired, denied, txVars, auxVars>>

CallStep(c) ==
  \/ \E p \in Pods : CommitExchange(c, p)
  \/ Sweep(c)
  \/ \E u \in Pairs : RevokeRow(c, u)
  \/ CommitRevoked(c)
  \/ DeadlockVictim(c)

Next ==
  \/ \E f \in Families, p \in Pods, t \in Pairs : Login(f, p, t)
  \/ \E c \in Calls, t \in Pairs :
       \/ Refuse(c, t) \/ Reuse(c, t)
       \/ \E n \in Pairs : Exchange(c, t, n)
       \/ \E p \in Pods : Logout(c, t, p)
  \/ \E c \in Calls : CallStep(c) \/ Abort(c)
  \/ \E t \in Pairs :
       \/ Expire(t)
       \/ Lapse(t) /\ UNCHANGED restVars
  \/ \E p \in Pods : Rotate(p) /\ UNCHANGED restVars
  \/ PruneTokens \/ PruneDenied

Spec == Init /\ [][Next]_vars

-----------------------------------------------------------------------------

TypeOK ==
  /\ phase \in [Pods -> Phases]
  /\ kid \in [Pairs -> {"none", "old", "new"}]
  /\ lapsed \subseteq Pairs
  /\ row \in [Pairs -> Row]
  /\ family \in [Pairs -> Families \union {NoFamily}]
  /\ expired \subseteq lapsed
  /\ denied \subseteq Pairs
  /\ stage \in [Calls -> {"idle", "reuse", "exchanged", "logout", "revoking", "loggingOut"}]
  /\ token \in [Calls -> Pairs \union {NoPair}]
  /\ next \in [Calls -> Pairs \union {NoPair}]
  /\ held \in [Calls -> SUBSET Pairs]
  /\ todo \in [Calls -> SUBSET Pairs]
  /\ parent \in [Pairs -> Pairs \union {NoPair}]
  /\ killed \subseteq Families
  /\ escaped \subseteq Pairs

\* A refresh token is exchanged once, however many calls bring it at the same
\* time (auth.service.ts:56-86).
OneSuccessor ==
  \A t, u \in Pairs : parent[t] = parent[u] /\ parent[t] # NoPair => t = u

\* A token that still opens something: a refresh token that can be exchanged,
\* or an access token some process accepts.
Alive(t) ==
  \/ row[t] = "fresh" /\ t \notin expired
  \/ row[t] # "none" /\ \E p \in Pods : Accepted(t, p)

\* Once a reuse or a logout has been answered nothing of the family is alive,
\* but what a refresh added while the revocation was under way
\* (auth.service.ts:158-163, and the commit before the 401 at 89-91).
RevocationReaches ==
  \A t \in Pairs : family[t] \in killed /\ Alive(t) => t \in escaped

\* README.md:1482: after a logout a refresh token is dead, revoked_at is on
\* the family.
RevokedFamilyIsDead ==
  \A t \in Pairs : family[t] \in killed => ~Alive(t)

\* Through a rotation of the signing key no token is refused without cause:
\* a 401 is for a token that has lapsed or whose family is revoked
\* (README.md:1518-1519).
RefusedForCause ==
  \A t \in Pairs, p \in Pods :
    row[t] # "none" /\ GuardAnswer("any", t, p, FALSE) = "401" =>
      t \in lapsed \/ family[t] \in killed

\* The guards of CallStep(c): the transaction of call c can go on, or
\* PostgreSQL ends it.
Ready(c) ==
  \/ stage[c] \in {"reuse", "logout"}
  \/ stage[c] = "exchanged" /\ Pods # {}
  \/ Revoking(c) /\ (todo[c] = {} \/ \E u \in todo[c] : RowFree(c, u))
  \/ \E D \in SUBSET Calls :
       /\ c \in D
       /\ \A d \in D :
            /\ todo[d] # {}
            /\ \A u \in todo[d] : \E e \in D \ {d} : u \in held[e]

\* However many calls revoke one family at once, they do not all wait: some
\* transaction can go on (auth.service.ts:69, 97: on its own connection).
SomeCallGoesOn ==
  (\E c \in Calls : stage[c] # "idle") =>
    \E c \in Calls : Ready(c) /\ ENABLED CallStep(c)
=============================================================================
