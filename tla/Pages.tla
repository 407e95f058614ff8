-------------------------------- MODULE Pages --------------------------------
(***************************************************************************)
(* Walking GET /orders page by page (common/pagination.ts and findAll in   *)
(* orders.service.ts; products.service.ts does the same without an owner)  *)
(* while checkouts commit.  An order takes its id when it is inserted and  *)
(* can be read from the commit on, in whatever order they commit.          *)
(* Every page request passes the rate limiter first.                       *)
(***************************************************************************)
EXTENDS RateLimiter, Sequences, SequencesExt

CONSTANTS
  Ids,        \* of the orders
  OwnerOf,    \* OwnerOf[id]: whose order it is
  ActorOf,    \* ActorOf[c]: the principal of caller c
  PageLimit   \* the limit query parameter

ASSUME PagesAssumption == Ids \subseteq Nat \ {0} /\ PageLimit \in Nat \ {0}

VARIABLES
  taken,      \* ids of inserted orders
  committed,  \* ids of committed orders
  cursor,     \* cursor[c]: what c asks to go on from
  list,       \* list[c]: the ids c has been given
  due         \* auxiliary: due[c]: what c could see when its walk began

pageVars == <<taken, committed, cursor, list, due>>
vars == <<rateVars, pageVars>>

-----------------------------------------------------------------------------

NoCursor == 0
Garbage == -1

Init ==
  /\ RateInit
  /\ taken = {}
  /\ committed = {}
  /\ cursor \in [Callers -> {NoCursor, Garbage}]
  /\ list = [c \in Callers |-> <<>>]
  /\ due = [c \in Callers |-> {}]

Insert(id) ==
  /\ id \in Ids \ taken
  /\ \A i \in Ids \ taken : id <= i
  /\ taken' = taken \union {id}
  /\ UNCHANGED <<rateVars, committed, cursor, list, due>>

Commit(id) ==
  /\ id \in taken \ committed
  /\ committed' = committed \union {id}
  /\ UNCHANGED <<rateVars, taken, cursor, list, due>>

\* decodeCursor: anything but a positive number starts over.
Decoded(k) == IF k > 0 THEN k ELSE 0

MayRead(c, id) == ActorOf[c] = "admin" \/ OwnerOf[id] = ActorOf[c]

\* The query of findAll: one row more than the page has.
Found(c) == {id \in committed : id > Decoded(cursor[c]) /\ MayRead(c, id)}

OrderById(S) ==
  CHOOSE s \in [1..Cardinality(S) -> S] : \A i, j \in DOMAIN s : i < j => s[i] < s[j]

Rows(c) ==
  LET found == OrderById(Found(c))
  IN SubSeq(found, 1, Min({Len(found), PageLimit + 1}))

\* buildPage
HasMore(rows) == Len(rows) > PageLimit
Items(rows) == IF HasMore(rows) THEN SubSeq(rows, 1, PageLimit) ELSE rows

\* Bug: the cursor is that of the row that was only looked at.
CursorOfExtraRow(rows) == rows[Len(rows)]

NextCursor(rows) == Last(Items(rows))

\* The handler, in a snapshot of its own; the client goes on until there is
\* no next_cursor.
Page(c) ==
  LET rows == Rows(c) IN
  /\ at[c] = "in"
  /\ list' = [list EXCEPT ![c] = @ \o Items(rows)]
  /\ due' = IF Decoded(cursor[c]) = 0
              THEN [due EXCEPT ![c] = {id \in committed : MayRead(c, id)}] ELSE due
  /\ IF HasMore(rows)
       THEN /\ cursor' = [cursor EXCEPT ![c] = NextCursor(rows)]
            /\ at' = [at EXCEPT ![c] = "client"]
       ELSE /\ at' = [at EXCEPT ![c] = "end"]
            /\ UNCHANGED cursor
  /\ UNCHANGED <<now, bucket, expires, stamp, wait, outages, hits, taken, committed>>

Next ==
  \/ \E c \in Callers : (Send(c) \/ Allow(c) \/ Refuse(c) \/ LetThrough(c)) /\ UNCHANGED pageVars
  \/ Tick /\ UNCHANGED pageVars
  \/ \E c \in Callers : Page(c)
  \/ \E id \in Ids : Insert(id) \/ Commit(id)

Spec == Init /\ [][Next]_vars

-----------------------------------------------------------------------------

\* A walk gives each order once, in the order of the ids, only orders of the
\* caller, and all that could be read when it began, whatever commits between
\* its pages (pagination.ts:12-22, orders.service.ts:63-72).
WalkMissesNothing ==
  \A c \in Callers :
    /\ \A i, j \in DOMAIN list[c] : i < j => list[c][i] < list[c][j]
    /\ \A i \in DOMAIN list[c] : MayRead(c, list[c][i])
    /\ at[c] = "end" => due[c] \subseteq ToSet(list[c])
=============================================================================
