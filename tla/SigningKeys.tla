----------------------------- MODULE SigningKeys -----------------------------
(***************************************************************************)
(* The keys of access tokens: AccessTokens (auth/jwt.ts) in every process, *)
(* configured through JWT_KID and JWT_PUBLIC_KEYS (config/env.schema.ts),  *)
(* and the rotation of the signing key in three rolling config changes.    *)
(* A token is known by the number of the pair it was issued with.          *)
(***************************************************************************)
EXTENDS Integers, FiniteSets

CONSTANTS
  Pods,     \* application processes
  Pairs     \* token pairs, numbered in the order they are issued

ASSUME PairsAssumption == Pairs \subseteq Nat \ {0}

VARIABLES
  phase,    \* phase[p]: the config process p runs with
  kid,      \* kid[t]: the kid in the header of access token t
  lapsed    \* access tokens older than ACCESS_TTL_S

keyVars == <<phase, kid, lapsed>>

-----------------------------------------------------------------------------

\* The configs of a rotation: add the new key, sign with it, drop the old one.
Configs ==
  << [kid |-> "old", keyring |-> {"old"}],
     [kid |-> "old", keyring |-> {"old", "new"}],
     [kid |-> "new", keyring |-> {"old", "new"}],
     [kid |-> "new", keyring |-> {"new"}] >>

\* What the schema and the AccessTokens constructor ask for, or no start.
ValidConfig(config) == config.kid \in config.keyring

Phases == {n \in DOMAIN Configs : ValidConfig(Configs[n])}

KeysInit ==
  /\ phase = [p \in Pods |-> 1]
  /\ kid = [t \in Pairs |-> "none"]
  /\ lapsed = {}

\* sign: process p signs token t with its own key.
Sign(t, p) == kid' = [kid EXCEPT ![t] = Configs[phase[p]].kid]

\* Bug: the key is not looked up by kid.
OwnKeyOnly(t, p) == kid[t] = Configs[phase[p]].kid

\* verify: the key of the token's kid.
KeyKnown(t, p) == kid[t] \in Configs[phase[p]].keyring

Verifies(t, p) == KeyKnown(t, p) /\ t \notin lapsed

\* ACCESS_TTL_S passes for token t; older tokens have lapsed before.
Lapse(t) ==
  /\ kid[t] # "none"
  /\ t \notin lapsed
  /\ \A u \in Pairs : u < t /\ kid[u] # "none" => u \in lapsed
  /\ lapsed' = lapsed \union {t}
  /\ UNCHANGED <<phase, kid>>

\* The next config reaches process p.  A change starts when the one before
\* is everywhere; the old key goes when no token of it is left.
Rotate(p) ==
  /\ phase[p] + 1 \in Phases
  /\ \A q \in Pods : phase[q] >= phase[p]
  /\ Configs[phase[p] + 1].keyring = {"new"} =>
       \A t \in Pairs : kid[t] = "old" => t \in lapsed
  /\ phase' = [phase EXCEPT ![p] = @ + 1]
  /\ UNCHANGED <<kid, lapsed>>
=============================================================================
