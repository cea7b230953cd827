----------------------------- MODULE SigningKeys -----------------------------
(***************************************************************************)
(* The web app's signing keys (server/identity/keys.ts, tokens.ts): rows of *)
(* the SigningKey table, the key each web process keeps in memory, and the *)
(* requests that need it, to sign an access token or to publish the set.   *)
(* activeSigningKey awaits the database and the key generator between      *)
(* reading the clock and filling the cache, so requests overlap in it.     *)
(*                                                                         *)
(* Time is one clock, in units of a model's choice.  The module defines    *)
(* the web side only; TokenVerification adds the services and the clock.   *)
(***************************************************************************)
EXTENDS Integers

CONSTANTS
  Processes,    \* the web processes
  Minters,      \* requests that mint an access token
  Readers,      \* requests for /.well-known/jwks.json
  ProcessOf,    \* the process that serves each request
  Kids,         \* key ids
  Secrets,      \* bound: AUTH_SECRET has this many values, one after another
  NoKey,
  RotateAfter,  \* ROTATE_AFTER_MS
  PublishFor,   \* PUBLISH_FOR_MS
  DeleteAfter,  \* DELETE_AFTER_MS
  CacheFor,     \* CACHE_MS
  TokenLife,    \* ACCESS_TOKEN_SECONDS
  Leeway,       \* LEEWAY_SECONDS, for which the services accept it longer
  Slow          \* bound: how long a request takes from its clock to its result

Callers == Minters \cup Readers

ASSUME SigningAssumption ==
  /\ Minters \cap Readers = {}
  /\ ProcessOf \in [Callers -> Processes]
  /\ NoKey \notin Kids
  /\ Secrets \in Nat \ {0}
  /\ {RotateAfter, PublishFor, DeleteAfter, CacheFor, Leeway, Slow} \subseteq Nat
  /\ TokenLife \in Nat \ {0}
  \* In the code PublishFor is a day longer than RotateAfter.
  /\ PublishFor >= RotateAfter + CacheFor + TokenLife + Leeway
  /\ PublishFor >= RotateAfter + Slow + TokenLife + Leeway
  /\ DeleteAfter >= PublishFor

VARIABLES
  now,
  secret,   \* AUTH_SECRET, by its number
  stored,   \* the ids of the SigningKey rows
  created,  \* when each id was created; -1 before
  sealed,   \* the secret its private half is encrypted with
  active,   \* per process, the cached key and until when it is used
  call,     \* per request, where it is in activeSigningKey
  tokens    \* the signed tokens that have not expired, leeway included

webVars == <<now, secret, stored, created, sealed, active, call, tokens>>

Cached == [kid : Kids, until : Nat]
NoCall == [step |-> "none"]
Call == [step : {"found"}, kid : Kids, began : Nat]
          \cup [step : {"create"}, began : Nat]
Token == [kid : Kids, exp : Nat]

InitWeb ==
  /\ now = 0
  /\ secret = 1
  /\ stored = {}
  /\ created = [k \in Kids |-> -1]
  /\ sealed = [k \in Kids |-> 1]
  /\ active = [p \in Processes |-> NoKey]
  /\ call = [c \in Callers |-> NoCall]
  /\ tokens = {}
-----------------------------------------------------------------------------
\* Mutant: the cached key is used as long as the process lives.
InUse_Forever(p) == active[p] # NoKey

\* The cached key of process p may still be used.
InUse(p) == active[p] # NoKey /\ active[p].until > now

IsNewest(k) == k \in stored /\ \A j \in stored : created[j] <= created[k]

\* k can sign: young enough, and readable with the secret of today.
CanSign(k) == now - created[k] < RotateAfter /\ sealed[k] = secret

\* Mutant: published for one rotation only.
Published_OneRotation == {k \in stored : now - created[k] < RotateAfter}

\* The rows publishedKeys selects.
Published == {k \in stored : now - created[k] < PublishFor}

\* The rows that survive the deleteMany of createSigningKey.
Undeleted == {k \in stored : now - created[k] <= DeleteAfter}
-----------------------------------------------------------------------------
\* activeSigningKey finds the cached key in use and returns it at once.  The
\* actions that return a key k to request c leave tokens to mintAccessToken.
Reuse(c, k) ==
  /\ call[c] = NoCall
  /\ InUse(ProcessOf[c]) /\ k = active[ProcessOf[c]].kid
  /\ UNCHANGED <<now, secret, stored, created, sealed, active, call>>

\* It reads the clock and finds that the newest row can sign (of several equally
\* new ones the database picks one),
Find(c) ==
  /\ call[c] = NoCall
  /\ ~InUse(ProcessOf[c])
  /\ \E k \in stored :
       /\ IsNewest(k) /\ CanSign(k)
       /\ call' = [call EXCEPT ![c] = [step |-> "found", kid |-> k, began |-> now]]
  /\ UNCHANGED <<now, secret, stored, created, sealed, active, tokens>>

\* or that a key has to be created.
Miss(c) ==
  /\ call[c] = NoCall
  /\ ~InUse(ProcessOf[c])
  /\ stored = {} \/ \E k \in stored : IsNewest(k) /\ ~CanSign(k)
  /\ call' = [call EXCEPT ![c] = [step |-> "create", began |-> now]]
  /\ UNCHANGED <<now, secret, stored, created, sealed, active, tokens>>

\* Mutant: the request never ends.
Keep_LeavesCall(c, k) ==
  /\ active' = [active EXCEPT ![ProcessOf[c]] =
                  [kid |-> k, until |-> call[c].began + CacheFor]]
  /\ UNCHANGED call

\* Key k goes into the cache of c's process, for as long as counted from the
\* moment c read the clock, and the request has its key.
Keep(c, k) ==
  /\ active' = [active EXCEPT ![ProcessOf[c]] =
                  [kid |-> k, until |-> call[c].began + CacheFor]]
  /\ call' = [call EXCEPT ![c] = NoCall]

\* The found key is imported, cached and returned.
Adopt(c, k) ==
  /\ call[c].step = "found" /\ k = call[c].kid
  /\ Keep(c, k)
  /\ UNCHANGED <<now, secret, stored, created, sealed>>

\* createSigningKey generates a pair, inserts its row and deletes the old rows;
\* the new key is cached and returned.
Create(c, k) ==
  /\ call[c].step = "create"
  /\ created[k] = -1
  /\ created' = [created EXCEPT ![k] = now]
  /\ sealed' = [sealed EXCEPT ![k] = secret]
  /\ stored' = Undeleted \cup {k}
  /\ Keep(c, k)
  /\ UNCHANGED <<now, secret>>

Returns(c, k) == Reuse(c, k) \/ Adopt(c, k) \/ Create(c, k)

\* mintAccessToken signs with the key it is given, in the same turn.
Mint(m) ==
  \/ Find(m) \/ Miss(m)
  \/ \E k \in Kids :
       /\ Returns(m, k)
       /\ tokens' = tokens \cup {[kid |-> k, exp |-> now + TokenLife]}

\* The web app is redeployed, possibly with another AUTH_SECRET: the caches and
\* the requests in progress are gone.
Redeploy ==
  /\ secret' \in {secret, secret + 1} /\ secret' <= Secrets
  /\ active' = [p \in Processes |-> NoKey]
  /\ call' = [c \in Callers |-> NoCall]
  /\ UNCHANGED <<now, stored, created, sealed, tokens>>

\* Bound: no request is so slow that the clock may not move on.
OnTime == \A c \in Callers : call[c] # NoCall => now < call[c].began + Slow

\* verify: a token is valid until its expiry plus the leeway.
LiveAt(t, n) == n < t.exp + Leeway

\* Time passes.
Tick ==
  /\ OnTime
  /\ now' = now + 1
  /\ tokens' = {t \in tokens : LiveAt(t, now')}
  /\ UNCHANGED <<secret, stored, created, sealed, active, call>>
=============================================================================
