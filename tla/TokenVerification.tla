-------------------------- MODULE TokenVerification --------------------------
(***************************************************************************)
(* One Python service that verifies the web app's access tokens            *)
(* (ldk_plugin_auth/_jwt.py: KeySet and verify) against the keys the web   *)
(* app publishes.  KeySet.key awaits a fetch between its decision and its  *)
(* look-up, without a lock: the requests of the service refresh the shared *)
(* set concurrently, and the answers arrive in any order.                  *)
(***************************************************************************)
EXTENDS SigningKeys

CONSTANTS
  Foreign,      \* key ids the web app never published, in tokens it never signed
  NoFetch, NoAnswer,
  MaxAge,       \* max_age of KeySet
  MinInterval,  \* min_interval of KeySet
  FetchTimeout, \* bound: how long a fetch can take (timeout of the HTTP client)
  MaxTime       \* bound of the clock

ASSUME VerificationAssumption ==
  /\ {MaxAge, MinInterval, FetchTimeout, MaxTime} \subseteq Nat
  /\ Foreign \cap Kids = {}
  /\ \A S \in SUBSET Kids : S # NoAnswer

VARIABLES
  fetch,      \* per request of the service, its fetch of the key set
  keys,       \* _keys: the ids the service knows
  fetchedAt   \* _fetched_at

serviceVars == <<fetch, keys, fetchedAt>>
vars == <<webVars, serviceVars>>

Fetch == [kid : Kids \cup Foreign, asked : Nat, answer : {NoAnswer} \cup SUBSET Kids]

Init ==
  /\ InitWeb
  /\ fetch = [q \in Readers |-> NoFetch]
  /\ keys = {}
  /\ fetchedAt = -(MaxAge + MinInterval + 1)  \* minus infinity
-----------------------------------------------------------------------------
Stale == now - fetchedAt > MaxAge

\* Mutant: a missing key is never fetched before the set is stale.
NeedsFetch_OnlyStale(kid) == Stale

\* KeySet.key: the set is fetched when it is stale, and for an unknown id unless
\* it was fetched a moment ago.
NeedsFetch(kid) == Stale \/ (kid \notin keys /\ now - fetchedAt > MinInterval)

\* KeySet.key without a fetch: the id is looked up, and nothing changes.
RefusedAtOnce(kid) == ~NeedsFetch(kid) /\ kid \notin keys

\* A request brings a token signed with kid, or claiming to be, and the service
\* fetches the set first.
Ask(q, kid) ==
  /\ fetch[q] = NoFetch
  /\ NeedsFetch(kid)
  /\ fetch' = [fetch EXCEPT ![q] = [kid |-> kid, asked |-> now, answer |-> NoAnswer]]
  /\ UNCHANGED <<webVars, keys, fetchedAt>>

Asking(q) == fetch[q] # NoFetch /\ fetch[q].answer = NoAnswer
Answered(q) == fetch[q] # NoFetch /\ fetch[q].answer # NoAnswer

\* publishedKeys serves the fetch of q: it makes sure there is a signing key, then
\* answers with the rows that are published.  The query is one step with the end
\* of activeSigningKey: it only reads, and later it would read no less.
Publish(q) ==
  /\ Asking(q)
  /\ \/ /\ Find(q) \/ Miss(q)
        /\ UNCHANGED fetch
     \/ /\ \E k \in Kids : Returns(q, k)
        /\ fetch' = [fetch EXCEPT ![q].answer = Published']
        /\ UNCHANGED tokens
  /\ UNCHANGED <<keys, fetchedAt>>

\* _refresh ends: the answer replaces the set, and key looks the id up in it.
Apply(q) ==
  /\ Answered(q)
  /\ keys' = fetch[q].answer
  /\ fetchedAt' = now
  /\ fetch' = [fetch EXCEPT ![q] = NoFetch]
  /\ UNCHANGED webVars

\* _refresh raises: timeout, refused connection, an error status.  The web app
\* would finish its work on the request; a Minter does that work too.
FetchFails(q) ==
  /\ fetch[q] # NoFetch
  /\ fetch' = [fetch EXCEPT ![q] = NoFetch]
  /\ call' = [call EXCEPT ![q] = NoCall]
  /\ UNCHANGED <<now, secret, stored, created, sealed, active, tokens, keys, fetchedAt>>

\* The fetches the web app was working on fail with it.
RedeployWeb ==
  /\ Redeploy
  /\ fetch' = [q \in Readers |-> IF Asking(q) THEN NoFetch ELSE fetch[q]]
  /\ UNCHANGED <<keys, fetchedAt>>

Pass ==
  /\ now < MaxTime
  /\ \A q \in Readers : fetch[q] # NoFetch => now < fetch[q].asked + FetchTimeout
  /\ Tick
  /\ UNCHANGED serviceVars

Presentable == {t.kid : t \in tokens} \cup Foreign

Next ==
  \/ \E m \in Minters : Mint(m) /\ UNCHANGED serviceVars
  \/ \E q \in Readers : \/ \E kid \in Presentable : Ask(q, kid)
                        \/ Publish(q)
                        \/ Apply(q)
                        \/ FetchFails(q)
  \/ RedeployWeb
  \/ Pass

Spec == Init /\ [][Next]_vars
-----------------------------------------------------------------------------
\* The shape of the web app's and the service's state.
TypeOK ==
  /\ now \in Nat
  /\ secret \in 1 .. Secrets
  /\ stored \subseteq Kids
  /\ created \in [Kids -> Nat \cup {-1}]
  /\ sealed \in [Kids -> 1 .. Secrets]
  /\ active \in [Processes -> Cached \cup {NoKey}]
  /\ call \in [Callers -> Call \cup {NoCall}]
  /\ tokens \subseteq Token
  /\ fetch \in [Readers -> Fetch \cup {NoFetch}]
  /\ keys \subseteq Kids
  /\ fetchedAt \in Int
  /\ \A q \in Readers : call[q] # NoCall => Asking(q)

\* PUBLISH_FOR_MS: "tokens signed just before a rotation stay verifiable".  As
\* long as a token is valid, the key it was signed with is published, although
\* it may have been cached, and the token signed, well after the next rotation
\* was due.
KeysOutliveTokens == \A t \in tokens : t.kid \in Published

\* KeySet: "key rotation is picked up".  A valid token is refused only while its
\* key is younger than the longest fetch plus min_interval, whichever of the
\* overlapping answers is applied last; and never by a request that fetched the
\* set for it.
RotationIsPickedUp ==
  /\ \A t \in tokens :
       RefusedAtOnce(t.kid) => now - created[t.kid] <= FetchTimeout + MinInterval
  /\ \A q \in Readers, t \in tokens :
       Answered(q) /\ t.kid = fetch[q].kid => t.kid \in fetch[q].answer

=============================================================================
