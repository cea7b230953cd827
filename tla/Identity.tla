------------------------------- MODULE Identity -------------------------------
(* Who may do what: the web app's accounts, their roles and personal API keys, and
   the Python services' cache of exchanged keys. Requests run side by side; a
   database transaction of the web app commits only if nothing was written since
   it read (SQLite), and everything else is read and written in separate steps. *)
EXTENDS FiniteSets, FiniteSetsExt, Integers, Sequences, SequencesExt

CONSTANTS
  Users,        \* accounts, one for an e-mail address: 1..n by createdAt, which may
                \* not be the order in which their rows are committed
  Roles,        \* roles an admin hands out
  Owners,       \* bound: the accounts that make keys
  Keys,         \* API keys that may be created
  Requests,     \* requests the web app and the services handle at once
  MaxKeys,      \* MAX_ACTIVE_KEYS
  MaxSignUps,   \* sign-ups a client may try in one window
  Window,       \* that window
  CacheFor,     \* EXCHANGE_CACHE_SECONDS
  TokenLife,    \* ACCESS_TOKEN_SECONDS
  Leeway,       \* the last part of a token's life it is not cached for
  MaxCached,    \* _MAX_CACHED_KEYS
  MaxTime,      \* bound on the clock
  None

ASSUME InstanceAssumption ==
  /\ Users \subseteq Nat /\ {MaxKeys, MaxSignUps, Window, CacheFor, TokenLife} \subseteq Nat
  /\ {MaxCached, MaxTime, Leeway} \subseteq Nat /\ MaxCached > 0 /\ MaxKeys > 0
  /\ {"user", "admin"} \subseteq Roles /\ Owners \subseteq Users
  /\ IsFiniteSet(Users) /\ IsFiniteSet(Keys) /\ IsFiniteSet(Requests)
  /\ None \notin Nat /\ None \notin [role : Roles, changed : Nat]
  /\ None \notin [owner : Users, revoked : Nat \cup {None}]

VARIABLES
  now,        \* the clock
  accounts,   \* User rows: the role and when it last changed
  keys,       \* ApiKey rows: owner and revokedAt
  bucket,     \* the rate limiter's bucket of the one client that registers
  exchanged,  \* LocalAuth._exchanged of a Python service, in insertion order
  req         \* what each request is doing

vars == <<now, accounts, keys, bucket, exchanged, req>>

Free == [pc |-> "free", who |-> None, what |-> None, seen |-> None, at |-> 0, fresh |-> TRUE]

Init ==
  /\ now = 0 /\ exchanged = <<>>
  /\ accounts = [u \in Users |-> None]
  /\ keys = [k \in Keys |-> None]
  /\ bucket = [count |-> 0, resetAt |-> 0]
  /\ req = [r \in Requests |-> Free]

----------------------------------------------------------------------------
Exists(u) == accounts[u] # None
Role(u) == IF Exists(u) THEN accounts[u].role ELSE "viewer"
Admins == {u \in Users : Exists(u) /\ accounts[u].role = "admin"}

(* The role is read from the database, never from the session. *)
RequireAdmin(u) == Role(u) = "admin"

Active(u) == {k \in Keys : keys[k] # None /\ keys[k].owner = u /\ keys[k].revoked = None}

WithRole(rows, u, role) == [rows EXCEPT ![u] = [role |-> role, changed |-> now]]
Earliest(rows) == Min({u \in Users : rows[u] # None})

(* ensureAdmin, within one transaction. *)
EnsuredAdmin(rows) ==
  IF \E u \in Users : rows[u] # None /\ rows[u].role = "admin" THEN rows
  ELSE WithRole(rows, Earliest(rows), "admin")

Become(r, s) == req' = [req EXCEPT ![r] = s]
Done(r) == Become(r, Free)

(* A write to the database: transactions that have read may no longer commit. *)
AfterWrite(r, s) ==
  req' = [q \in Requests |-> IF q = r THEN s
                             ELSE [req[q] EXCEPT !.fresh = @ /\ req[q].pc # "setRole"]]

(* rateLimit: a fixed window that starts with its first request. The sweep of old
   buckets drops only those the next request would replace; a count beyond the
   limit is refused like the first. *)
Counted == IF bucket.resetAt <= now THEN [count |-> 1, resetAt |-> now + Window]
           ELSE [bucket EXCEPT !.count = Min({@ + 1, MaxSignUps})]
Allowed == bucket.resetAt <= now \/ bucket.count < MaxSignUps

----------------------------------------------------------------------------
(* POST /api/auth/register: limited, then refused if the address is known. *)
Register(r, u) ==
  /\ req[r].pc = "free"
  /\ bucket' = Counted
  /\ IF Allowed /\ ~Exists(u)
       THEN Become(r, [Free EXCEPT !.pc = "register", !.who = u])
       ELSE UNCHANGED req
  /\ UNCHANGED <<now, accounts, keys, exchanged>>

(* The transaction, after the password was hashed; an address registered in the
   meantime breaks the unique index and answers 500. *)
RegisterCommit(r) ==
  LET u == req[r].who
  IN /\ req[r].pc = "register"
     /\ IF Exists(u) THEN Done(r) /\ UNCHANGED accounts
        ELSE /\ accounts' = EnsuredAdmin(WithRole(accounts, u, "user"))
             /\ AfterWrite(r, Free)
     /\ UNCHANGED <<now, keys, bucket, exchanged>>

(* The first sign-in through a provider creates the account; ensureAdmin follows
   outside any transaction: it reads, then promotes. *)
OAuthSignUp(r, u) ==
  /\ req[r].pc = "free" /\ ~Exists(u)
  /\ accounts' = WithRole(accounts, u, "user")
  /\ AfterWrite(r, [Free EXCEPT !.pc = "ensure", !.who = u])
  /\ UNCHANGED <<now, keys, bucket, exchanged>>

EnsureRead(r) ==
  /\ req[r].pc = "ensure"
  /\ IF Admins # {} THEN Done(r)
     ELSE Become(r, [req[r] EXCEPT !.pc = "promote", !.seen = Earliest(accounts)])
  /\ UNCHANGED <<now, accounts, keys, bucket, exchanged>>

EnsureWrite(r) ==
  /\ req[r].pc = "promote"
  /\ accounts' = WithRole(accounts, req[r].seen, "admin")
  /\ AfterWrite(r, Free)
  /\ UNCHANGED <<now, keys, bucket, exchanged>>

(* PATCH /api/admin/users/<id>, by an admin who is one when the request comes. *)
ChangeRole(r, admin, u, role) ==
  /\ req[r].pc = "free" /\ RequireAdmin(admin) /\ Exists(u)
  /\ Become(r, [Free EXCEPT !.pc = "role", !.who = u, !.what = role])
  /\ UNCHANGED <<now, accounts, keys, bucket, exchanged>>

(* setUserRole, one transaction: the target and the number of admins are read,
   the last admin is kept, then the role is written. *)
RoleRead(r) ==
  LET u == req[r].who
  IN /\ req[r].pc = "role"
     /\ IF Role(u) = "admin" /\ req[r].what # "admin" /\ Cardinality(Admins) <= 1 THEN Done(r)
        ELSE Become(r, [req[r] EXCEPT !.pc = "setRole"])
     /\ UNCHANGED <<now, accounts, keys, bucket, exchanged>>

(* Mutant: the role is written outside the transaction that counted the admins. *)
RoleCommitUnchecked(r) ==
  /\ req[r].pc = "setRole"
  /\ accounts' = WithRole(accounts, req[r].who, req[r].what)
  /\ AfterWrite(r, Free)
  /\ UNCHANGED <<now, keys, bucket, exchanged>>

RoleCommit(r) ==
  /\ req[r].pc = "setRole"
  /\ IF req[r].fresh
       THEN accounts' = WithRole(accounts, req[r].who, req[r].what) /\ AfterWrite(r, Free)
       ELSE Done(r) /\ UNCHANGED accounts
  /\ UNCHANGED <<now, keys, bucket, exchanged>>

(* Mutant: one key too many. *)
CountKeysTooMany(r, u) ==
  /\ req[r].pc = "free" /\ Exists(u)
  /\ Cardinality(Active(u)) <= MaxKeys
  /\ Become(r, [Free EXCEPT !.pc = "createKey", !.who = u])
  /\ UNCHANGED <<now, accounts, keys, bucket, exchanged>>

(* createApiKey: the active keys are counted; the insert is a later step. *)
CountKeys(r, u) ==
  /\ req[r].pc = "free" /\ Exists(u)
  /\ Cardinality(Active(u)) < MaxKeys
  /\ Become(r, [Free EXCEPT !.pc = "createKey", !.who = u])
  /\ UNCHANGED <<now, accounts, keys, bucket, exchanged>>

InsertKey(r, k) ==
  /\ req[r].pc = "createKey" /\ keys[k] = None
  /\ keys' = [keys EXCEPT ![k] = [owner |-> req[r].who, revoked |-> None]]
  /\ AfterWrite(r, Free)
  /\ UNCHANGED <<now, accounts, bucket, exchanged>>

(* One update that matches unrevoked rows only: revokeAnyApiKey, by an admin. *)
Revoke(r, k) ==
  /\ req[r].pc = "free" /\ keys[k].revoked = None
  /\ keys' = [keys EXCEPT ![k].revoked = now]
  /\ AfterWrite(r, Free)
  /\ UNCHANGED <<now, accounts, bucket, exchanged>>

(* revokeApiKey matches the caller's own rows. *)
RevokeOwn(r, u, k) == keys[k] # None /\ keys[k].owner = u /\ Revoke(r, k)

----------------------------------------------------------------------------
(* A Python service's side of a personal key: LocalAuth._from_api_key. *)
Cached(k) == {i \in DOMAIN exchanged : exchanged[i].key = k}
Hit(k) == \E i \in Cached(k) : exchanged[i].until > now

(* The time of the cache entry is read before the exchange begins. *)
Exchange(r, k) ==
  /\ req[r].pc = "free" /\ keys[k] # None /\ ~Hit(k)
  /\ Become(r, [Free EXCEPT !.pc = "resolve", !.what = k, !.at = now])
  /\ UNCHANGED <<now, accounts, keys, bucket, exchanged>>

(* POST /api/identity/token: resolveApiKey, then mintAccessToken. Limited per
   client, unreachable or failing, it answers with an error. *)
Resolve(r) ==
  LET k == req[r].what
  IN /\ req[r].pc = "resolve"
     /\ IF keys[k].revoked # None THEN Done(r)
        ELSE Become(r, [req[r] EXCEPT !.pc = "mint", !.who = keys[k].owner])
     /\ UNCHANGED <<now, accounts, keys, bucket, exchanged>>

ExchangeFails(r) ==
  /\ req[r].pc \in {"resolve", "mint", "minted"}
  /\ Done(r)
  /\ UNCHANGED <<now, accounts, keys, bucket, exchanged>>

(* The token carries the role its owner has at this moment. *)
TokenFor(u) == [role |-> Role(u), exp |-> now + TokenLife]

Mint(r) ==
  /\ req[r].pc = "mint"
  /\ Become(r, [req[r] EXCEPT !.pc = "minted", !.seen = TokenFor(req[r].who)])
  /\ UNCHANGED <<now, accounts, keys, bucket, exchanged>>

(* The entries at these places of the cache, in their order. *)
EntriesAt(places) ==
  [n \in 1..Cardinality(places) |->
     exchanged[CHOOSE i \in places : Cardinality({h \in places : h <= i}) = n]]

(* Mutant: a full cache only drops what expired. *)
RememberedAlways(entry) ==
  Append(EntriesAt({i \in DOMAIN exchanged : exchanged[i].until > now
                                             /\ exchanged[i].key # entry.key}), entry)

(* _remember: a full cache drops what expired, then its oldest entry. A key that
   is still there keeps its place. *)
Remembered(entry) ==
  LET live == EntriesAt({i \in DOMAIN exchanged : exchanged[i].until > now})
      room == IF Len(exchanged) < MaxCached THEN exchanged
              ELSE IF Len(live) < MaxCached THEN live ELSE Tail(live)
  IN IF \E i \in DOMAIN room : room[i].key = entry.key
       THEN [i \in DOMAIN room |-> IF room[i].key = entry.key THEN entry ELSE room[i]]
       ELSE Append(room, entry)

(* What the services know a caller by until then: no more than the token said. *)
Principal(r, until) == [key |-> req[r].what, role |-> req[r].seen.role, until |-> until]

(* Mutant: an entry lives its full time from the end of the exchange. *)
RememberLate(r) ==
  LET lifetime == req[r].seen.exp - now - Leeway
      entry == Principal(r, now + Min({CacheFor, lifetime}))
  IN /\ req[r].pc = "minted"
     /\ exchanged' = IF lifetime > 0 THEN Remembered(entry) ELSE exchanged
     /\ Done(r)
     /\ UNCHANGED <<now, accounts, keys, bucket>>

(* The verified token's principal is kept for a minute from the time the request
   came, at most until the token is about to expire. *)
Remember(r) ==
  LET lifetime == req[r].seen.exp - now - Leeway
      entry == Principal(r, req[r].at + Min({CacheFor, lifetime}))
  IN /\ req[r].pc = "minted"
     /\ exchanged' = IF lifetime > 0 THEN Remembered(entry) ELSE exchanged
     /\ Done(r)
     /\ UNCHANGED <<now, accounts, keys, bucket>>

Tick ==
  /\ now < MaxTime
  /\ now' = now + 1
  /\ UNCHANGED <<accounts, keys, bucket, exchanged, req>>

----------------------------------------------------------------------------
(* The pages: one form a tab, whose submissions of several tabs overlap freely. *)
RegisterForm(r) == \E u \in Users : Register(r, u)

OAuthButtons(r) == \E u \in Users : OAuthSignUp(r, u)

(* A role is offered beside each listed user but the role the list shows; the
   list may be out of date, so another admin may have assigned it already. *)
UsersPanel(r) == \E a, u \in Users, role \in Roles : ChangeRole(r, a, u, role)

ApiKeysDialog(r) ==
  \E u \in Owners : CountKeys(r, u) \/ \E k \in Keys : RevokeOwn(r, u, k)

AdminApiKeysPanel(r) ==
  /\ \E a \in Users : RequireAdmin(a)
  /\ \E k \in Keys : keys[k] # None /\ Revoke(r, k)

Next ==
  \/ Tick
  \/ \E r \in Requests :
       \/ RegisterForm(r) \/ OAuthButtons(r) \/ UsersPanel(r)
       \/ ApiKeysDialog(r) \/ AdminApiKeysPanel(r)
       \/ \E k \in Keys : InsertKey(r, k) \/ Exchange(r, k)
       \/ RegisterCommit(r) \/ EnsureRead(r) \/ EnsureWrite(r) \/ RoleRead(r) \/ RoleCommit(r)
       \/ Resolve(r) \/ ExchangeFails(r) \/ Mint(r) \/ Remember(r)

Spec == Init /\ [][Next]_vars

----------------------------------------------------------------------------
(* "It stops working within a minute": whatever was in flight when a key was
   revoked, or when its owner's role changed, no service goes on taking the key, or
   the old role, for more than the caching time after. *)
RevocationBites ==
  \A i \in DOMAIN exchanged :
    LET e == exchanged[i]
        k == keys[e.key]
    IN /\ k.revoked # None => e.until <= k.revoked + CacheFor
       /\ e.role # Role(k.owner) => e.until <= accounts[k.owner].changed + CacheFor

(* An instance that has an admin keeps one, also when two admins demote each other
   at the same time or a provider's sign-up promotes late; and there is never a
   moment at which a registration has committed and nobody is an admin. *)
AlwaysAnAdmin ==
  [][/\ Admins # {} => Admins' # {}
     /\ (\E r \in Requests : /\ req[r].pc = "register" /\ req'[r].pc = "free"
                            /\ ~Exists(req[r].who)) => Admins' # {}]_vars

(* The two limits. However many keys are exchanged at once, the cache of a service
   never outgrows its own; and the check of the number of keys, which is outside
   any transaction, lets a user's keys and those being made exceed theirs by at
   most the other requests in flight. *)
LimitsHold ==
  /\ Len(exchanged) <= MaxCached
  /\ \A u \in Users :
       LET making == {r \in Requests : req[r].pc = "createKey" /\ req[r].who = u}
       IN Cardinality(Active(u)) + Cardinality(making) <= MaxKeys + Cardinality(Requests) - 1
=============================================================================
