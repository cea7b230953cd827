--------------------------- MODULE WorkspaceAccess ---------------------------
(* Requests of core-api and what they may do in a workspace: a credential is
   resolved to a caller, the caller to an access, and the access is then used
   in later transactions, while roles change, keys expire and keys are revoked.
   Every step below is one database transaction of one request, or one event
   outside the requests; a request is a slot of the server that is used again. *)
EXTENDS FiniteSets, Naturals

CONSTANTS
  Users, Workspaces, Keys, Contents,
  Requests,        \* requests that can be under way at the same time
  KeyScopes,       \* the scope sets a key is asked for
  MaxKeys,         \* MAX_KEYS_PER_WORKSPACE
  NewRoles,        \* what operators set a membership to
  MaxRoleChanges,  \* bound on how often they do
  MaxLost,         \* bound on audit events lost to a failure
  NoOne            \* no user, no key, no workspace

ASSUME LimitAssumption == MaxKeys \in Nat \ {0} /\ MaxRoleChanges \in Nat /\ MaxLost \in Nat

Scopes == {"chat", "ingest", "manage"}

ScopesByRole == [none |-> {}, reader |-> {"chat"}, editor |-> {"chat", "ingest"},
                 owner |-> {"chat", "ingest", "manage"}]

ASSUME NamesAssumption ==
  /\ IsFiniteSet(Requests) /\ IsFiniteSet(Keys)
  /\ NewRoles \subseteq DOMAIN ScopesByRole
  /\ NoOne \notin Users \cup Workspaces \cup Keys

VARIABLES
  role,      \* role[w][u] in core.memberships, "none" without a row
  created,   \* the rows of core.workspaces
  keys,      \* core.api_keys
  docs,      \* core.documents: workspace and content hash
  audit,     \* core.audit_events: action, what it is about, who did it
  req,       \* the requests
  changes,   \* role changes so far
  entitled,  \* scopes a request's credential has held since it began (history)
  unlogged   \* changes whose request failed before it wrote its event (history)

vars == <<role, created, keys, docs, audit, req, changes, entitled, unlogged>>

Idle == [pc |-> "idle", op |-> "none", ws |-> NoOne, key |-> NoOne, user |-> NoOne,
         scopes |-> {}, arg |-> NoOne]

Nothing == [key |-> {}, role |-> {}]

NoRow == [state |-> "none", ws |-> NoOne, user |-> NoOne, scopes |-> {}]

(* The workspaces a user belongs to. *)
WorkspacesOf(u) == {w \in created : role[w][u] # "none"}

(* Keys the limit counts and the list shows: expired ones are among them. *)
KeysOf(w) == {k \in Keys : keys[k].ws = w /\ keys[k].state \in {"active", "expired"}}

(* The workspace a request is about, as far as it is known yet. *)
Where(r) == IF req[r].ws = NoOne /\ req[r].key # NoOne THEN keys[req[r].key].ws ELSE req[r].ws

(* What the key and what the membership of a request are worth at this moment. *)
KeyWorth(r) ==
  LET k == req[r].key
  IN IF k = NoOne THEN Scopes
     ELSE IF keys[k].state = "active" /\ keys[k].ws = Where(r) THEN keys[k].scopes ELSE {}
RoleWorth(r) == IF Where(r) = NoOne THEN {} ELSE ScopesByRole[role[Where(r)][req[r].user]]

(* Kept beside every step: all they were worth since the request began. *)
Observe ==
  entitled' = [r \in Requests |->
    IF req'[r].pc = "idle" THEN Nothing
    ELSE [key |-> entitled[r].key \cup KeyWorth(r)', role |-> entitled[r].role \cup RoleWorth(r)']]

Goto(r, pc) == req' = [req EXCEPT ![r].pc = pc]

(* The request is answered, mostly with an error, and its slot is free again. *)
Answer(r) == req' = [req EXCEPT ![r] = Idle]

Init ==
  /\ role = [w \in Workspaces |-> [u \in Users |-> "none"]]
  /\ created = {} /\ docs = {} /\ audit = {} /\ unlogged = {} /\ changes = 0
  /\ keys = [k \in Keys |-> NoRow]
  /\ req = [r \in Requests |-> Idle]
  /\ entitled = [r \in Requests |-> Nothing]

----------------------------------------------------------------------------
(* A key speaks for its owner unless it was revoked or has expired. The row is
   read once (its last_used_at, which is then set, is only ever shown). *)
SpeaksFor(k, u) == keys[k].user = u /\ keys[k].state = "active"

(* A request arrives and AccessResolver.caller answers who is calling: a session
   of u, verified without the database, or the key k of u. The workspace w comes
   from the path or the header, or it is left open. *)
Authenticate(r, op, u, k, w, arg) ==
  /\ req[r].pc = "idle"
  /\ k # NoOne => SpeaksFor(k, u)
  /\ req' = [req EXCEPT ![r] =
       [pc |-> IF op = "createWorkspace" THEN op ELSE "resolve",
        op |-> op, ws |-> w, key |-> k, user |-> u, scopes |-> {}, arg |-> arg]]
  /\ UNCHANGED <<role, created, keys, docs, audit, changes, unlogged>> /\ Observe

(* The workspaces a request that names none may mean. *)
Chosen(r) ==
  IF req[r].ws # NoOne THEN {req[r].ws}
  ELSE IF req[r].key # NoOne THEN {keys[req[r].key].ws}
  ELSE LET mine == WorkspacesOf(req[r].user)
       IN IF Cardinality(mine) = 1 THEN mine ELSE {}

(* Mutant: a key keeps its scopes whatever became of its owner's role. *)
GrantedToKey(r, w) ==
  LET k == req[r].key
  IN IF k = NoOne THEN ScopesByRole[role[w][req[r].user]]
     ELSE IF keys[k].ws # w THEN {} ELSE keys[k].scopes

(* The key's scopes within its owner's current role, for a session the role's. *)
Granted(r, w) ==
  LET k == req[r].key
      granted == ScopesByRole[role[w][req[r].user]]
  IN IF k = NoOne THEN granted ELSE IF keys[k].ws # w THEN {} ELSE granted \cap keys[k].scopes

(* No access without a membership, nor with a key of another workspace. *)
HasAccess(r, w) ==
  role[w][req[r].user] # "none" /\ (req[r].key # NoOne => keys[req[r].key].ws = w)

Resolve(r) ==
  /\ req[r].pc = "resolve"
  /\ IF \E w \in Chosen(r) : HasAccess(r, w)
       THEN LET w == CHOOSE x \in Chosen(r) : TRUE
            IN req' = [req EXCEPT ![r].pc = req[r].op, ![r].ws = w, ![r].scopes = Granted(r, w)]
       ELSE Answer(r)
  /\ UNCHANGED <<role, created, keys, docs, audit, changes, unlogged>> /\ Observe

(* The workspace and its owner's membership, in one transaction. *)
Inserted(w, u) ==
  created' = created \cup {w} /\ role' = [role EXCEPT ![w][u] = "owner"]

(* WorkspaceService.create: sessions only; a slug is taken once. *)
CreateWorkspace(r, w) ==
  /\ req[r].pc = "createWorkspace" /\ req[r].arg = w
  /\ IF req[r].key # NoOne \/ w \in created
       THEN Answer(r) /\ UNCHANGED <<role, created>>
       ELSE /\ Inserted(w, req[r].user)
            /\ req' = [req EXCEPT ![r].pc = "audit", ![r].ws = w]
  /\ UNCHANGED <<keys, docs, audit, changes, unlogged>> /\ Observe

(* Mutant: the limit is off by one. *)
CountKeysTooMany(r) ==
  /\ req[r].pc = "createKey"
  /\ IF /\ "manage" \in req[r].scopes
        /\ req[r].arg \subseteq req[r].scopes
        /\ Cardinality(KeysOf(req[r].ws)) <= MaxKeys
       THEN Goto(r, "insertKey") ELSE Answer(r)
  /\ UNCHANGED <<role, created, keys, docs, audit, changes, unlogged>> /\ Observe

(* ApiKeyService.create counts in one transaction and inserts in the next. *)
CountKeys(r) ==
  /\ req[r].pc = "createKey"
  /\ IF /\ "manage" \in req[r].scopes
        /\ req[r].arg \subseteq req[r].scopes
        /\ Cardinality(KeysOf(req[r].ws)) < MaxKeys
       THEN Goto(r, "insertKey") ELSE Answer(r)
  /\ UNCHANGED <<role, created, keys, docs, audit, changes, unlogged>> /\ Observe

InsertKey(r, k) ==
  /\ req[r].pc = "insertKey" /\ keys[k].state = "none"
  /\ keys' = [keys EXCEPT ![k] = [state |-> "active", ws |-> req[r].ws,
                                  user |-> req[r].user, scopes |-> req[r].arg]]
  /\ req' = [req EXCEPT ![r].pc = "audit", ![r].arg = k]
  /\ UNCHANGED <<role, created, docs, audit, changes, unlogged>> /\ Observe

(* Mutant: the update matches any key, and its row count is not looked at. *)
RevokeUnchecked(r, k) ==
  /\ req[r].pc = "revokeKey" /\ req[r].arg = k
  /\ IF "manage" \in req[r].scopes
       THEN Goto(r, "audit") /\ keys' = IF keys[k].state = "expired" THEN keys
                                        ELSE [keys EXCEPT ![k].state = "revoked"]
       ELSE Answer(r) /\ UNCHANGED keys
  /\ UNCHANGED <<role, created, docs, audit, changes, unlogged>> /\ Observe

(* The update names the workspace and matches no revoked key. *)
Revoked(w, k) == k \in KeysOf(w) /\ keys' = [keys EXCEPT ![k].state = "revoked"]

(* ApiKeyService.revoke: 404 when the update changes no row. *)
RevokeKey(r, k) ==
  /\ req[r].pc = "revokeKey" /\ req[r].arg = k
  /\ IF "manage" \in req[r].scopes /\ k \in KeysOf(req[r].ws)
       THEN Revoked(req[r].ws, k) /\ Goto(r, "audit")
       ELSE Answer(r) /\ UNCHANGED keys
  /\ UNCHANGED <<role, created, docs, audit, changes, unlogged>> /\ Observe

(* DocumentService.upload: the same bytes again change nothing but are audited. *)
Upload(r, c) ==
  /\ req[r].pc = "upload" /\ req[r].arg = c
  /\ IF "ingest" \in req[r].scopes
       THEN /\ docs' = docs \cup {<<req[r].ws, c>>}
            /\ req' = [req EXCEPT ![r].pc = "audit",
                 ![r].op = IF <<req[r].ws, c>> \in docs THEN "uploadAgain" ELSE "upload"]
       ELSE Answer(r) /\ UNCHANGED docs
  /\ UNCHANGED <<role, created, keys, audit, changes, unlogged>> /\ Observe

(* DocumentService.list, and the models and retrieval of the chat routes. *)
Read(r) ==
  /\ req[r].pc = "read"
  /\ IF "chat" \in req[r].scopes THEN Goto(r, "done") ELSE Answer(r)
  /\ UNCHANGED <<role, created, keys, docs, audit, changes, unlogged>> /\ Observe

(* The event is written in a transaction of its own, after the change. *)
Event(r) == [action |-> req[r].op, ws |-> req[r].ws, of |-> req[r].arg, actor |-> req[r].user]

Audit(r) ==
  /\ req[r].pc = "audit"
  /\ audit' = audit \cup {Event(r)}
  /\ Goto(r, "done")
  /\ UNCHANGED <<role, created, keys, docs, changes, unlogged>> /\ Observe

(* A statement fails or the process ends: what was committed stays. *)
Fail(r) ==
  /\ req[r].pc \notin {"idle", "done"}
  /\ req[r].pc = "audit" => Cardinality(unlogged) < MaxLost
  /\ unlogged' = IF req[r].pc = "audit" THEN unlogged \cup {Event(r)} ELSE unlogged
  /\ Answer(r)
  /\ UNCHANGED <<role, created, keys, docs, audit, changes>> /\ Observe

Respond(r) ==
  /\ req[r].pc = "done"
  /\ Answer(r)
  /\ UNCHANGED <<role, created, keys, docs, audit, changes, unlogged>> /\ Observe

(* No route changes a role: operators do, in the database. *)
ChangeRole(w, u, to) ==
  /\ changes < MaxRoleChanges /\ w \in created /\ to # role[w][u]
  /\ role' = [role EXCEPT ![w][u] = to]
  /\ changes' = changes + 1
  /\ UNCHANGED <<created, keys, docs, audit, req, unlogged>> /\ Observe

Expire(k) ==
  /\ keys[k].state = "active"
  /\ keys' = [keys EXCEPT ![k].state = "expired"]
  /\ UNCHANGED <<role, created, docs, audit, req, changes, unlogged>> /\ Observe

Credentials == [user : Users, key : Keys \cup {NoOne}]

(* The routes: who may call them with which workspace is left to the steps. *)
WorkspaceRequests(r) ==
  \E c \in Credentials, s \in Workspaces :
    Authenticate(r, "createWorkspace", c.user, c.key, NoOne, s)

KeyRequests(r) ==
  \E c \in Credentials, w \in created :
    \/ \E a \in KeyScopes : Authenticate(r, "createKey", c.user, c.key, w, a)
    \/ \E k \in Keys : keys[k].state # "none" /\ Authenticate(r, "revokeKey", c.user, c.key, w, k)

DocumentRequests(r) ==
  \E c \in Credentials, w \in created \cup {NoOne} :
    \/ \E x \in Contents : Authenticate(r, "upload", c.user, c.key, w, x)
    \/ Authenticate(r, "read", c.user, c.key, w, NoOne)

Next ==
  \/ \E r \in Requests :
       \/ WorkspaceRequests(r) \/ KeyRequests(r) \/ DocumentRequests(r)
       \/ Resolve(r) \/ CountKeys(r) \/ Read(r) \/ Audit(r) \/ Fail(r) \/ Respond(r)
       \/ \E w \in Workspaces : CreateWorkspace(r, w)
       \/ \E k \in Keys : InsertKey(r, k) \/ RevokeKey(r, k)
       \/ \E c \in Contents : Upload(r, c)
  \/ \E w \in Workspaces, u \in Users, to \in NewRoles : ChangeRole(w, u, to)
  \/ \E k \in Keys : Expire(k)

Spec == Init /\ [][Next]_vars

----------------------------------------------------------------------------
Need == [createKey |-> "manage", revokeKey |-> "manage", upload |-> "ingest",
         uploadAgain |-> "ingest", read |-> "chat"]

(* The access of a request is decided from a key read in one transaction and a
   role read in another, and used in later ones, after roles and keys may have
   changed. Whatever the request then changes or reads in a workspace, its key
   (if any) was good for it there at some moment since the request began, and so
   was its owner's role; a key it issues holds no scope they never had. *)
EffectsEntitled ==
  \A r \in Requests : req[r].pc \in {"audit", "done"} /\ req[r].op \in DOMAIN Need =>
    LET both == entitled[r].key \cap entitled[r].role
    IN /\ Need[req[r].op] \in both
       /\ req[r].op = "createKey" => keys[req[r].arg].scopes \subseteq both

(* Keys are counted in one transaction and inserted in the next, so the limit
   may be passed, but by no more than the other requests that counted with it. *)
KeysNearLimit ==
  \A w \in Workspaces :
    Cardinality(KeysOf(w)) <= MaxKeys + Cardinality(Requests) - 1

Pending == {Event(r) : r \in {q \in Requests : req[q].pc = "audit"}}

(* The audit trail, written after each change in a transaction of its own,
   reports only what happened and reports it once; what it misses is exactly
   what a request is about to write or failed to write. *)
ChangesAccountedFor ==
  LET told(action, ws, of) ==
        Cardinality({e \in audit \cup unlogged \cup Pending :
                       e.action = action /\ e.ws = ws /\ e.of = of})
  IN /\ \A w \in Workspaces : told("createWorkspace", w, w) = IF w \in created THEN 1 ELSE 0
     /\ \A w \in Workspaces, k \in Keys :
          /\ told("createKey", w, k) = IF keys[k].ws = w THEN 1 ELSE 0
          /\ told("revokeKey", w, k) =
               IF keys[k].ws = w /\ keys[k].state = "revoked" THEN 1 ELSE 0
     /\ \A w \in Workspaces, c \in Contents :
          told("upload", w, c) = IF <<w, c>> \in docs THEN 1 ELSE 0
=============================================================================
