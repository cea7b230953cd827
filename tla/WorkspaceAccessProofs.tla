------------------------ MODULE WorkspaceAccessProofs ------------------------
(***************************************************************************)
(* Proofs about WorkspaceAccess for any users, workspaces, contents and     *)
(* limits, and any finite sets of keys and of requests at a time.           *)
(***************************************************************************)
EXTENDS WorkspaceAccess, FiniteSetTheorems, TLAPS

Roles == {"none", "reader", "editor", "owner"}
Routes == {"createKey", "revokeKey", "upload", "read"}
Operations == Routes \cup {"createWorkspace", "uploadAgain", "none"}
Steps == Routes \cup {"createWorkspace", "insertKey", "audit", "done", "resolve", "idle"}
Args == Workspaces \cup Keys \cup Contents \cup KeyScopes \cup {NoOne}

KeyRow == [state : {"none", "active", "expired", "revoked"}, ws : Workspaces \cup {NoOne},
           user : Users \cup {NoOne}, scopes : SUBSET Scopes]
Slot == [pc : Steps, op : Operations, ws : Workspaces \cup {NoOne}, key : Keys \cup {NoOne},
         user : Users \cup {NoOne}, scopes : SUBSET Scopes, arg : Args]
Worth == [key : SUBSET Scopes, role : SUBSET Scopes]

RowsInv ==
  /\ role \in [Workspaces -> [Users -> Roles]]
  /\ created \in SUBSET Workspaces
  /\ keys \in [Keys -> KeyRow]
  /\ \A k \in Keys : IF keys[k].state = "none" THEN keys[k] = NoRow ELSE keys[k].ws \in Workspaces
  /\ req \in [Requests -> Slot]
  /\ \A r \in Requests : req[r].pc # "idle" => req[r].user \in Users

TypeInv == RowsInv /\ entitled \in [Requests -> Worth]

Both(r) == entitled[r].key \cap entitled[r].role

(* The credential of a request, whose row never loses what it said at first. *)
Known(r) ==
  req[r].pc # "idle" =>
    IF req[r].key = NoOne THEN Scopes \subseteq entitled[r].key
    ELSE /\ keys[req[r].key].state # "none"
         /\ keys[req[r].key].ws = Where(r) => keys[req[r].key].scopes \subseteq entitled[r].key

(* The access a request holds on to was good at some moment. *)
Acting(r) ==
  /\ req[r].pc = "resolve" => req[r].op \in Routes
  /\ req[r].pc = "createWorkspace" => req[r].op = "createWorkspace"
  /\ req[r].pc \in Routes =>
       req[r].op = req[r].pc /\ req[r].scopes \subseteq Both(r) /\ req[r].ws # NoOne
  /\ req[r].pc = "insertKey" =>
       /\ req[r].op = "createKey" /\ req[r].scopes \subseteq Both(r) /\ req[r].ws # NoOne
       /\ "manage" \in req[r].scopes /\ req[r].arg \in SUBSET req[r].scopes
  /\ req[r].pc \in {"audit", "done"} /\ req[r].op \in DOMAIN Need =>
       /\ Need[req[r].op] \in Both(r)
       /\ req[r].op = "createKey" =>
            /\ req[r].arg \in Keys /\ keys[req[r].arg].state # "none"
            /\ keys[req[r].arg].scopes \subseteq Both(r)

Entitled == \A r \in Requests : Known(r) /\ Acting(r)

AccessInv == TypeInv /\ Entitled

----------------------------------------------------------------------------
LEMMA NextCases ==
  ASSUME [Next]_vars
  PROVE  \/ \E r \in Requests, op \in Routes \cup {"createWorkspace"}, u \in Users,
               k \in Keys \cup {NoOne}, w \in created \cup {NoOne}, arg \in Args :
              Authenticate(r, op, u, k, w, arg)
         \/ \E r \in Requests : Resolve(r)
         \/ \E r \in Requests : CountKeys(r) \/ Read(r) \/ Audit(r) \/ Fail(r) \/ Respond(r)
         \/ \E r \in Requests, w \in Workspaces : CreateWorkspace(r, w)
         \/ \E r \in Requests, k \in Keys : InsertKey(r, k)
         \/ \E r \in Requests, k \in Keys : RevokeKey(r, k)
         \/ \E r \in Requests, c \in Contents : Upload(r, c)
         \/ \E w \in Workspaces, u \in Users, to \in NewRoles : ChangeRole(w, u, to)
         \/ \E k \in Keys : Expire(k)
         \/ UNCHANGED vars
<1>1. ASSUME NEW r \in Requests, WorkspaceRequests(r) \/ KeyRequests(r) \/ DocumentRequests(r)
      PROVE  \E op \in Routes \cup {"createWorkspace"}, u \in Users,
                k \in Keys \cup {NoOne}, w \in created \cup {NoOne}, arg \in Args :
               Authenticate(r, op, u, k, w, arg)
  <2>1. \A c \in Credentials : c.user \in Users /\ c.key \in Keys \cup {NoOne}
    BY DEF Credentials
  <2>2. CASE WorkspaceRequests(r)
    BY <2>1, <2>2 DEF WorkspaceRequests, Args
  <2>3. CASE KeyRequests(r)
    BY <2>1, <2>3 DEF KeyRequests, Args, Routes
  <2>4. CASE DocumentRequests(r)
    BY <2>1, <2>4 DEF DocumentRequests, Args, Routes
  <2> QED
    BY <1>1, <2>2, <2>3, <2>4
<1> QED
  BY <1>1 DEF Next

(* A request that moves on is the only one that changes. *)
Only(r) == /\ req' \in [Requests -> Slot]
           /\ \A q \in Requests \ {r} : req'[q] = req[q]
           /\ \A q \in Requests : req'[q].pc # "idle" => req'[q].user \in Users

Same(r) == /\ req'[r].op = req[r].op /\ req'[r].ws = req[r].ws /\ req'[r].key = req[r].key
           /\ req'[r].user = req[r].user /\ req'[r].scopes = req[r].scopes /\ req'[r].arg = req[r].arg

LEMMA SlotMoves ==
  ASSUME RowsInv, NEW r \in Requests, NEW s \in Slot, s.pc # "idle" => s.user \in Users,
         req' = [req EXCEPT ![r] = s]
  PROVE  Only(r) /\ req'[r] = s
  BY DEF RowsInv, Only

LEMMA GotoFacts ==
  ASSUME RowsInv, NEW r \in Requests, NEW pc \in Steps \ {"idle"}, req[r].pc # "idle", Goto(r, pc)
  PROVE  Only(r) /\ req'[r].pc = pc /\ Same(r)
<1>1. req[r] \in Slot /\ req[r].user \in Users
  BY DEF RowsInv
<1> DEFINE s == [req[r] EXCEPT !.pc = pc]
<1>2. /\ s \in Slot /\ s.user \in Users /\ s.pc = pc
      /\ s.op = req[r].op /\ s.ws = req[r].ws /\ s.key = req[r].key
      /\ s.user = req[r].user /\ s.scopes = req[r].scopes /\ s.arg = req[r].arg
  BY <1>1 DEF Slot
<1>3. req' = [req EXCEPT ![r] = s]
  BY DEF Goto, RowsInv
<1> QED
  BY <1>2, <1>3, SlotMoves DEF Same

LEMMA AnswerFacts ==
  ASSUME RowsInv, NEW r \in Requests, Answer(r)
  PROVE  Only(r) /\ req'[r] = Idle /\ req'[r].pc = "idle"
<1>1. Idle \in Slot /\ Idle.pc = "idle"
  BY DEF Idle, Slot, Steps, Operations, Args
<1> QED
  BY <1>1, SlotMoves DEF Answer

(* What a key's row says at first stays. *)
KeysGrow ==
  \A k \in Keys : keys[k].state # "none" =>
    /\ keys'[k].state # "none" /\ keys'[k].ws = keys[k].ws
    /\ keys'[k].user = keys[k].user /\ keys'[k].scopes = keys[k].scopes

Remembers(r) ==
  req'[r].pc # "idle" =>
    /\ entitled[r].key \subseteq entitled'[r].key /\ entitled[r].role \subseteq entitled'[r].role
    /\ KeyWorth(r)' \subseteq entitled'[r].key /\ RoleWorth(r)' \subseteq entitled'[r].role

Worthy == \A r \in Requests : req[r].pc # "idle" =>
            KeyWorth(r) \subseteq Scopes /\ RoleWorth(r) \subseteq Scopes

LEMMA WorthTyped == RowsInv => Worthy
<1> SUFFICES ASSUME RowsInv, NEW r \in Requests, req[r].pc # "idle"
             PROVE  KeyWorth(r) \subseteq Scopes /\ RoleWorth(r) \subseteq Scopes
  BY DEF Worthy
<1> USE NamesAssumption
<1>1. req[r] \in Slot /\ req[r].user \in Users
  BY DEF RowsInv
<1>2. req[r].key \in Keys \cup {NoOne} /\ req[r].ws \in Workspaces \cup {NoOne}
  BY <1>1 DEF Slot
<1>3. req[r].key \in Keys => /\ keys[req[r].key].scopes \subseteq Scopes
                            /\ keys[req[r].key].ws \in Workspaces \cup {NoOne}
  BY DEF RowsInv, KeyRow
<1>4. KeyWorth(r) \subseteq Scopes
  BY <1>2, <1>3 DEF KeyWorth
<1>5. Where(r) \in Workspaces \cup {NoOne}
  BY <1>2, <1>3 DEF Where
<1>6. Where(r) \in Workspaces => role[Where(r)][req[r].user] \in Roles
  BY <1>1 DEF RowsInv
<1>7. \A x \in Roles : ScopesByRole[x] \subseteq Scopes
  BY DEF Roles, ScopesByRole, Scopes
<1>8. RoleWorth(r) \subseteq Scopes
  BY <1>5, <1>6, <1>7 DEF RoleWorth
<1> QED
  BY <1>4, <1>8

LEMMA ObserveFacts ==
  ASSUME TypeInv, RowsInv', Observe
  PROVE  TypeInv' /\ \A r \in Requests : Remembers(r)
<1>1. ASSUME NEW r \in Requests, req'[r].pc # "idle"
      PROVE  KeyWorth(r)' \subseteq Scopes /\ RoleWorth(r)' \subseteq Scopes
  <2>1. Worthy'
    BY WorthTyped, PTL
  <2> QED
    BY <1>1, <2>1 DEF Worthy
<1>2. \A r \in Requests :
        IF req'[r].pc = "idle" THEN entitled'[r] = Nothing
        ELSE /\ entitled'[r].key = entitled[r].key \cup KeyWorth(r)'
             /\ entitled'[r].role = entitled[r].role \cup RoleWorth(r)'
             /\ entitled'[r] = [key |-> entitled'[r].key, role |-> entitled'[r].role]
  BY DEF Observe
<1>3. \A r \in Requests : entitled[r].key \subseteq Scopes /\ entitled[r].role \subseteq Scopes
  BY DEF TypeInv, Worth
<1>4. \A r \in Requests :
        (IF req'[r].pc = "idle" THEN Nothing
         ELSE [key |-> entitled[r].key \cup KeyWorth(r)', role |-> entitled[r].role \cup RoleWorth(r)'])
        \in Worth
  BY <1>1, <1>3 DEF Worth, Nothing
<1>5. entitled' \in [Requests -> Worth]
  BY <1>4 DEF Observe
<1> QED
  BY <1>2, <1>5 DEF Remembers, TypeInv

(* A request that a step does not move keeps what it knows, and what it does. *)
LEMMA OthersKept ==
  ASSUME TypeInv, TypeInv', KeysGrow, NEW r \in Requests, Remembers(r), req'[r] = req[r],
         Known(r), Acting(r)
  PROVE  Known(r)' /\ Acting(r)'
<1>1. req[r] \in Slot
  BY DEF TypeInv, RowsInv
<1>2. req[r].key \in Keys \cup {NoOne}
  BY <1>1 DEF Slot
<1>3. req[r].pc # "idle" /\ req[r].key # NoOne =>
        Where(r)' = Where(r) /\ keys'[req[r].key].ws = keys[req[r].key].ws
  BY <1>2 DEF KeysGrow, Known, Where
<1>4. Known(r)'
  BY <1>2, <1>3 DEF Known, Remembers, KeysGrow
<1>5. req[r].pc # "idle" => Both(r) \subseteq Both(r)'
  BY DEF Both, Remembers
<1>6. Acting(r)'
  BY <1>5 DEF Acting, KeysGrow, Routes
<1> QED
  BY <1>4, <1>6

LEMMA StepFrame ==
  ASSUME AccessInv, NEW r \in Requests, RowsInv', KeysGrow, Observe,
         \A q \in Requests \ {r} : req'[q] = req[q],
         TypeInv' /\ Remembers(r) => Known(r)' /\ Acting(r)'
  PROVE  AccessInv'
<1>1. TypeInv' /\ \A q \in Requests : Remembers(q)
  BY ObserveFacts DEF AccessInv
<1>2. \A q \in Requests \ {r} : Known(q)' /\ Acting(q)'
  BY <1>1, OthersKept DEF AccessInv, Entitled
<1> QED
  BY <1>1, <1>2 DEF AccessInv, Entitled

(* The same for a step that leaves the rows alone. *)
LEMMA RequestStep ==
  ASSUME AccessInv, NEW r \in Requests, Only(r), UNCHANGED <<role, created, keys>>, Observe,
         TypeInv' /\ Remembers(r) => Known(r)' /\ Acting(r)'
  PROVE  AccessInv'
<1>1. RowsInv'
  BY DEF AccessInv, TypeInv, RowsInv, Only
<1>2. KeysGrow
  BY DEF KeysGrow
<1> QED
  BY <1>1, <1>2, StepFrame DEF Only

LEMMA AnswerStep ==
  ASSUME AccessInv, NEW r \in Requests, Answer(r), UNCHANGED <<role, created, keys>>, Observe
  PROVE  AccessInv'
<1>1. Only(r) /\ req'[r].pc = "idle"
  BY AnswerFacts DEF AccessInv, TypeInv
<1>2. Known(r)' /\ Acting(r)'
  BY <1>1 DEF Known, Acting, Routes
<1> QED
  BY <1>1, <1>2, RequestStep

LEMMA AuthenticateStep ==
  ASSUME AccessInv, NEW r \in Requests, NEW op \in Routes \cup {"createWorkspace"}, NEW u \in Users,
         NEW k \in Keys \cup {NoOne}, NEW w \in created \cup {NoOne}, NEW arg \in Args,
         Authenticate(r, op, u, k, w, arg)
  PROVE  AccessInv'
<1> DEFINE s == [pc |-> IF op = "createWorkspace" THEN op ELSE "resolve",
                 op |-> op, ws |-> w, key |-> k, user |-> u, scopes |-> {}, arg |-> arg]
<1>1. s \in Slot /\ s.user \in Users
  BY DEF Slot, Steps, Operations, Routes, AccessInv, TypeInv, RowsInv
<1>2. Only(r) /\ req'[r] = s
  <2>1. req' = [req EXCEPT ![r] = s]
    BY DEF Authenticate
  <2> QED
    BY <1>1, <2>1, SlotMoves DEF AccessInv, TypeInv
<1>3. UNCHANGED <<role, created, keys>> /\ Observe
  BY DEF Authenticate
<1>4. ASSUME TypeInv', Remembers(r) PROVE Known(r)' /\ Acting(r)'
  <2>1. k # NoOne => keys[k].state = "active"
    BY DEF Authenticate, SpeaksFor
  <2>2. Known(r)'
    <3>1. req'[r].key = k /\ req'[r].pc # "idle" /\ keys' = keys
      BY <1>2, <1>3
    <3>2. KeyWorth(r)' \subseteq entitled'[r].key
      BY <1>4, <3>1 DEF Remembers
    <3>3. CASE k = NoOne
      BY <3>1, <3>2, <3>3 DEF Known, KeyWorth
    <3>4. CASE k # NoOne
      <4>1. keys'[k].ws = Where(r)' => KeyWorth(r)' = keys'[k].scopes
        BY <2>1, <3>1, <3>4 DEF KeyWorth
      <4> QED
        BY <2>1, <3>1, <3>2, <3>4, <4>1 DEF Known
    <3> QED
      BY <3>3, <3>4
  <2>3. Acting(r)'
    BY <1>2 DEF Acting, Routes
  <2> QED
    BY <2>2, <2>3
<1> QED
  BY <1>2, <1>3, <1>4, RequestStep

LEMMA ResolveStep ==
  ASSUME AccessInv, NEW r \in Requests, Resolve(r)
  PROVE  AccessInv'
<1>1. UNCHANGED <<role, created, keys>> /\ Observe /\ req[r].pc = "resolve"
  BY DEF Resolve
<1>2. CASE ~\E w \in Chosen(r) : HasAccess(r, w)
  BY <1>1, <1>2, AnswerStep DEF Resolve
<1>3. CASE \E w \in Chosen(r) : HasAccess(r, w)
  <2> DEFINE w == CHOOSE x \in Chosen(r) : TRUE
             s == [req[r] EXCEPT !.pc = req[r].op, !.ws = w, !.scopes = Granted(r, w)]
  <2>0. /\ RowsInv /\ Known(r) /\ req[r] \in Slot /\ req[r].user \in Users /\ req[r].op \in Routes
        /\ req[r].key \in Keys \cup {NoOne} /\ req[r].ws \in Workspaces \cup {NoOne}
    BY <1>1 DEF AccessInv, TypeInv, RowsInv, Entitled, Acting, Slot
  <2>1. w \in Chosen(r)
    BY <1>3
  <2>2. /\ w \in Workspaces
        /\ req[r].ws # NoOne => w = req[r].ws
        /\ req[r].ws = NoOne /\ req[r].key # NoOne => w = keys[req[r].key].ws
    <3>1. req[r].key # NoOne => keys[req[r].key].ws \in Workspaces
      BY <1>1, <2>0 DEF Known, RowsInv
    <3> QED
      BY <2>0, <2>1, <3>1 DEF Chosen, WorkspacesOf, RowsInv
  <2> HIDE DEF w
  <2>3. role[w][req[r].user] \in Roles /\ ScopesByRole[role[w][req[r].user]] \subseteq Scopes
    <3>1. \A x \in Roles : ScopesByRole[x] \subseteq Scopes
      BY DEF Roles, ScopesByRole, Scopes
    <3>2. role[w][req[r].user] \in Roles
      BY <2>0, <2>2 DEF RowsInv
    <3> QED
      BY <3>1, <3>2
  <2>4. Granted(r, w) \subseteq Scopes
    BY <2>3 DEF Granted
  <2>5. /\ s \in Slot /\ s.pc = req[r].op /\ s.ws = w /\ s.scopes = Granted(r, w)
        /\ s.op = req[r].op /\ s.key = req[r].key /\ s.user = req[r].user
    BY <2>0, <2>2, <2>4 DEF Slot, Routes, Steps
  <2>6. req' = [req EXCEPT ![r] = s]
    BY <1>3, <2>0 DEF Resolve, RowsInv, w
  <2> HIDE DEF s
  <2>7. Only(r) /\ req'[r] = s
    BY <2>0, <2>5, <2>6, SlotMoves
  <2>8. ASSUME TypeInv', Remembers(r) PROVE Known(r)' /\ Acting(r)'
    <3>0. w # NoOne /\ req'[r].pc # "idle" /\ Where(r)' = w
      BY <2>0, <2>2, <2>5, <2>7, NamesAssumption DEF Where, Routes
    <3>1. req[r].key # NoOne => Where(r) = w \/ keys[req[r].key].ws # w
      BY <2>2 DEF Where
    <3>2. Known(r)'
      BY <1>1, <2>0, <2>5, <2>7, <2>8, <3>0, <3>1 DEF Known, Remembers
    <3>3. ScopesByRole[role[w][req[r].user]] \subseteq entitled'[r].role
      BY <1>1, <2>5, <2>7, <2>8, <3>0 DEF Remembers, RoleWorth
    <3>4. Granted(r, w) \subseteq Both(r)'
      BY <1>1, <2>3, <2>5, <2>7, <3>0, <3>2, <3>3 DEF Granted, Both, Known
    <3>5. Acting(r)'
      BY <2>0, <2>5, <2>7, <3>0, <3>4 DEF Acting, Routes
    <3> QED
      BY <3>2, <3>5
  <2> QED
    BY <1>1, <2>7, <2>8, RequestStep
<1> QED
  BY <1>2, <1>3


(* A request that goes on with the same access. *)
LEMMA KnownKept ==
  ASSUME AccessInv, NEW r \in Requests, req[r].pc # "idle", KeysGrow, Remembers(r),
         req'[r].key = req[r].key, req'[r].ws = req[r].ws, req'[r].pc # "idle"
  PROVE  Known(r)' /\ Both(r) \subseteq Both(r)'
<1>1. Known(r) /\ req[r].key \in Keys \cup {NoOne}
  BY DEF AccessInv, TypeInv, RowsInv, Slot, Entitled
<1>2. req[r].key # NoOne =>
        Where(r)' = Where(r) /\ keys'[req[r].key].ws = keys[req[r].key].ws
  BY <1>1 DEF KeysGrow, Known, Where
<1> QED
  BY <1>1, <1>2 DEF Known, KeysGrow, Remembers, Both

LEMMA CountKeysStep ==
  ASSUME AccessInv, NEW r \in Requests, CountKeys(r)
  PROVE  AccessInv'
<1>1. UNCHANGED <<role, created, keys>> /\ Observe /\ req[r].pc = "createKey" /\ KeysGrow
  BY DEF CountKeys, KeysGrow
<1>2. CASE Answer(r)
  BY <1>1, <1>2, AnswerStep
<1>3. CASE Goto(r, "insertKey") /\ "manage" \in req[r].scopes /\ req[r].arg \subseteq req[r].scopes
  <2>1. Only(r) /\ req'[r].pc = "insertKey" /\ Same(r)
    BY <1>1, <1>3, GotoFacts DEF AccessInv, TypeInv, Steps
  <2>2. ASSUME TypeInv', Remembers(r) PROVE Known(r)' /\ Acting(r)'
    <3>1. Known(r)' /\ Both(r) \subseteq Both(r)'
      BY <1>1, <2>1, <2>2, KnownKept DEF Same
    <3>2. req[r].op = "createKey" /\ req[r].scopes \subseteq Both(r) /\ req[r].ws # NoOne
      BY <1>1 DEF AccessInv, Entitled, Acting, Routes
    <3>3. req[r].arg \in SUBSET req[r].scopes
      BY <1>3
    <3> QED
      BY <1>3, <2>1, <3>1, <3>2, <3>3 DEF Acting, Same, Routes
  <2> QED
    BY <1>1, <2>1, <2>2, RequestStep
<1> QED
  BY <1>2, <1>3 DEF CountKeys

LEMMA FinishStep ==
  ASSUME AccessInv, NEW r \in Requests, Read(r) \/ Audit(r) \/ Fail(r) \/ Respond(r)
  PROVE  AccessInv'
<1>1. UNCHANGED <<role, created, keys>> /\ Observe /\ KeysGrow /\ req[r].pc # "idle"
  BY DEF Read, Audit, Fail, Respond, KeysGrow
<1>2. CASE Answer(r)
  BY <1>1, <1>2, AnswerStep
<1>3. CASE Goto(r, "done") /\ (req[r].pc = "audit" \/ (req[r].pc = "read" /\ "chat" \in req[r].scopes))
  <2>1. Only(r) /\ req'[r].pc = "done" /\ Same(r)
    BY <1>1, <1>3, GotoFacts DEF AccessInv, TypeInv, Steps
  <2>2. ASSUME TypeInv', Remembers(r) PROVE Known(r)' /\ Acting(r)'
    <3>1. Known(r)' /\ Both(r) \subseteq Both(r)'
      BY <1>1, <2>1, <2>2, KnownKept DEF Same
    <3>2. Acting(r)
      BY DEF AccessInv, Entitled
    <3>3. CASE req[r].pc = "audit"
      BY <1>1, <2>1, <3>1, <3>2, <3>3 DEF Acting, Same, Routes, KeysGrow
    <3>4. CASE req[r].pc = "read" /\ "chat" \in req[r].scopes
      <4>1. req[r].op = "read" /\ "chat" \in Both(r)
        BY <3>2, <3>4 DEF Acting, Routes
      <4> QED
        BY <2>1, <3>1, <4>1 DEF Acting, Same, Routes, Need
    <3> QED
      BY <1>3, <3>3, <3>4, <3>1
  <2> QED
    BY <1>1, <2>1, <2>2, RequestStep
<1> QED
  BY <1>2, <1>3 DEF Read, Audit, Fail, Respond

LEMMA CreateWorkspaceStep ==
  ASSUME AccessInv, NEW r \in Requests, NEW w \in Workspaces, CreateWorkspace(r, w)
  PROVE  AccessInv'
<1>1. keys' = keys /\ Observe /\ req[r].pc = "createWorkspace" /\ KeysGrow
  BY DEF CreateWorkspace, KeysGrow
<1>2. CASE Answer(r) /\ UNCHANGED <<role, created>>
  BY <1>1, <1>2, AnswerStep
<1>3. CASE /\ req[r].key = NoOne /\ Inserted(w, req[r].user)
           /\ req' = [req EXCEPT ![r].pc = "audit", ![r].ws = w]
  <2> DEFINE s == [req[r] EXCEPT !.pc = "audit", !.ws = w]
  <2>1. RowsInv /\ req[r] \in Slot /\ req[r].user \in Users /\ req[r].op = "createWorkspace" /\ Known(r)
    BY <1>1 DEF AccessInv, TypeInv, RowsInv, Entitled, Acting
  <2>2. /\ s \in Slot /\ s.user = req[r].user /\ s.pc = "audit" /\ s.op = "createWorkspace"
        /\ s.key = NoOne
    BY <1>3, <2>1 DEF Slot, Steps
  <2>3. req' = [req EXCEPT ![r] = s]
    BY <1>3, <2>1 DEF RowsInv
  <2> HIDE DEF s
  <2>4. Only(r) /\ req'[r] = s
    BY <2>1, <2>2, <2>3, SlotMoves
  <2>5. role' \in [Workspaces -> [Users -> Roles]] /\ created' \in SUBSET Workspaces
    <3>1. [role[w] EXCEPT ![req[r].user] = "owner"] \in [Users -> Roles]
      BY <2>1 DEF RowsInv, Roles
    <3>2. role' = [role EXCEPT ![w] = [role[w] EXCEPT ![req[r].user] = "owner"]]
      BY <1>3 DEF Inserted
    <3> QED
      BY <1>3, <2>1, <3>1, <3>2 DEF RowsInv, Inserted
  <2>6. RowsInv'
    BY <1>1, <2>1, <2>4, <2>5 DEF RowsInv, Only
  <2>7. ASSUME Remembers(r) PROVE Known(r)' /\ Acting(r)'
    <3>1. Known(r)'
      BY <1>3, <2>1, <2>2, <2>4, <2>7, <1>1 DEF Known, Remembers
    <3>2. Acting(r)'
      BY <2>2, <2>4 DEF Acting, Need, Routes
    <3> QED
      BY <3>1, <3>2
  <2> QED
    BY <1>1, <2>4, <2>6, <2>7, StepFrame DEF Only
<1> QED
  BY <1>2, <1>3 DEF CreateWorkspace

LEMMA InsertKeyStep ==
  ASSUME AccessInv, NEW r \in Requests, NEW k \in Keys, InsertKey(r, k)
  PROVE  AccessInv'
<1> DEFINE s == [req[r] EXCEPT !.pc = "audit", !.arg = k]
           row == [state |-> "active", ws |-> req[r].ws, user |-> req[r].user, scopes |-> req[r].arg]
<1>1. /\ UNCHANGED <<role, created>> /\ Observe /\ req[r].pc = "insertKey" /\ keys[k].state = "none"
      /\ keys' = [keys EXCEPT ![k] = row]
  BY DEF InsertKey
<1>2. /\ RowsInv /\ req[r] \in Slot /\ req[r].user \in Users /\ Known(r)
      /\ req[r].op = "createKey" /\ req[r].scopes \subseteq Both(r) /\ req[r].ws # NoOne
      /\ "manage" \in req[r].scopes /\ req[r].arg \in SUBSET req[r].scopes
  BY <1>1 DEF AccessInv, TypeInv, RowsInv, Entitled, Acting
<1>3. req[r].ws \in Workspaces /\ req[r].arg \subseteq Scopes /\ req[r].key \in Keys \cup {NoOne}
  BY <1>2 DEF Slot
<1>4. row \in KeyRow /\ row.state = "active" /\ row.ws = req[r].ws /\ row.scopes = req[r].arg
  BY <1>2, <1>3 DEF KeyRow
<1>5. /\ s \in Slot /\ s.user = req[r].user /\ s.pc = "audit" /\ s.op = "createKey" /\ s.arg = k
      /\ s.key = req[r].key /\ s.ws = req[r].ws
  BY <1>2 DEF Slot, Steps, Args
<1>6. req' = [req EXCEPT ![r] = s]
  BY <1>2 DEF RowsInv, InsertKey
<1> HIDE DEF s, row
<1>7. Only(r) /\ req'[r] = s
  BY <1>2, <1>5, <1>6, SlotMoves
<1>8. /\ keys' \in [Keys -> KeyRow] /\ keys'[k] = row
      /\ \A j \in Keys \ {k} : keys'[j] = keys[j]
  BY <1>1, <1>2, <1>4 DEF RowsInv
<1>9. RowsInv'
  BY <1>1, <1>2, <1>3, <1>4, <1>7, <1>8 DEF RowsInv, Only
<1>10. KeysGrow
  BY <1>1, <1>8 DEF KeysGrow
<1>11. ASSUME Remembers(r) PROVE Known(r)' /\ Acting(r)'
  <2>1. Known(r)' /\ Both(r) \subseteq Both(r)'
    BY <1>1, <1>5, <1>7, <1>10, <1>11, KnownKept
  <2>2. Acting(r)'
    BY <1>2, <1>4, <1>5, <1>7, <1>8, <2>1 DEF Acting, Need, Routes
  <2> QED
    BY <2>1, <2>2
<1> QED
  BY <1>1, <1>7, <1>9, <1>10, <1>11, StepFrame DEF Only

LEMMA RevokeKeyStep ==
  ASSUME AccessInv, NEW r \in Requests, NEW k \in Keys, RevokeKey(r, k)
  PROVE  AccessInv'
<1>1. UNCHANGED <<role, created>> /\ Observe /\ req[r].pc = "revokeKey"
  BY DEF RevokeKey
<1>2. CASE Answer(r) /\ UNCHANGED keys
  BY <1>1, <1>2, AnswerStep
<1>3. CASE "manage" \in req[r].scopes /\ Revoked(req[r].ws, k) /\ Goto(r, "audit")
  <2>1. Only(r) /\ req'[r].pc = "audit" /\ Same(r)
    BY <1>1, <1>3, GotoFacts DEF AccessInv, TypeInv, Steps
  <2>2. RowsInv /\ keys[k] \in KeyRow /\ keys[k].state # "none"
    BY <1>3 DEF AccessInv, TypeInv, RowsInv, Revoked, KeysOf
  <2>3. /\ keys' \in [Keys -> KeyRow] /\ \A j \in Keys \ {k} : keys'[j] = keys[j]
        /\ keys'[k].state = "revoked" /\ keys'[k].ws = keys[k].ws
        /\ keys'[k].user = keys[k].user /\ keys'[k].scopes = keys[k].scopes
    BY <1>3, <2>2 DEF RowsInv, Revoked, KeyRow
  <2>4. RowsInv' /\ KeysGrow
    BY <1>1, <2>1, <2>2, <2>3 DEF RowsInv, Only, KeysGrow
  <2>5. ASSUME Remembers(r) PROVE Known(r)' /\ Acting(r)'
    <3>1. Known(r)' /\ Both(r) \subseteq Both(r)'
      BY <1>1, <2>1, <2>4, <2>5, KnownKept DEF Same
    <3>2. req[r].op = "revokeKey" /\ "manage" \in Both(r)
      BY <1>1, <1>3 DEF AccessInv, Entitled, Acting, Routes
    <3> QED
      BY <2>1, <3>1, <3>2 DEF Acting, Same, Need, Routes
  <2> QED
    BY <1>1, <2>1, <2>4, <2>5, StepFrame DEF Only
<1> QED
  BY <1>2, <1>3 DEF RevokeKey

LEMMA UploadStep ==
  ASSUME AccessInv, NEW r \in Requests, NEW c \in Contents, Upload(r, c)
  PROVE  AccessInv'
<1>1. UNCHANGED <<role, created, keys>> /\ Observe /\ req[r].pc = "upload" /\ KeysGrow
  BY DEF Upload, KeysGrow
<1>2. CASE Answer(r)
  BY <1>1, <1>2, AnswerStep
<1>3. CASE /\ "ingest" \in req[r].scopes
           /\ \E op \in {"upload", "uploadAgain"} :
                req' = [req EXCEPT ![r].pc = "audit", ![r].op = op]
  <2>1. PICK op \in {"upload", "uploadAgain"} : req' = [req EXCEPT ![r].pc = "audit", ![r].op = op]
    BY <1>3
  <2> DEFINE s == [req[r] EXCEPT !.pc = "audit", !.op = op]
  <2>2. RowsInv /\ req[r] \in Slot /\ req[r].user \in Users /\ "ingest" \in Both(r)
    BY <1>1, <1>3 DEF AccessInv, TypeInv, RowsInv, Entitled, Acting, Routes
  <2>3. /\ s \in Slot /\ s.user = req[r].user /\ s.pc = "audit" /\ s.op = op
        /\ s.key = req[r].key /\ s.ws = req[r].ws
    BY <2>2 DEF Slot, Steps, Operations, Routes
  <2>4. req' = [req EXCEPT ![r] = s]
    BY <2>1, <2>2 DEF RowsInv
  <2> HIDE DEF s
  <2>5. Only(r) /\ req'[r] = s
    BY <2>2, <2>3, <2>4, SlotMoves
  <2>6. ASSUME Remembers(r) PROVE Known(r)' /\ Acting(r)'
    <3>1. Known(r)' /\ Both(r) \subseteq Both(r)'
      BY <1>1, <2>3, <2>5, <2>6, KnownKept
    <3> QED
      BY <2>2, <2>3, <2>5, <3>1 DEF Acting, Need, Routes
  <2> QED
    BY <1>1, <2>5, <2>6, RequestStep
<1> QED
  BY <1>2, <1>3 DEF Upload

(* Operators change roles, and time expires keys. *)
LEMMA OutsideStep ==
  ASSUME AccessInv,
         \/ \E w \in Workspaces, u \in Users, to \in NewRoles : ChangeRole(w, u, to)
         \/ \E k \in Keys : Expire(k)
  PROVE  AccessInv'
<1>1. req' = req /\ created' = created /\ Observe
  BY DEF ChangeRole, Expire
<1>2. RowsInv
  BY DEF AccessInv, TypeInv
<1>3. RowsInv' /\ KeysGrow
  <2>1. ASSUME NEW w \in Workspaces, NEW u \in Users, NEW to \in NewRoles, ChangeRole(w, u, to)
        PROVE  RowsInv' /\ KeysGrow
    <3>1. to \in Roles
      BY NamesAssumption DEF ScopesByRole, Roles
    <3>2. [role[w] EXCEPT ![u] = to] \in [Users -> Roles]
      BY <1>2, <3>1 DEF RowsInv
    <3>3. role' = [role EXCEPT ![w] = [role[w] EXCEPT ![u] = to]] /\ keys' = keys
      BY <2>1 DEF ChangeRole
    <3>4. role' \in [Workspaces -> [Users -> Roles]]
      BY <1>2, <3>2, <3>3 DEF RowsInv
    <3> QED
      BY <1>1, <1>2, <3>3, <3>4 DEF RowsInv, KeysGrow
  <2>2. ASSUME NEW k \in Keys, Expire(k) PROVE RowsInv' /\ KeysGrow
    <3>1. role' = role /\ keys[k].state = "active" /\ keys' = [keys EXCEPT ![k].state = "expired"]
      BY <2>2 DEF Expire
    <3>2. /\ keys' \in [Keys -> KeyRow] /\ \A j \in Keys \ {k} : keys'[j] = keys[j]
          /\ keys'[k].state = "expired" /\ keys'[k].ws = keys[k].ws
          /\ keys'[k].user = keys[k].user /\ keys'[k].scopes = keys[k].scopes
      BY <1>2, <3>1 DEF RowsInv, KeyRow
    <3> QED
      BY <1>1, <1>2, <3>1, <3>2 DEF RowsInv, KeysGrow
  <2> QED
    BY <2>1, <2>2
<1>4. TypeInv' /\ \A r \in Requests : Remembers(r)
  BY <1>1, <1>3, ObserveFacts DEF AccessInv
<1> QED
  BY <1>1, <1>3, <1>4, OthersKept DEF AccessInv, Entitled

LEMMA AccessInit == Init => AccessInv
<1> SUFFICES ASSUME Init PROVE TypeInv /\ Entitled
  BY DEF AccessInv
<1>1. NoRow \in KeyRow /\ NoRow.state = "none" /\ Idle \in Slot /\ Idle.pc = "idle"
  BY DEF NoRow, KeyRow, Idle, Slot, Steps, Operations, Args
<1>2. TypeInv
  BY <1>1 DEF Init, TypeInv, RowsInv, Roles, Worth, Nothing
<1>3. Entitled
  BY <1>1 DEF Init, Entitled, Known, Acting, Routes
<1> QED
  BY <1>2, <1>3

LEMMA AccessStep == AccessInv /\ [Next]_vars => AccessInv'
<1> SUFFICES ASSUME AccessInv, [Next]_vars PROVE AccessInv'
  OBVIOUS
<1>1. CASE UNCHANGED vars
  BY <1>1 DEF vars, AccessInv, TypeInv, RowsInv, Entitled, Known, Acting, Both, Where
<1> QED
  BY <1>1, NextCases, AuthenticateStep, ResolveStep, CountKeysStep, FinishStep, CreateWorkspaceStep,
     InsertKeyStep, RevokeKeyStep, UploadStep, OutsideStep

(* The inductive invariant of a request (AccessResolver.access): what it read of its key and
   its membership is part of what they have been worth since it began. *)
THEOREM AccessInvariant == Spec => []AccessInv
  BY AccessInit, AccessStep, PTL DEF Spec

(* EffectsEntitled: whatever a request did, its key and its owner's role were good for it
   at some moment since it began, however roles and keys changed meanwhile. *)
THEOREM EffectsAreEntitled == Spec => []EffectsEntitled
<1>1. AccessInv => EffectsEntitled
  BY DEF AccessInv, Entitled, Acting, Both, EffectsEntitled
<1> QED
  BY <1>1, AccessInvariant, PTL

----------------------------------------------------------------------------
(* The audit trail and the number of keys. *)
Trail == audit \cup unlogged \cup Pending
Told(action, ws, of) == {e \in Trail : e.action = action /\ e.ws = ws /\ e.of = of}
Reported(S, happened) == IF happened THEN \E e : S = {e} ELSE S = {}

Accounted ==
  /\ \A w \in Workspaces : Reported(Told("createWorkspace", w, w), w \in created)
  /\ \A w \in Workspaces, k \in Keys :
       /\ Reported(Told("createKey", w, k), keys[k].ws = w)
       /\ Reported(Told("revokeKey", w, k), keys[k].ws = w /\ keys[k].state = "revoked")
  /\ \A w \in Workspaces, c \in Contents : Reported(Told("upload", w, c), <<w, c>> \in docs)

Inserting(w) == {r \in Requests : req[r].pc = "insertKey" /\ req[r].ws = w}

NearLimit ==
  \A w \in Workspaces :
    Cardinality(KeysOf(w)) + Cardinality(Inserting(w)) <= MaxKeys + Cardinality(Requests) - 1

LEMMA ReportedCounts ==
  ASSUME NEW S, NEW happened \in BOOLEAN, Reported(S, happened)
  PROVE  Cardinality(S) = IF happened THEN 1 ELSE 0
  BY FS_EmptySet, FS_Singleton DEF Reported

(* The events that are about to be written, as one request moves. *)
LEMMA PendingMoves ==
  ASSUME NEW r \in Requests, \A q \in Requests \ {r} : req'[q] = req[q]
  PROVE  /\ req[r].pc # "audit" /\ req'[r].pc # "audit" => Pending' = Pending
         /\ req[r].pc # "audit" /\ req'[r].pc = "audit" => Pending' = Pending \cup {Event(r)'}
         /\ req[r].pc = "audit" /\ req'[r].pc # "audit" => Pending' \cup {Event(r)} = Pending \cup Pending'
                                                          /\ Pending' \subseteq Pending
<1>1. \A q \in Requests \ {r} : Event(q)' = Event(q)
  BY DEF Event
<1>2. \A q \in Requests \ {r} : req'[q].pc = "audit" <=> req[q].pc = "audit"
  OBVIOUS
<1>3. /\ Pending = {Event(q) : q \in {p \in Requests : req[p].pc = "audit"}}
      /\ Pending' = {Event(q)' : q \in {p \in Requests : req'[p].pc = "audit"}}
  BY DEF Pending
<1>4. CASE req[r].pc # "audit" /\ req'[r].pc # "audit"
  BY <1>1, <1>2, <1>3, <1>4
<1>5. CASE req[r].pc # "audit" /\ req'[r].pc = "audit"
  BY <1>1, <1>2, <1>3, <1>5
<1>6. CASE req[r].pc = "audit" /\ req'[r].pc # "audit"
  BY <1>1, <1>2, <1>3, <1>6
<1> QED
  BY <1>4, <1>5, <1>6

(* What a step means for the trail and for the limit: it changes nothing they are about, *)
KeysCalm ==
  \A k \in Keys :
    /\ keys'[k].ws = keys[k].ws
    /\ keys'[k].state = "revoked" <=> keys[k].state = "revoked"
    /\ keys'[k].state \in {"active", "expired"} => keys[k].state \in {"active", "expired"}

InsertsCalm ==
  \A q \in Requests :
    req'[q].pc = "insertKey" => req[q].pc = "insertKey" /\ req'[q].ws = req[q].ws

(* or one of four changes, whose event is then pending. *)
Adds(event) == Trail' = Trail \cup {event}

WorkspaceAdded(w, u) ==
  /\ w \notin created /\ created' = created \cup {w} /\ UNCHANGED <<keys, docs>>
  /\ Adds([action |-> "createWorkspace", ws |-> w, of |-> w, actor |-> u])

KeyAdded(w, k, u) ==
  /\ keys[k].ws = NoOne /\ keys[k].state = "none" /\ keys'[k].ws = w /\ keys'[k].state = "active"
  /\ \A j \in Keys \ {k} : keys'[j] = keys[j]
  /\ UNCHANGED <<created, docs>>
  /\ Adds([action |-> "createKey", ws |-> w, of |-> k, actor |-> u])

KeyRevoked(w, k, u) ==
  /\ keys[k].ws = w /\ keys[k].state \in {"active", "expired"}
  /\ keys'[k].ws = w /\ keys'[k].state = "revoked"
  /\ \A j \in Keys \ {k} : keys'[j] = keys[j]
  /\ UNCHANGED <<created, docs>>
  /\ Adds([action |-> "revokeKey", ws |-> w, of |-> k, actor |-> u])

DocumentAdded(w, c, u) ==
  /\ <<w, c>> \notin docs /\ docs' = docs \cup {<<w, c>>} /\ UNCHANGED <<created, keys>>
  /\ Adds([action |-> "upload", ws |-> w, of |-> c, actor |-> u])

DocumentAgain(w, c, u) ==
  /\ UNCHANGED <<created, keys, docs>>
  /\ Adds([action |-> "uploadAgain", ws |-> w, of |-> c, actor |-> u])

NothingNew == UNCHANGED <<created, docs>> /\ KeysCalm /\ Trail' = Trail

LEMMA NewWorkspaceAccounted ==
  ASSUME Accounted, NEW v \in Workspaces, NEW u, WorkspaceAdded(v, u)
  PROVE  Accounted'
<1> DEFINE e == [action |-> "createWorkspace", ws |-> v, of |-> v, actor |-> u]
<1>1. \A a, w, o : Told(a, w, o)' =
        IF a = "createWorkspace" /\ w = v /\ o = v THEN Told(a, w, o) \cup {e} ELSE Told(a, w, o)
  BY DEF Told, WorkspaceAdded, Adds
<1>2. Told("createWorkspace", v, v) = {}
  BY DEF Accounted, Reported, WorkspaceAdded
<1> HIDE DEF e
<1>3. Told("createWorkspace", v, v)' = {e}
  BY <1>1, <1>2
<1> QED
  BY <1>1, <1>3 DEF Accounted, Reported, WorkspaceAdded

LEMMA NewKeyAccounted ==
  ASSUME Accounted, NEW v \in Workspaces, NEW j \in Keys, NEW u, KeyAdded(v, j, u)
  PROVE  Accounted'
<1> DEFINE e == [action |-> "createKey", ws |-> v, of |-> j, actor |-> u]
<1>1. \A a, w, o : Told(a, w, o)' =
        IF a = "createKey" /\ w = v /\ o = j THEN Told(a, w, o) \cup {e} ELSE Told(a, w, o)
  BY DEF Told, KeyAdded, Adds
<1>2. Told("createKey", v, j) = {}
  BY NamesAssumption DEF Accounted, Reported, KeyAdded
<1> HIDE DEF e
<1>3. Told("createKey", v, j)' = {e}
  BY <1>1, <1>2
<1>4. ASSUME NEW w \in Workspaces, NEW k \in Keys
      PROVE  /\ Reported(Told("createKey", w, k), keys[k].ws = w)'
             /\ Reported(Told("revokeKey", w, k), keys[k].ws = w /\ keys[k].state = "revoked")'
  <2>1. CASE k # j
    <3>1. /\ keys'[k] = keys[k] /\ Told("createKey", w, k)' = Told("createKey", w, k)
          /\ Told("revokeKey", w, k)' = Told("revokeKey", w, k)
      BY <1>1, <2>1 DEF KeyAdded
    <3>2. /\ Reported(Told("createKey", w, k), keys[k].ws = w)
          /\ Reported(Told("revokeKey", w, k), keys[k].ws = w /\ keys[k].state = "revoked")
      BY DEF Accounted
    <3> QED
      BY <3>1, <3>2 DEF Reported
  <2>2. CASE k = j
    <3>1. Told("revokeKey", w, j)' = {}
      BY <1>1 DEF Accounted, Reported, KeyAdded
    <3>2. w # v => Told("createKey", w, j)' = {}
      BY <1>1, NamesAssumption DEF Accounted, Reported, KeyAdded
    <3> QED
      BY <1>3, <2>2, <3>1, <3>2 DEF Reported, KeyAdded
  <2> QED
    BY <2>1, <2>2
<1>5. \A w \in Workspaces : Reported(Told("createWorkspace", w, w), w \in created)'
  BY <1>1 DEF Accounted, Reported, KeyAdded
<1>6. \A w \in Workspaces, c \in Contents : Reported(Told("upload", w, c), <<w, c>> \in docs)'
  BY <1>1 DEF Accounted, Reported, KeyAdded
<1> QED
  BY <1>4, <1>5, <1>6 DEF Accounted

LEMMA RevokedKeyAccounted ==
  ASSUME Accounted, NEW v \in Workspaces, NEW j \in Keys, NEW u, KeyRevoked(v, j, u)
  PROVE  Accounted'
<1> DEFINE e == [action |-> "revokeKey", ws |-> v, of |-> j, actor |-> u]
<1>1. \A a, w, o : Told(a, w, o)' =
        IF a = "revokeKey" /\ w = v /\ o = j THEN Told(a, w, o) \cup {e} ELSE Told(a, w, o)
  BY DEF Told, KeyRevoked, Adds
<1>2. Told("revokeKey", v, j) = {}
  BY DEF Accounted, Reported, KeyRevoked
<1> HIDE DEF e
<1>3. Told("revokeKey", v, j)' = {e}
  BY <1>1, <1>2
<1>4. ASSUME NEW w \in Workspaces, NEW k \in Keys
      PROVE  /\ Reported(Told("createKey", w, k), keys[k].ws = w)'
             /\ Reported(Told("revokeKey", w, k), keys[k].ws = w /\ keys[k].state = "revoked")'
  <2>1. CASE k # j
    <3>1. /\ keys'[k] = keys[k] /\ Told("createKey", w, k)' = Told("createKey", w, k)
          /\ Told("revokeKey", w, k)' = Told("revokeKey", w, k)
      BY <1>1, <2>1 DEF KeyRevoked
    <3>2. /\ Reported(Told("createKey", w, k), keys[k].ws = w)
          /\ Reported(Told("revokeKey", w, k), keys[k].ws = w /\ keys[k].state = "revoked")
      BY DEF Accounted
    <3> QED
      BY <3>1, <3>2 DEF Reported
  <2>2. CASE k = j
    <3>1. Reported(Told("createKey", w, j), keys[j].ws = w)'
      BY <1>1 DEF Accounted, Reported, KeyRevoked
    <3>2. w # v => Told("revokeKey", w, j)' = {}
      BY <1>1 DEF Accounted, Reported, KeyRevoked
    <3> QED
      BY <1>3, <2>2, <3>1, <3>2 DEF Reported, KeyRevoked
  <2> QED
    BY <2>1, <2>2
<1>5. \A w \in Workspaces : Reported(Told("createWorkspace", w, w), w \in created)'
  BY <1>1 DEF Accounted, Reported, KeyRevoked
<1>6. \A w \in Workspaces, c \in Contents : Reported(Told("upload", w, c), <<w, c>> \in docs)'
  BY <1>1 DEF Accounted, Reported, KeyRevoked
<1> QED
  BY <1>4, <1>5, <1>6 DEF Accounted

LEMMA NewDocumentAccounted ==
  ASSUME Accounted, NEW v \in Workspaces, NEW d \in Contents, NEW u, DocumentAdded(v, d, u)
  PROVE  Accounted'
<1> DEFINE e == [action |-> "upload", ws |-> v, of |-> d, actor |-> u]
<1>1. \A a, w, o : Told(a, w, o)' =
        IF a = "upload" /\ w = v /\ o = d THEN Told(a, w, o) \cup {e} ELSE Told(a, w, o)
  BY DEF Told, DocumentAdded, Adds
<1>2. Told("upload", v, d) = {}
  BY DEF Accounted, Reported, DocumentAdded
<1> HIDE DEF e
<1>3. Told("upload", v, d)' = {e}
  BY <1>1, <1>2
<1>4. \A w \in Workspaces, c \in Contents : <<w, c>> = <<v, d>> <=> w = v /\ c = d
  OBVIOUS
<1>5. \A w \in Workspaces, c \in Contents : Reported(Told("upload", w, c), <<w, c>> \in docs)'
  BY <1>1, <1>3, <1>4 DEF Accounted, Reported, DocumentAdded
<1>6. ASSUME NEW w \in Workspaces, NEW k \in Keys
      PROVE  /\ Reported(Told("createWorkspace", w, w), w \in created)'
             /\ Reported(Told("createKey", w, k), keys[k].ws = w)'
             /\ Reported(Told("revokeKey", w, k), keys[k].ws = w /\ keys[k].state = "revoked")'
  <2>1. /\ Reported(Told("createWorkspace", w, w), w \in created)
        /\ Reported(Told("createKey", w, k), keys[k].ws = w)
        /\ Reported(Told("revokeKey", w, k), keys[k].ws = w /\ keys[k].state = "revoked")
    BY DEF Accounted
  <2>2. /\ Told("createWorkspace", w, w)' = Told("createWorkspace", w, w)
        /\ Told("createKey", w, k)' = Told("createKey", w, k)
        /\ Told("revokeKey", w, k)' = Told("revokeKey", w, k)
    BY <1>1
  <2>3. UNCHANGED <<created, keys>>
    BY DEF DocumentAdded
  <2> QED
    BY <2>1, <2>2, <2>3 DEF Reported
<1>7. \A w \in Workspaces : Reported(Told("createWorkspace", w, w), w \in created)'
  BY <1>1 DEF Accounted, Reported, DocumentAdded
<1> QED
  BY <1>5, <1>6, <1>7 DEF Accounted

LEMMA NothingNewAccounted ==
  ASSUME Accounted,
         NothingNew \/ \E w, c, u : DocumentAgain(w, c, u)
  PROVE  Accounted'
<1>1. \A a \in {"createWorkspace", "createKey", "revokeKey", "upload"} :
        \A w, o : Told(a, w, o)' = Told(a, w, o)
  BY DEF Told, NothingNew, DocumentAgain, Adds
<1>2. UNCHANGED <<created, docs>> /\ KeysCalm
  BY DEF NothingNew, DocumentAgain, KeysCalm
<1>3. ASSUME NEW w \in Workspaces, NEW k \in Keys
      PROVE  /\ Reported(Told("createKey", w, k), keys[k].ws = w)'
             /\ Reported(Told("revokeKey", w, k), keys[k].ws = w /\ keys[k].state = "revoked")'
  <2>1. /\ Reported(Told("createKey", w, k), keys[k].ws = w)
        /\ Reported(Told("revokeKey", w, k), keys[k].ws = w /\ keys[k].state = "revoked")
    BY DEF Accounted
  <2>2. /\ Told("createKey", w, k)' = Told("createKey", w, k)
        /\ Told("revokeKey", w, k)' = Told("revokeKey", w, k)
    BY <1>1
  <2>3. keys'[k].ws = keys[k].ws /\ (keys'[k].state = "revoked" <=> keys[k].state = "revoked")
    BY <1>2 DEF KeysCalm
  <2> QED
    BY <2>1, <2>2, <2>3 DEF Reported
<1>4. ASSUME NEW w \in Workspaces PROVE Reported(Told("createWorkspace", w, w), w \in created)'
  <2>1. Told("createWorkspace", w, w)' = Told("createWorkspace", w, w)
    BY <1>1
  <2> QED
    BY <1>2, <2>1 DEF Accounted, Reported
<1>5. ASSUME NEW w \in Workspaces, NEW c \in Contents
      PROVE  Reported(Told("upload", w, c), <<w, c>> \in docs)'
  <2>1. Told("upload", w, c)' = Told("upload", w, c)
    BY <1>1
  <2> QED
    BY <1>2, <2>1 DEF Accounted, Reported
<1> QED
  BY <1>3, <1>4, <1>5 DEF Accounted

LEMMA Sizes ==
  ASSUME NEW S, IsFiniteSet(S), NEW T \in SUBSET S
  PROVE  /\ IsFiniteSet(T) /\ Cardinality(T) \in Nat /\ Cardinality(S) \in Nat
         /\ Cardinality(T) <= Cardinality(S)
  BY FS_Subset, FS_CardinalityType

LEMMA LimitSizes ==
  ASSUME NEW w
  PROVE  /\ IsFiniteSet(KeysOf(w)) /\ Cardinality(KeysOf(w)) \in Nat
         /\ IsFiniteSet(Inserting(w)) /\ Cardinality(Inserting(w)) \in Nat
         /\ Cardinality(Inserting(w)) <= Cardinality(Requests) /\ Cardinality(Requests) \in Nat
<1>1. KeysOf(w) \in SUBSET Keys /\ Inserting(w) \in SUBSET Requests
  BY DEF KeysOf, Inserting
<1>2. IsFiniteSet(Keys) /\ IsFiniteSet(Requests)
  BY NamesAssumption
<1>3. IsFiniteSet(KeysOf(w)) /\ Cardinality(KeysOf(w)) \in Nat
  BY <1>1, <1>2, Sizes
<1> QED
  BY <1>1, <1>2, <1>3, Sizes

(* A step that adds no key and starts no insert. *)
LEMMA LimitShrinks ==
  ASSUME NearLimit, \A w \in Workspaces : KeysOf(w)' \subseteq KeysOf(w), InsertsCalm
  PROVE  NearLimit'
<1> SUFFICES ASSUME NEW w \in Workspaces
             PROVE  Cardinality(KeysOf(w)') + Cardinality(Inserting(w)')
                      <= MaxKeys + Cardinality(Requests) - 1
  BY DEF NearLimit
<1>1. Inserting(w)' \subseteq Inserting(w)
  BY DEF Inserting, InsertsCalm
<1>2. /\ Cardinality(KeysOf(w)') \in Nat /\ Cardinality(KeysOf(w)) \in Nat
      /\ Cardinality(KeysOf(w)') <= Cardinality(KeysOf(w))
  BY LimitSizes, Sizes
<1>3. /\ Cardinality(Inserting(w)') \in Nat /\ Cardinality(Inserting(w)) \in Nat
      /\ Cardinality(Inserting(w)') <= Cardinality(Inserting(w))
  BY <1>1, LimitSizes, Sizes
<1>4. Cardinality(Requests) \in Nat /\ MaxKeys \in Nat
  BY LimitSizes, LimitAssumption
<1> QED
  BY <1>2, <1>3, <1>4 DEF NearLimit

(* A request counts the keys of its workspace and finds room. *)
LEMMA LimitCounted ==
  ASSUME NearLimit, keys' = keys, NEW r \in Requests, req'[r].ws = req[r].ws,
         Cardinality(KeysOf(req[r].ws)) < MaxKeys,
         \A q \in Requests \ {r} : req'[q] = req[q]
  PROVE  NearLimit'
<1> SUFFICES ASSUME NEW w \in Workspaces
             PROVE  Cardinality(KeysOf(w)') + Cardinality(Inserting(w)')
                      <= MaxKeys + Cardinality(Requests) - 1
  BY DEF NearLimit
<1>1. KeysOf(w)' = KeysOf(w)
  BY DEF KeysOf
<1>2. CASE w = req[r].ws
  <2>1. Inserting(w)' \in SUBSET Requests
    BY DEF Inserting
  <2>2. /\ Cardinality(Inserting(w)') \in Nat /\ Cardinality(Requests) \in Nat
        /\ Cardinality(Inserting(w)') <= Cardinality(Requests)
    BY <2>1, NamesAssumption, Sizes
  <2>3. Cardinality(KeysOf(w)) \in Nat /\ MaxKeys \in Nat
    BY LimitSizes, LimitAssumption
  <2> QED
    BY <1>1, <1>2, <2>2, <2>3
<1>3. CASE w # req[r].ws
  <2>1. Inserting(w)' = Inserting(w)
    BY <1>3 DEF Inserting
  <2> QED
    BY <1>1, <2>1 DEF NearLimit
<1> QED
  BY <1>2, <1>3

(* A request that had counted inserts its key. *)
LEMMA LimitInserted ==
  ASSUME NearLimit, NEW v \in Workspaces, NEW k \in Keys, NEW u, KeyAdded(v, k, u),
         NEW r \in Requests, req[r].pc = "insertKey", req[r].ws = v, req'[r].pc # "insertKey",
         \A q \in Requests \ {r} : req'[q] = req[q]
  PROVE  NearLimit'
<1> SUFFICES ASSUME NEW w \in Workspaces
             PROVE  Cardinality(KeysOf(w)') + Cardinality(Inserting(w)')
                      <= MaxKeys + Cardinality(Requests) - 1
  BY DEF NearLimit
<1>1. CASE w = v
  <2>1. KeysOf(w)' = KeysOf(w) \cup {k} /\ k \notin KeysOf(w)
    BY <1>1 DEF KeysOf, KeyAdded
  <2>2. Inserting(w)' = Inserting(w) \ {r} /\ r \in Inserting(w)
    BY <1>1 DEF Inserting
  <2>3. Cardinality(KeysOf(w)') = Cardinality(KeysOf(w)) + 1
    BY <2>1, LimitSizes, FS_AddElement
  <2>4. Cardinality(Inserting(w)') = Cardinality(Inserting(w)) - 1
    BY <2>2, LimitSizes, FS_RemoveElement
  <2>5. Cardinality(KeysOf(w)) \in Nat /\ Cardinality(Inserting(w)) \in Nat
    BY LimitSizes
  <2>6. Cardinality(KeysOf(w)) + Cardinality(Inserting(w)) <= MaxKeys + Cardinality(Requests) - 1
    BY DEF NearLimit
  <2> QED
    BY <2>3, <2>4, <2>5, <2>6
<1>2. CASE w # v
  <2>1. KeysOf(w)' = KeysOf(w) /\ Inserting(w)' = Inserting(w)
    BY <1>2, NamesAssumption DEF KeysOf, KeyAdded, Inserting
  <2> QED
    BY <2>1 DEF NearLimit
<1> QED
  BY <1>1, <1>2

----------------------------------------------------------------------------
HistoryInv == Accounted /\ NearLimit

(* A step that says nothing new, for both. *)
LEMMA QuietStep ==
  ASSUME HistoryInv, NothingNew, InsertsCalm
  PROVE  HistoryInv'
<1>1. \A w \in Workspaces : KeysOf(w)' \subseteq KeysOf(w)
  BY DEF NothingNew, KeysCalm, KeysOf
<1> QED
  BY <1>1, LimitShrinks, NothingNewAccounted DEF HistoryInv

(* The trail when a request moves without a new event. *)
LEMMA TrailKept ==
  ASSUME NEW r \in Requests, \A q \in Requests \ {r} : req'[q] = req[q],
         req'[r].pc # "audit",
         IF req[r].pc = "audit"
           THEN \/ audit' = audit \cup {Event(r)} /\ unlogged' = unlogged
                \/ unlogged' = unlogged \cup {Event(r)} /\ audit' = audit
           ELSE UNCHANGED <<audit, unlogged>>
  PROVE  Trail' = Trail
<1>1. CASE req[r].pc # "audit"
  BY <1>1, PendingMoves DEF Trail
<1>2. CASE req[r].pc = "audit"
  <2>1. Pending' \cup {Event(r)} = Pending \cup Pending' /\ Pending' \subseteq Pending
    BY <1>2, PendingMoves
  <2>2. Pending' \cup {Event(r)} = Pending
    BY <2>1
  <2> QED
    BY <1>2, <2>2 DEF Trail
<1> QED
  BY <1>1, <1>2

LEMMA TrailGrows ==
  ASSUME NEW r \in Requests, \A q \in Requests \ {r} : req'[q] = req[q],
         req[r].pc # "audit", req'[r].pc = "audit", UNCHANGED <<audit, unlogged>>
  PROVE  Trail' = Trail \cup {Event(r)'}
  BY PendingMoves DEF Trail

(* Most steps leave keys, workspaces and documents alone. *)
LEMMA MoveStep ==
  ASSUME AccessInv, HistoryInv, NEW r \in Requests, Only(r), UNCHANGED <<created, keys, docs>>,
         req'[r].pc \notin {"audit", "insertKey"},
         IF req[r].pc = "audit"
           THEN \/ audit' = audit \cup {Event(r)} /\ unlogged' = unlogged
                \/ unlogged' = unlogged \cup {Event(r)} /\ audit' = audit
           ELSE UNCHANGED <<audit, unlogged>>
  PROVE  HistoryInv'
<1>1. Trail' = Trail
  BY TrailKept DEF Only
<1>2. NothingNew /\ InsertsCalm
  BY <1>1 DEF NothingNew, InsertsCalm, KeysCalm, Only
<1> QED
  BY <1>2, QuietStep

LEMMA FreeStep ==
  ASSUME AccessInv, HistoryInv, NEW r \in Requests, Answer(r), UNCHANGED <<created, keys, docs>>,
         IF req[r].pc = "audit"
           THEN \/ audit' = audit \cup {Event(r)} /\ unlogged' = unlogged
                \/ unlogged' = unlogged \cup {Event(r)} /\ audit' = audit
           ELSE UNCHANGED <<audit, unlogged>>
  PROVE  HistoryInv'
<1>1. Only(r) /\ req'[r].pc = "idle"
  BY AnswerFacts DEF AccessInv, TypeInv
<1> QED
  BY <1>1, MoveStep

LEMMA HistoryStep ==
  ASSUME AccessInv, HistoryInv, [Next]_vars
  PROVE  HistoryInv'
<1>0. RowsInv /\ \A r \in Requests : Acting(r)
  BY DEF AccessInv, TypeInv, Entitled
<1>1. ASSUME NEW r \in Requests, NEW op \in Routes \cup {"createWorkspace"}, NEW u \in Users,
             NEW k \in Keys \cup {NoOne}, NEW w \in created \cup {NoOne}, NEW arg \in Args,
             Authenticate(r, op, u, k, w, arg)
      PROVE  HistoryInv'
  <2> DEFINE s == [pc |-> IF op = "createWorkspace" THEN op ELSE "resolve",
                   op |-> op, ws |-> w, key |-> k, user |-> u, scopes |-> {}, arg |-> arg]
  <2>1. s \in Slot /\ s.user \in Users /\ s.pc \notin {"audit", "insertKey"}
    BY <1>0 DEF Slot, Steps, Operations, Routes, RowsInv
  <2>2. /\ req' = [req EXCEPT ![r] = s] /\ req[r].pc = "idle"
        /\ UNCHANGED <<created, keys, docs, audit, unlogged>>
    BY <1>1 DEF Authenticate
  <2> HIDE DEF s
  <2>3. Only(r) /\ req'[r] = s
    BY <1>0, <2>1, <2>2, SlotMoves
  <2> QED
    BY <2>1, <2>2, <2>3, MoveStep
<1>2. ASSUME NEW r \in Requests, Resolve(r) PROVE HistoryInv'
  <2>1. req[r].pc = "resolve" /\ UNCHANGED <<created, keys, docs, audit, unlogged>>
    BY <1>2 DEF Resolve
  <2>2. CASE Answer(r)
    BY <2>1, <2>2, FreeStep
  <2>3. CASE ~Answer(r)
    <3>1. /\ \A q \in Requests \ {r} : req'[q] = req[q]
          /\ req'[r].pc = req[r].op /\ req[r].op \in Routes
      BY <1>0, <1>2, <2>1, <2>3 DEF Resolve, RowsInv, Slot, Acting
    <3>2. Only(r)
      <4>1. AccessInv'
        BY <1>2, ResolveStep
      <4> QED
        BY <3>1, <4>1 DEF AccessInv, TypeInv, RowsInv, Only
    <3> QED
      BY <2>1, <3>1, <3>2, MoveStep DEF Routes
  <2> QED
    BY <2>2, <2>3
<1>3. ASSUME NEW r \in Requests, CountKeys(r) PROVE HistoryInv'
  <2>1. req[r].pc = "createKey" /\ UNCHANGED <<created, keys, docs, audit, unlogged>>
    BY <1>3 DEF CountKeys
  <2>2. CASE Answer(r)
    BY <2>1, <2>2, FreeStep
  <2>3. CASE Goto(r, "insertKey") /\ Cardinality(KeysOf(req[r].ws)) < MaxKeys
    <3>1. Only(r) /\ req'[r].pc = "insertKey" /\ Same(r)
      BY <1>0, <2>1, <2>3, GotoFacts DEF Steps
    <3>2. Trail' = Trail
      BY <2>1, <3>1, TrailKept DEF Only
    <3>3. Accounted'
      BY <2>1, <3>2, NothingNewAccounted DEF NothingNew, KeysCalm, HistoryInv
    <3>4. NearLimit'
      BY <2>1, <2>3, <3>1, LimitCounted DEF Only, Same, HistoryInv
    <3> QED
      BY <3>3, <3>4 DEF HistoryInv
  <2> QED
    BY <1>3, <2>2, <2>3 DEF CountKeys
<1>4. ASSUME NEW r \in Requests, Read(r) \/ Audit(r) \/ Fail(r) \/ Respond(r) PROVE HistoryInv'
  <2>1. /\ UNCHANGED <<created, keys, docs>> /\ req[r].pc # "idle"
        /\ IF req[r].pc = "audit"
             THEN \/ audit' = audit \cup {Event(r)} /\ unlogged' = unlogged
                  \/ unlogged' = unlogged \cup {Event(r)} /\ audit' = audit
             ELSE UNCHANGED <<audit, unlogged>>
    BY <1>4 DEF Read, Audit, Fail, Respond
  <2>2. CASE Answer(r)
    BY <2>1, <2>2, FreeStep
  <2>3. CASE Goto(r, "done")
    <3>1. Only(r) /\ req'[r].pc = "done"
      BY <1>0, <2>1, <2>3, GotoFacts DEF Steps
    <3> QED
      BY <2>1, <3>1, MoveStep
  <2> QED
    BY <1>4, <2>2, <2>3 DEF Read, Audit, Fail, Respond
<1>5. ASSUME NEW r \in Requests, NEW w \in Workspaces, CreateWorkspace(r, w) PROVE HistoryInv'
  <2>1. /\ req[r].pc = "createWorkspace" /\ req[r].op = "createWorkspace" /\ req[r].arg = w
        /\ UNCHANGED <<keys, docs, audit, unlogged>>
    BY <1>0, <1>5 DEF CreateWorkspace, Acting
  <2>2. CASE Answer(r) /\ created' = created
    BY <2>1, <2>2, FreeStep
  <2>3. CASE /\ w \notin created /\ created' = created \cup {w}
             /\ req' = [req EXCEPT ![r].pc = "audit", ![r].ws = w]
    <3>1. /\ \A q \in Requests \ {r} : req'[q] = req[q]
          /\ req'[r].pc = "audit" /\ req'[r].ws = w /\ req'[r].op = "createWorkspace"
          /\ req'[r].arg = w /\ req'[r].user = req[r].user
      BY <1>0, <2>1, <2>3 DEF RowsInv, Slot
    <3>2. Trail' = Trail \cup {Event(r)'}
      BY <2>1, <3>1, TrailGrows
    <3>3. WorkspaceAdded(w, req[r].user)
      BY <2>1, <2>3, <3>1, <3>2 DEF WorkspaceAdded, Adds, Event
    <3>4. InsertsCalm /\ \A v \in Workspaces : KeysOf(v)' \subseteq KeysOf(v)
      BY <2>1, <3>1 DEF InsertsCalm, KeysOf
    <3> QED
      BY <3>3, <3>4, NewWorkspaceAccounted, LimitShrinks DEF HistoryInv
  <2> QED
    BY <1>5, <2>2, <2>3 DEF CreateWorkspace, Inserted
<1>6. ASSUME NEW r \in Requests, NEW k \in Keys, InsertKey(r, k) PROVE HistoryInv'
  <2>1. /\ req[r].pc = "insertKey" /\ req[r].op = "createKey" /\ req[r].ws \in Workspaces
        /\ UNCHANGED <<created, docs, audit, unlogged>> /\ keys[k] = NoRow /\ keys[k].state = "none"
    BY <1>0, <1>6 DEF InsertKey, Acting, RowsInv, Slot
  <2>2. /\ \A q \in Requests \ {r} : req'[q] = req[q]
        /\ req'[r].pc = "audit" /\ req'[r].ws = req[r].ws /\ req'[r].op = "createKey"
        /\ req'[r].arg = k /\ req'[r].user = req[r].user
    BY <1>0, <1>6, <2>1 DEF InsertKey, RowsInv, Slot
  <2>3. Trail' = Trail \cup {Event(r)'}
    BY <2>1, <2>2, TrailGrows
  <2>4. /\ keys'[k].ws = req[r].ws /\ keys'[k].state = "active" /\ keys[k].ws = NoOne
        /\ \A j \in Keys \ {k} : keys'[j] = keys[j]
    BY <1>0, <1>6, <2>1 DEF InsertKey, RowsInv, NoRow
  <2>5. KeyAdded(req[r].ws, k, req[r].user)
    BY <2>1, <2>2, <2>3, <2>4 DEF KeyAdded, Adds, Event
  <2> QED
    BY <2>1, <2>2, <2>5, NewKeyAccounted, LimitInserted DEF HistoryInv
<1>7. ASSUME NEW r \in Requests, NEW k \in Keys, RevokeKey(r, k) PROVE HistoryInv'
  <2>1. /\ req[r].pc = "revokeKey" /\ req[r].op = "revokeKey" /\ req[r].arg = k
        /\ UNCHANGED <<created, docs, audit, unlogged>> /\ req[r].ws \in Workspaces
    BY <1>0, <1>7 DEF RevokeKey, Acting, Routes, RowsInv, Slot
  <2>2. CASE Answer(r) /\ keys' = keys
    BY <2>1, <2>2, FreeStep
  <2>3. CASE k \in KeysOf(req[r].ws) /\ Revoked(req[r].ws, k) /\ Goto(r, "audit")
    <3>1. Only(r) /\ req'[r].pc = "audit" /\ Same(r)
      BY <1>0, <2>1, <2>3, GotoFacts DEF Steps
    <3>2. Trail' = Trail \cup {Event(r)'}
      BY <2>1, <3>1, TrailGrows DEF Only
    <3>3. /\ keys[k].ws = req[r].ws /\ keys[k].state \in {"active", "expired"}
          /\ keys'[k].ws = keys[k].ws /\ keys'[k].state = "revoked"
          /\ \A j \in Keys \ {k} : keys'[j] = keys[j]
      BY <1>0, <2>3 DEF Revoked, KeysOf, RowsInv, KeyRow
    <3>4. KeyRevoked(req[r].ws, k, req[r].user)
      BY <2>1, <3>1, <3>2, <3>3 DEF KeyRevoked, Adds, Event, Same
    <3>5. InsertsCalm /\ \A v \in Workspaces : KeysOf(v)' \subseteq KeysOf(v)
      <4>1. InsertsCalm
        BY <3>1 DEF InsertsCalm, Only
      <4>2. \A v \in Workspaces : KeysOf(v)' \subseteq KeysOf(v)
        BY <3>3 DEF KeysOf
      <4> QED
        BY <4>1, <4>2
    <3> QED
      BY <2>1, <3>4, <3>5, RevokedKeyAccounted, LimitShrinks DEF HistoryInv
  <2> QED
    BY <1>7, <2>2, <2>3 DEF RevokeKey
<1>8. ASSUME NEW r \in Requests, NEW c \in Contents, Upload(r, c) PROVE HistoryInv'
  <2>1. /\ req[r].pc = "upload" /\ req[r].op = "upload" /\ req[r].arg = c
        /\ UNCHANGED <<created, keys, audit, unlogged>> /\ req[r].ws \in Workspaces
    BY <1>0, <1>8 DEF Upload, Acting, Routes, RowsInv, Slot
  <2>2. CASE Answer(r) /\ docs' = docs
    BY <2>1, <2>2, FreeStep
  <2>3. CASE /\ docs' = docs \cup {<<req[r].ws, c>>}
             /\ req' = [req EXCEPT ![r].pc = "audit",
                  ![r].op = IF <<req[r].ws, c>> \in docs THEN "uploadAgain" ELSE "upload"]
    <3>1. /\ \A q \in Requests \ {r} : req'[q] = req[q]
          /\ req'[r].pc = "audit" /\ req'[r].ws = req[r].ws
          /\ req'[r].op = (IF <<req[r].ws, c>> \in docs THEN "uploadAgain" ELSE "upload")
          /\ req'[r].arg = c /\ req'[r].user = req[r].user
      BY <1>0, <2>1, <2>3 DEF RowsInv, Slot
    <3>2. Trail' = Trail \cup {Event(r)'}
      BY <2>1, <3>1, TrailGrows
    <3>3. InsertsCalm /\ \A v \in Workspaces : KeysOf(v)' \subseteq KeysOf(v)
      BY <2>1, <3>1 DEF InsertsCalm, KeysOf
    <3>4. CASE <<req[r].ws, c>> \in docs
      <4>1. DocumentAgain(req[r].ws, c, req[r].user)
        BY <2>1, <2>3, <3>1, <3>2, <3>4 DEF DocumentAgain, Adds, Event
      <4> QED
        BY <3>3, <4>1, NothingNewAccounted, LimitShrinks DEF HistoryInv
    <3>5. CASE <<req[r].ws, c>> \notin docs
      <4>1. DocumentAdded(req[r].ws, c, req[r].user)
        BY <2>1, <2>3, <3>1, <3>2, <3>5 DEF DocumentAdded, Adds, Event
      <4> QED
        BY <2>1, <3>3, <4>1, NewDocumentAccounted, LimitShrinks DEF HistoryInv
    <3> QED
      BY <3>4, <3>5
  <2> QED
    BY <1>8, <2>2, <2>3 DEF Upload
<1>9. ASSUME \/ \E w \in Workspaces, u \in Users, to \in NewRoles : ChangeRole(w, u, to)
             \/ \E k \in Keys : Expire(k)
      PROVE  HistoryInv'
  <2>1. UNCHANGED <<created, docs, audit, unlogged, req>>
    BY <1>9 DEF ChangeRole, Expire
  <2>2. Trail' = Trail /\ InsertsCalm
    BY <2>1 DEF Trail, Pending, Event, InsertsCalm
  <2>3. KeysCalm
    <3>1. CASE keys' = keys
      BY <3>1 DEF KeysCalm
    <3>2. ASSUME NEW k \in Keys, Expire(k) PROVE KeysCalm
      BY <1>0, <3>2 DEF Expire, KeysCalm, RowsInv, KeyRow
    <3> QED
      BY <1>9, <3>1, <3>2 DEF ChangeRole
  <2> QED
    BY <2>1, <2>2, <2>3, QuietStep DEF NothingNew
<1>10. CASE UNCHANGED vars
  <2>1. NothingNew /\ InsertsCalm
    BY <1>10 DEF vars, NothingNew, InsertsCalm, KeysCalm, Trail, Pending, Event
  <2> QED
    BY <2>1, QuietStep
<1> QED
  BY NextCases, <1>1, <1>2, <1>3, <1>4, <1>5, <1>6, <1>7, <1>8, <1>9, <1>10

LEMMA HistoryInit == Init => HistoryInv
<1> SUFFICES ASSUME Init PROVE Accounted /\ NearLimit
  BY DEF HistoryInv
<1>1. Trail = {}
  BY DEF Init, Trail, Pending, Idle
<1>2. Accounted
  BY <1>1, NamesAssumption DEF Init, Accounted, Told, Reported, NoRow
<1>3. ASSUME NEW w \in Workspaces PROVE KeysOf(w) = {} /\ Inserting(w) = {}
  BY DEF Init, KeysOf, NoRow, Inserting, Idle
<1>4. NearLimit
  BY <1>3, FS_EmptySet, LimitSizes, LimitAssumption DEF NearLimit
<1> QED
  BY <1>2, <1>4

(* The inductive invariant of rows and trail (ApiKeyService, DocumentService): each row has
   its one event somewhere, and whoever is about to insert a key counted few enough. *)
THEOREM HistoryInvariant == Spec => []HistoryInv
<1>1. AccessInv /\ HistoryInv /\ [Next]_vars => HistoryInv'
  BY HistoryStep
<1> QED
  BY <1>1, HistoryInit, AccessInvariant, PTL DEF Spec

(* KeysNearLimit: counting and inserting in two transactions costs at most as many keys
   as other requests can have counted meanwhile. *)
THEOREM KeysStayNearLimit == Spec => []KeysNearLimit
<1>1. HistoryInv => KeysNearLimit
  <2> SUFFICES ASSUME NearLimit, NEW w \in Workspaces
               PROVE  Cardinality(KeysOf(w)) <= MaxKeys + Cardinality(Requests) - 1
    BY DEF HistoryInv, KeysNearLimit
  <2> QED
    BY LimitSizes, LimitAssumption DEF NearLimit
<1> QED
  BY <1>1, HistoryInvariant, PTL

(* ChangesAccountedFor: every change has exactly one event, written, about to be written
   or lost, and there is no event without its change. *)
THEOREM ChangesAreAccountedFor == Spec => []ChangesAccountedFor
<1>1. HistoryInv => ChangesAccountedFor
  <2> SUFFICES ASSUME Accounted PROVE ChangesAccountedFor
    BY DEF HistoryInv
  <2>1. \A w \in Workspaces :
          Cardinality(Told("createWorkspace", w, w)) = IF w \in created THEN 1 ELSE 0
    <3>1. ASSUME NEW w \in Workspaces PROVE Reported(Told("createWorkspace", w, w), w \in created)
      BY DEF Accounted
    <3>2. \A w \in Workspaces : (w \in created) \in BOOLEAN
      OBVIOUS
    <3> QED
      BY <3>1, <3>2, ReportedCounts
  <2>2. \A w \in Workspaces, k \in Keys :
          /\ Cardinality(Told("createKey", w, k)) = IF keys[k].ws = w THEN 1 ELSE 0
          /\ Cardinality(Told("revokeKey", w, k)) =
               IF keys[k].ws = w /\ keys[k].state = "revoked" THEN 1 ELSE 0
    BY ReportedCounts DEF Accounted
  <2>3. \A w \in Workspaces, c \in Contents :
          Cardinality(Told("upload", w, c)) = IF <<w, c>> \in docs THEN 1 ELSE 0
    <3>1. ASSUME NEW w \in Workspaces, NEW c \in Contents
          PROVE  Reported(Told("upload", w, c), <<w, c>> \in docs)
      BY DEF Accounted
    <3>2. \A w \in Workspaces, c \in Contents : (<<w, c>> \in docs) \in BOOLEAN
      OBVIOUS
    <3> QED
      BY <3>1, <3>2, ReportedCounts
  <2> QED
    BY <2>1, <2>2, <2>3 DEF ChangesAccountedFor, Told, Trail
<1> QED
  BY <1>1, HistoryInvariant, PTL
=============================================================================
