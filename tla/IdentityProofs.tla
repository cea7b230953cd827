---------------------------- MODULE IdentityProofs ----------------------------
(***************************************************************************)
(* Proofs about Identity for any accounts, keys, requests and limits.       *)
(***************************************************************************)
EXTENDS Identity, FiniteSetTheorems, WellFoundedInduction, TLAPS

Account == [role : Roles, changed : Nat]
KeyRow == [owner : Users, revoked : Nat \cup {None}]
AnyRole == Roles \cup {"viewer"}
Token == [role : AnyRole, exp : Nat]
Entry == [key : Keys, role : AnyRole, until : Nat]
Steps == {"free", "register", "ensure", "promote", "role", "setRole", "createKey",
          "resolve", "mint", "minted"}
Doing == [pc : Steps, who : Users \cup {None}, what : Roles \cup Keys \cup {None},
          seen : Users \cup Token \cup {None}, at : Nat, fresh : BOOLEAN]

TypeInv ==
  /\ now \in Nat
  /\ accounts \in [Users -> Account \cup {None}]
  /\ keys \in [Keys -> KeyRow \cup {None}]
  /\ exchanged \in Seq(Entry)
  /\ req \in [Requests -> Doing]

(* The caller's own demotion by this request would leave nobody. *)
LastAdmin(r) ==
  Role(req[r].who) = "admin" /\ req[r].what # "admin" /\ Cardinality(Admins) <= 1

(* What a request that is under way may rely on. A key it saw unrevoked, and a role
   it read, held at some time since it began. *)
Sound(r) ==
  LET s == req[r]
      k == keys[s.what]
  IN /\ s.pc = "register" => s.who \in Users
     /\ s.pc \in {"ensure", "role", "setRole", "createKey"} => s.who \in Users /\ Exists(s.who)
     /\ s.pc = "promote" => s.seen \in Users
     /\ s.pc \in {"role", "setRole"} => s.what \in Roles
     /\ s.pc = "setRole" /\ s.fresh => ~LastAdmin(r)
     /\ s.pc \in {"resolve", "mint", "minted"} => s.what \in Keys /\ k # None /\ s.at <= now
     /\ s.pc \in {"mint", "minted"} => s.who = k.owner /\ (k.revoked # None => s.at <= k.revoked)
     /\ s.pc = "minted" => /\ s.seen \in Token
                           /\ s.seen.role # Role(s.who) => s.at <= accounts[s.who].changed

(* What a service has cached outlives a change by the caching time at most. *)
Cached1(e) ==
  LET k == keys[e.key]
  IN /\ k # None /\ e.until <= now + CacheFor
     /\ k.revoked # None => e.until <= k.revoked + CacheFor
     /\ e.role # Role(k.owner) => e.until <= accounts[k.owner].changed + CacheFor

Owned == \A k \in Keys : keys[k] # None => Exists(keys[k].owner)
AllSound == \A r \in Requests : Sound(r)
AllCached == \A i \in 1 .. Len(exchanged) : Cached1(exchanged[i])

(* Time goes on; an account stays and remembers when its role changed; a key keeps
   its owner and is revoked once. *)
Onward ==
  /\ now' >= now
  /\ \A u \in Users : Exists(u) =>
       accounts'[u] # None /\ (accounts'[u] = accounts[u] \/ accounts'[u].changed = now)
  /\ \A k \in Keys : keys[k] # None =>
       /\ keys'[k] # None /\ keys'[k].owner = keys[k].owner
       /\ keys'[k].revoked = keys[k].revoked \/ (keys[k].revoked = None /\ keys'[k].revoked = now)

----------------------------------------------------------------------------
LEMMA Least ==
  ASSUME NEW S \in SUBSET Nat, S # {}
  PROVE  Min(S) \in S /\ \A y \in S : Min(S) <= y
<1>1. \E x \in S : \A y \in S : ~(<<y, x>> \in OpToRel(<, Nat))
  BY NatLessThanWellFounded, WFMin, Zenon
<1>2. PICK x \in S : \A y \in S : ~(<<y, x>> \in OpToRel(<, Nat))
  BY <1>1
<1>3. \A y \in S : y < x => <<y, x>> \in OpToRel(<, Nat)
  BY Zenon DEF OpToRel
<1>4. \A y \in S : ~(y < x)
  BY <1>2, <1>3
<1>5. \A y \in S : x <= y
  BY <1>4
<1> QED
  BY <1>5 DEF Min

LEMMA LesserOf ==
  ASSUME NEW a \in Nat, NEW b \in Nat
  PROVE  Min({a, b}) \in Nat /\ Min({a, b}) <= a /\ Min({a, b}) <= b
BY Least

(* The places of a sequence that are taken, numbered in their order: each number of
   them stands for exactly one. *)
LEMMA Numbered ==
  ASSUME NEW n \in Nat, NEW I \in SUBSET (1 .. n)
  PROVE  /\ Cardinality(I) \in Nat /\ Cardinality(I) <= n
         /\ \A k \in 1 .. Cardinality(I) : \E i \in I : Cardinality({h \in I : h <= i}) = k
<1>1. IsFiniteSet(1 .. n) /\ Cardinality(1 .. n) = n
  BY FS_Interval
<1>2. IsFiniteSet(I) /\ Cardinality(I) \in Nat /\ Cardinality(I) <= n
  BY <1>1, FS_Subset, FS_CardinalityType
<1> DEFINE Upto(i) == {h \in I : h <= i}
           rank == [i \in I |-> Cardinality(Upto(i))]
           numbers == 1 .. Cardinality(I)
<1>3. ASSUME NEW i \in I
      PROVE  /\ IsFiniteSet(Upto(i)) /\ Cardinality(Upto(i)) \in Nat
             /\ Cardinality(Upto(i)) <= Cardinality(I) /\ Cardinality(Upto(i)) # 0
  <2>1. Upto(i) \in SUBSET I /\ i \in Upto(i)
    OBVIOUS
  <2>2. IsFiniteSet(Upto(i)) /\ Cardinality(Upto(i)) <= Cardinality(I)
    BY <1>2, <2>1, FS_Subset
  <2> QED
    BY <2>1, <2>2, FS_EmptySet, FS_CardinalityType
<1>4. rank \in [I -> numbers]
  <2>1. \A i \in I : Cardinality(Upto(i)) \in numbers
    BY <1>2, <1>3
  <2> HIDE DEF Upto, numbers
  <2> QED
    BY <2>1
<1>5. ASSUME NEW i \in I, NEW j \in I, i < j PROVE rank[i] # rank[j]
  <2>0. i \in Int /\ j \in Int /\ \A h \in I : h \in Int
    OBVIOUS
  <2>1. Upto(i) \in SUBSET Upto(j) /\ j \in Upto(j) /\ j \notin Upto(i)
    <3>1. \A h \in I : h <= i => h <= j
      BY <1>5, <2>0
    <3>2. j <= j /\ ~(j <= i)
      BY <1>5, <2>0
    <3> QED
      BY <3>1, <3>2
  <2>2. Upto(i) # Upto(j)
    BY <2>1
  <2>3. Cardinality(Upto(i)) # Cardinality(Upto(j))
    BY <1>3, <2>1, <2>2, FS_Subset
  <2> QED
    BY <2>3
<1>6. rank \in Injection(I, numbers)
  <2>1. \A i, j \in I : rank[i] = rank[j] => i = j
    BY <1>5
  <2> HIDE DEF rank, numbers
  <2> QED
    BY <1>4, <2>1 DEF Injection, IsInjective
<1>7. IsFiniteSet(numbers) /\ Cardinality(numbers) = Cardinality(I)
  BY <1>2, FS_Interval
<1>8. rank \in Surjection(I, numbers)
  <2> HIDE DEF rank, numbers
  <2> QED
    BY <1>6, <1>7, FS_Injection
<1>9. \A k \in numbers : \E i \in I : rank[i] = k
  <2> HIDE DEF rank, numbers
  <2> QED
    BY <1>8 DEF Surjection
<1> QED
  BY <1>2, <1>9

LEMMA EntriesAtFacts ==
  ASSUME exchanged \in Seq(Entry), NEW I \in SUBSET (1 .. Len(exchanged))
  PROVE  /\ EntriesAt(I) \in Seq(Entry) /\ Len(EntriesAt(I)) <= Len(exchanged)
         /\ \A n \in 1 .. Len(EntriesAt(I)) :
              \E i \in 1 .. Len(exchanged) : EntriesAt(I)[n] = exchanged[i]
<1> DEFINE c == Cardinality(I)
           At(n) == CHOOSE i \in I : Cardinality({h \in I : h <= i}) = n
<1>1. c \in Nat /\ c <= Len(exchanged) /\ \A n \in 1 .. c : At(n) \in I
  <2>1. Len(exchanged) \in Nat
    OBVIOUS
  <2>2. /\ c \in Nat /\ c <= Len(exchanged)
        /\ \A n \in 1 .. c : \E i \in I : Cardinality({h \in I : h <= i}) = n
    BY <2>1, Numbered
  <2> QED
    BY <2>2
<1>2. EntriesAt(I) = [n \in 1 .. c |-> exchanged[At(n)]]
  BY DEF EntriesAt
<1> HIDE DEF c, At
<1>3. ASSUME NEW n \in 1 .. c
      PROVE  At(n) \in 1 .. Len(exchanged) /\ exchanged[At(n)] \in Entry
  <2>1. At(n) \in 1 .. Len(exchanged)
    BY <1>1
  <2> QED
    BY <2>1
<1>4. EntriesAt(I) \in Seq(Entry) /\ Len(EntriesAt(I)) = c
  BY <1>1, <1>2, <1>3
<1> QED
  BY <1>1, <1>2, <1>3, <1>4

LEMMA RememberedFacts ==
  ASSUME exchanged \in Seq(Entry), NEW entry \in Entry
  PROVE  /\ Remembered(entry) \in Seq(Entry)
         /\ Len(exchanged) <= MaxCached => Len(Remembered(entry)) <= MaxCached
         /\ \A n \in 1 .. Len(Remembered(entry)) :
              \/ Remembered(entry)[n] = entry
              \/ \E i \in 1 .. Len(exchanged) : Remembered(entry)[n] = exchanged[i]
<1> DEFINE live == EntriesAt({i \in DOMAIN exchanged : exchanged[i].until > now})
           room == IF Len(exchanged) < MaxCached THEN exchanged
                   ELSE IF Len(live) < MaxCached THEN live ELSE Tail(live)
           anew == [i \in DOMAIN room |-> IF room[i].key = entry.key THEN entry ELSE room[i]]
<1>1. /\ live \in Seq(Entry) /\ Len(live) <= Len(exchanged)
      /\ \A n \in 1 .. Len(live) : \E i \in 1 .. Len(exchanged) : live[n] = exchanged[i]
  <2> DEFINE I == {i \in DOMAIN exchanged : exchanged[i].until > now}
  <2>1. I \in SUBSET (1 .. Len(exchanged))
    OBVIOUS
  <2> HIDE DEF I
  <2>2. /\ EntriesAt(I) \in Seq(Entry) /\ Len(EntriesAt(I)) <= Len(exchanged)
        /\ \A n \in 1 .. Len(EntriesAt(I)) :
             \E i \in 1 .. Len(exchanged) : EntriesAt(I)[n] = exchanged[i]
    BY <2>1, EntriesAtFacts
  <2> QED
    BY <2>2 DEF I
<1> HIDE DEF live
<1>2. MaxCached \in Nat /\ MaxCached > 0 /\ Len(exchanged) \in Nat /\ Len(live) \in Nat
  BY <1>1, InstanceAssumption
<1>3. /\ room \in Seq(Entry) /\ Len(room) \in Nat
      /\ Len(exchanged) <= MaxCached => Len(room) < MaxCached
      /\ \A n \in 1 .. Len(room) : \E i \in 1 .. Len(exchanged) : room[n] = exchanged[i]
  <2>1. CASE Len(exchanged) < MaxCached
    BY <1>2, <2>1
  <2>2. CASE ~(Len(exchanged) < MaxCached) /\ Len(live) < MaxCached
    BY <1>1, <1>2, <2>2
  <2>3. CASE ~(Len(exchanged) < MaxCached) /\ ~(Len(live) < MaxCached)
    <3>1. live # <<>>
      BY <1>1, <1>2, <2>3
    <3>2. /\ Tail(live) \in Seq(Entry) /\ Len(Tail(live)) = Len(live) - 1
          /\ \A n \in 1 .. Len(Tail(live)) : n + 1 \in 1 .. Len(live) /\ Tail(live)[n] = live[n + 1]
      BY <1>1, <3>1
    <3>3. room = Tail(live)
      BY <2>3
    <3> QED
      BY <1>1, <1>2, <2>3, <3>2, <3>3
  <2> QED
    BY <2>1, <2>2, <2>3
<1>4. Remembered(entry) = IF \E i \in DOMAIN room : room[i].key = entry.key THEN anew ELSE Append(room, entry)
  BY DEF Remembered, live
<1> HIDE DEF room
<1>5. CASE \E i \in DOMAIN room : room[i].key = entry.key
  <2>1. anew \in Seq(Entry) /\ Len(anew) = Len(room)
    BY <1>3
  <2>2. \A n \in 1 .. Len(room) : anew[n] = entry \/ anew[n] = room[n]
    BY <1>3
  <2>3. Remembered(entry) = anew
    BY <1>4, <1>5
  <2> HIDE DEF anew
  <2> QED
    BY <1>2, <1>3, <2>1, <2>2, <2>3
<1>6. CASE ~\E i \in DOMAIN room : room[i].key = entry.key
  <2>1. Remembered(entry) = Append(room, entry)
    BY <1>4, <1>6
  <2>2. /\ Append(room, entry) \in Seq(Entry) /\ Len(Append(room, entry)) = Len(room) + 1
        /\ \A n \in 1 .. Len(room) + 1 :
             Append(room, entry)[n] = entry \/ (n \in 1 .. Len(room) /\ Append(room, entry)[n] = room[n])
    BY <1>3
  <2> QED
    BY <1>2, <1>3, <2>1, <2>2
<1> QED
  BY <1>5, <1>6

----------------------------------------------------------------------------
(* A write of one role: that account remembers the time of it. *)
LEMMA RoleFacts ==
  ASSUME TypeInv, NEW rows \in [Users -> Account \cup {None}], NEW u, NEW role \in Roles
  PROVE  /\ WithRole(rows, u, role) \in [Users -> Account \cup {None}]
         /\ \A v \in Users : v # u => WithRole(rows, u, role)[v] = rows[v]
         /\ u \in Users => /\ WithRole(rows, u, role)[u] # None
                           /\ WithRole(rows, u, role)[u].role = role
                           /\ WithRole(rows, u, role)[u].changed = now
<1> DEFINE row == [role |-> role, changed |-> now]
<1>1. row \in Account /\ row # None /\ row.role = role /\ row.changed = now
  BY InstanceAssumption DEF TypeInv, Account
<1>2. WithRole(rows, u, role) = [rows EXCEPT ![u] = row]
  BY DEF WithRole
<1> HIDE DEF row
<1> QED
  BY <1>1, <1>2

LEMMA EarliestExists ==
  ASSUME NEW rows, NEW u \in Users, rows[u] # None
  PROVE  Earliest(rows) \in Users /\ rows[Earliest(rows)] # None
<1> DEFINE S == {v \in Users : rows[v] # None}
<1>1. S \in SUBSET Nat /\ S # {}
  BY InstanceAssumption
<1>2. Min(S) \in S
  BY <1>1, Least
<1> QED
  BY <1>2 DEF Earliest

(* ensureAdmin leaves the rows to an admin, and changes only an account that is there. *)
LEMMA EnsuredFacts ==
  ASSUME TypeInv, NEW rows \in [Users -> Account \cup {None}], NEW u \in Users, rows[u] # None
  PROVE  /\ EnsuredAdmin(rows) \in [Users -> Account \cup {None}]
         /\ \A v \in Users : \/ EnsuredAdmin(rows)[v] = rows[v]
                             \/ EnsuredAdmin(rows)[v] # None /\ EnsuredAdmin(rows)[v].changed = now
         /\ \E v \in Users : EnsuredAdmin(rows)[v] # None /\ EnsuredAdmin(rows)[v].role = "admin"
<1>1. CASE \E v \in Users : rows[v] # None /\ rows[v].role = "admin"
  BY <1>1 DEF EnsuredAdmin
<1>2. CASE ~\E v \in Users : rows[v] # None /\ rows[v].role = "admin"
  <2> DEFINE first == Earliest(rows)
  <2>1. first \in Users /\ "admin" \in Roles
    BY EarliestExists, InstanceAssumption
  <2>2. EnsuredAdmin(rows) = WithRole(rows, first, "admin")
    BY <1>2 DEF EnsuredAdmin
  <2> HIDE DEF first
  <2> QED
    BY <2>1, <2>2, RoleFacts
<1> QED
  BY <1>1, <1>2

----------------------------------------------------------------------------
(* One request moves. The others stay as they are, but that a write to the database
   may keep their transactions from committing. *)
Same(q) ==
  /\ req'[q].pc = req[q].pc /\ req'[q].who = req[q].who /\ req'[q].what = req[q].what
  /\ req'[q].seen = req[q].seen /\ req'[q].at = req[q].at
  /\ req'[q].fresh => req[q].fresh /\ (accounts' = accounts \/ req[q].pc # "setRole")

Moves(r, s) ==
  /\ req' \in [Requests -> Doing] /\ req'[r] = s
  /\ \A q \in Requests \ {r} : Same(q)

LEMMA BecomeMoves ==
  ASSUME TypeInv, NEW r \in Requests, NEW s \in Doing, Become(r, s), accounts' = accounts
  PROVE  Moves(r, s)
BY DEF TypeInv, Become, Moves, Same

LEMMA AfterWriteMoves ==
  ASSUME TypeInv, NEW r \in Requests, NEW s \in Doing, AfterWrite(r, s)
  PROVE  Moves(r, s)
<1> DEFINE late(q) == [req[q] EXCEPT !.fresh = @ /\ req[q].pc # "setRole"]
<1>1. \A q \in Requests : req[q] \in Doing
  BY DEF TypeInv
<1>2. \A q \in Requests :
        /\ late(q) \in Doing /\ late(q).pc = req[q].pc /\ late(q).who = req[q].who
        /\ late(q).what = req[q].what /\ late(q).seen = req[q].seen /\ late(q).at = req[q].at
        /\ late(q).fresh = (req[q].fresh /\ req[q].pc # "setRole")
  BY <1>1 DEF Doing
<1>3. req' = [q \in Requests |-> IF q = r THEN s ELSE late(q)]
  BY DEF AfterWrite
<1> HIDE DEF late
<1>4. req' \in [Requests -> Doing] /\ req'[r] = s
  BY <1>2, <1>3
<1>5. \A q \in Requests \ {r} : Same(q)
  BY <1>2, <1>3 DEF Same
<1> QED
  BY <1>4, <1>5 DEF Moves

(* What a request of this step relies on holds still. *)
LEMMA StillSound ==
  ASSUME TypeInv, TypeInv', Owned, NEW q \in Requests, Sound(q), Same(q), Onward
  PROVE  Sound(q)'
<1> PICK s : s = req[q]
  OBVIOUS
<1> DEFINE k == s.what
<1>0. s \in Doing /\ now \in Nat /\ now' \in Nat /\ now' >= now /\ s.at \in Nat
  BY DEF TypeInv, Onward, Doing
<1>1. \A u \in Users : Exists(u) => Exists(u)'
  BY DEF Onward, Exists
<1>2. s.pc = "register" => s.who \in Users
  BY DEF Sound
<1>3. s.pc \in {"ensure", "role", "setRole", "createKey"} => s.who \in Users /\ Exists(s.who)'
  BY <1>1 DEF Sound
<1>4. s.pc = "promote" => s.seen \in Users
  BY DEF Sound
<1>5. s.pc \in {"role", "setRole"} => s.what \in Roles
  BY DEF Sound
<1>6. s.pc = "setRole" /\ req'[q].fresh => ~LastAdmin(q)'
  <2> SUFFICES ASSUME s.pc = "setRole", req'[q].fresh PROVE ~LastAdmin(q)'
    OBVIOUS
  <2>1. accounts' = accounts /\ s.fresh
    BY DEF Same
  <2>2. ~LastAdmin(q)
    BY <2>1 DEF Sound
  <2>3. Admins' = Admins /\ Role(s.who)' = Role(s.who)
    BY <2>1 DEF Admins, Exists, Role
  <2>4. req'[q].who = s.who /\ req'[q].what = s.what
    BY DEF Same
  <2> QED
    BY <2>2, <2>3, <2>4 DEF LastAdmin, Role, Exists
<1>7. s.pc \in {"resolve", "mint", "minted"} =>
        k \in Keys /\ keys'[k] # None /\ keys'[k].owner = keys[k].owner /\ s.at <= now'
        /\ (keys'[k].revoked = keys[k].revoked \/ (keys'[k].revoked = now /\ s.at <= now))
  BY <1>0 DEF Sound, Onward
<1>8. s.pc \in {"mint", "minted"} =>
        s.who = keys'[k].owner /\ (keys'[k].revoked # None => s.at <= keys'[k].revoked)
  BY <1>7 DEF Sound
<1>9. s.pc = "minted" =>
        /\ s.seen \in Token
        /\ s.seen.role # Role(s.who)' => s.at <= accounts'[s.who].changed
  <2> SUFFICES ASSUME s.pc = "minted"
               PROVE  /\ s.seen \in Token
                      /\ s.seen.role # Role(s.who)' => s.at <= accounts'[s.who].changed
    OBVIOUS
  <2>1. k \in Keys /\ keys[k] # None /\ s.who = keys[k].owner /\ s.at <= now
    BY DEF Sound
  <2>2. s.who \in Users /\ Exists(s.who)
    BY <2>1 DEF Owned, TypeInv, KeyRow
  <2>3. accounts'[s.who] = accounts[s.who] \/ accounts'[s.who].changed = now
    BY <2>2 DEF Onward
  <2>4. CASE accounts'[s.who] = accounts[s.who]
    BY <2>4 DEF Sound, Role, Exists
  <2>5. CASE accounts'[s.who].changed = now
    BY <2>1, <2>5 DEF Sound
  <2> QED
    BY <2>3, <2>4, <2>5
<1>10. /\ req'[q].pc = s.pc /\ req'[q].who = s.who /\ req'[q].what = s.what
       /\ req'[q].seen = s.seen /\ req'[q].at = s.at
  BY DEF Same
<1> QED
  BY <1>2, <1>3, <1>4, <1>5, <1>6, <1>7, <1>8, <1>9, <1>10 DEF Sound

(* What is cached is bounded by the same times still. *)
LEMMA StillCached ==
  ASSUME TypeInv, TypeInv', Owned, Onward, NEW e \in Entry, Cached1(e)
  PROVE  Cached1(e)'
<1> PICK k : k = keys[e.key]
  OBVIOUS
<1>0. e.key \in Keys /\ e.until \in Nat /\ CacheFor \in Nat /\ now \in Nat /\ now' \in Nat
  BY InstanceAssumption DEF Entry, TypeInv
<1>1. k # None /\ e.until <= now + CacheFor /\ k.owner \in Users /\ Exists(k.owner)
  BY <1>0 DEF Cached1, Owned, TypeInv, KeyRow
<1>2. /\ keys'[e.key] # None /\ keys'[e.key].owner = k.owner
      /\ keys'[e.key].revoked = k.revoked \/ keys'[e.key].revoked = now
  BY <1>0, <1>1 DEF Onward
<1>3. keys'[e.key].revoked # None => e.until <= keys'[e.key].revoked + CacheFor
  BY <1>1, <1>2 DEF Cached1
<1>4. accounts'[k.owner] = accounts[k.owner] \/ accounts'[k.owner].changed = now
  BY <1>1 DEF Onward
<1>5. e.role # Role(k.owner)' => e.until <= accounts'[k.owner].changed + CacheFor
  <2>1. CASE accounts'[k.owner] = accounts[k.owner]
    BY <2>1 DEF Cached1, Role, Exists
  <2>2. CASE accounts'[k.owner].changed = now
    BY <1>1, <2>2
  <2> QED
    BY <1>4, <2>1, <2>2
<1>6. e.until <= now' + CacheFor
  BY <1>0, <1>1 DEF Onward
<1>7. keys'[e.key].owner = k.owner
  BY <1>2
<1> QED
  BY <1>2, <1>3, <1>5, <1>6, <1>7 DEF Cached1

----------------------------------------------------------------------------
IdentityInv == TypeInv /\ Owned /\ AllSound /\ AllCached

(* What has to be shown of a step: its types, that the world goes on, and whatever is
   new of the requests, the keys and the cache. *)
LEMMA Carries ==
  ASSUME IdentityInv, TypeInv', Onward,
         \A q \in Requests : Same(q) \/ Sound(q)',
         \A k \in Keys : keys'[k] # None => keys[k] # None \/ accounts'[keys'[k].owner] # None,
         \A i \in 1 .. Len(exchanged') :
           Cached1(exchanged[i])' \/ (\E j \in 1 .. Len(exchanged) : exchanged'[i] = exchanged[j])
  PROVE  IdentityInv'
<1>1. TypeInv /\ Owned /\ AllSound /\ AllCached
  BY DEF IdentityInv
<1>2. AllSound'
  <2>1. ASSUME NEW q \in Requests, Same(q) PROVE Sound(q)'
    <3>1. Sound(q)
      BY <1>1 DEF AllSound
    <3> QED
      BY <1>1, <2>1, <3>1, StillSound
  <2>2. \A q \in Requests : Sound(q)'
    BY <2>1
  <2> QED
    BY <2>2 DEF AllSound
<1>3. Owned'
  <2> SUFFICES ASSUME NEW k \in Keys, keys'[k] # None PROVE accounts'[keys'[k].owner] # None
    BY DEF Owned, Exists
  <2>1. CASE keys[k] # None
    <3>1. keys'[k].owner = keys[k].owner /\ keys[k].owner \in Users /\ Exists(keys[k].owner)
      BY <1>1, <2>1 DEF Onward, Owned, TypeInv, KeyRow
    <3> QED
      BY <3>1 DEF Onward
  <2> QED
    BY <2>1
<1>4. AllCached'
  <2>1. ASSUME NEW i \in 1 .. Len(exchanged'),
               NEW j \in 1 .. Len(exchanged), exchanged'[i] = exchanged[j]
        PROVE  Cached1(exchanged[i])'
    <3> PICK e : e = exchanged[j]
      OBVIOUS
    <3>1. e \in Entry /\ Cached1(e)
      BY <1>1 DEF TypeInv, AllCached
    <3>2. Cached1(e)'
      BY <1>1, <3>1, StillCached
    <3> QED
      BY <2>1, <3>2 DEF Cached1
  <2>2. \A i \in 1 .. Len(exchanged') : Cached1(exchanged[i])'
    BY <2>1
  <2> QED
    BY <2>2 DEF AllCached
<1> QED
  BY <1>2, <1>3, <1>4 DEF IdentityInv

Quiet == UNCHANGED <<now, accounts, keys, exchanged>>

LEMMA Onwards ==
  ASSUME TypeInv, now' = now, accounts' = accounts \/ keys' = keys,
         accounts' = accounts \/ \A u \in Users : Exists(u) =>
           accounts'[u] # None /\ (accounts'[u] = accounts[u] \/ accounts'[u].changed = now),
         keys' = keys \/ \A k \in Keys : keys[k] # None =>
           /\ keys'[k] # None /\ keys'[k].owner = keys[k].owner
           /\ keys'[k].revoked = keys[k].revoked \/ (keys[k].revoked = None /\ keys'[k].revoked = now)
  PROVE  Onward
<1>1. \A u \in Users : Exists(u) =>
        accounts'[u] # None /\ (accounts'[u] = accounts[u] \/ accounts'[u].changed = now)
  BY DEF Exists
<1>2. now' >= now
  BY DEF TypeInv
<1> QED
  BY <1>1, <1>2 DEF Onward

(* A step of one request that writes nothing. *)
LEMMA QuietStep ==
  ASSUME IdentityInv, Quiet, NEW r \in Requests, NEW s \in Doing, Become(r, s), Sound(r)'
  PROVE  IdentityInv'
<1>1. TypeInv
  BY DEF IdentityInv
<1>2. Moves(r, s)
  BY <1>1, BecomeMoves DEF Quiet
<1>3. TypeInv'
  BY <1>1, <1>2 DEF TypeInv, Quiet, Moves
<1>4. Onward
  BY <1>1, Onwards DEF Quiet
<1>5. \A q \in Requests : Same(q) \/ Sound(q)'
  BY <1>2 DEF Moves
<1>6. keys' = keys /\ exchanged' = exchanged
  BY DEF Quiet
<1> QED
  BY <1>3, <1>4, <1>5, <1>6, Carries

LEMMA StillStep ==
  ASSUME IdentityInv, Quiet, req' = req
  PROVE  IdentityInv'
<1>1. TypeInv
  BY DEF IdentityInv
<1>2. TypeInv' /\ Onward
  BY <1>1, Onwards DEF TypeInv, Quiet
<1>3. \A q \in Requests : Same(q)
  BY DEF Same, Quiet
<1>4. keys' = keys /\ exchanged' = exchanged
  BY DEF Quiet
<1> QED
  BY <1>2, <1>3, <1>4, Carries

LEMMA FreeFacts ==
  /\ Free \in Doing /\ Free.pc = "free"
  /\ \A r \in Requests : req'[r].pc = "free" => Sound(r)'
<1>1. Free \in Doing /\ Free.pc = "free"
  BY DEF Free, Doing, Steps
<1>2. \A r \in Requests : req'[r].pc = "free" => Sound(r)'
  BY DEF Sound
<1> QED
  BY <1>1, <1>2

LEMMA DoneStep ==
  ASSUME IdentityInv, Quiet, NEW r \in Requests, Done(r)
  PROVE  IdentityInv'
<1>1. Become(r, Free) /\ Free \in Doing
  BY FreeFacts DEF Done
<1>2. req'[r].pc = "free"
  BY <1>1, FreeFacts DEF IdentityInv, TypeInv, Become
<1>3. Sound(r)'
  BY <1>2, FreeFacts
<1> QED
  BY <1>1, <1>3, QuietStep

----------------------------------------------------------------------------
(* The steps that write neither to the database nor to the cache. *)
LEMMA BeginStep ==
  ASSUME IdentityInv, NEW r \in Requests, NEW u \in Users,
         \/ Register(r, u) \/ CountKeys(r, u)
         \/ \E admin \in Users, role \in Roles : ChangeRole(r, admin, u, role)
  PROVE  IdentityInv'
<1>0. TypeInv
  BY DEF IdentityInv
<1>1. CASE Register(r, u)
  <2> DEFINE s == [Free EXCEPT !.pc = "register", !.who = u]
  <2>1. s \in Doing /\ s.pc = "register" /\ s.who = u
    BY DEF Free, Doing, Steps
  <2>2. Quiet /\ (req' = req \/ Become(r, s))
    BY <1>1 DEF Register, Quiet
  <2> HIDE DEF s
  <2>3. CASE Become(r, s)
    <3>1. req'[r] = s
      BY <1>0, <2>3 DEF TypeInv, Become
    <3>2. Sound(r)'
      BY <2>1, <3>1 DEF Sound
    <3> QED
      BY <2>1, <2>2, <2>3, <3>2, QuietStep
  <2> QED
    BY <2>2, <2>3, StillStep
<1>2. CASE CountKeys(r, u)
  <2> DEFINE s == [Free EXCEPT !.pc = "createKey", !.who = u]
  <2>1. s \in Doing /\ s.pc = "createKey" /\ s.who = u
    BY DEF Free, Doing, Steps
  <2>2. Quiet /\ Become(r, s) /\ accounts'[u] # None
    BY <1>2 DEF CountKeys, Quiet, Exists
  <2> HIDE DEF s
  <2>3. req'[r] = s
    BY <1>0, <2>2 DEF TypeInv, Become
  <2>4. Sound(r)'
    BY <2>1, <2>2, <2>3 DEF Sound, Exists
  <2> QED
    BY <2>1, <2>2, <2>4, QuietStep
<1>3. ASSUME NEW admin \in Users, NEW role \in Roles, ChangeRole(r, admin, u, role)
      PROVE  IdentityInv'
  <2> DEFINE s == [Free EXCEPT !.pc = "role", !.who = u, !.what = role]
  <2>1. s \in Doing /\ s.pc = "role" /\ s.who = u /\ s.what = role
    BY DEF Free, Doing, Steps
  <2>2. Quiet /\ Become(r, s) /\ accounts'[u] # None
    BY <1>3 DEF ChangeRole, Quiet, Exists
  <2> HIDE DEF s
  <2>3. req'[r] = s
    BY <1>0, <2>2 DEF TypeInv, Become
  <2>4. Sound(r)'
    BY <2>1, <2>2, <2>3 DEF Sound, Exists
  <2> QED
    BY <2>1, <2>2, <2>4, QuietStep
<1> QED
  BY <1>1, <1>2, <1>3

LEMMA ReadStep ==
  ASSUME IdentityInv, NEW r \in Requests, EnsureRead(r) \/ RoleRead(r)
  PROVE  IdentityInv'
<1>0. TypeInv /\ Sound(r) /\ req[r] \in Doing
  BY DEF IdentityInv, AllSound, TypeInv
<1>1. ASSUME Quiet, NEW s \in Doing, Become(r, s)
      PROVE  req'[r] = s
  BY <1>0, <1>1 DEF TypeInv, Become
<1>2. CASE EnsureRead(r) /\ ~Done(r)
  <2> DEFINE s == [req[r] EXCEPT !.pc = "promote", !.seen = Earliest(accounts)]
  <2>1. Quiet /\ Become(r, s)
    BY <1>2 DEF EnsureRead, Quiet
  <2>2. Earliest(accounts) \in Users
    BY <1>0, <1>2, EarliestExists DEF EnsureRead, Sound, Exists
  <2>3. s \in Doing /\ s.pc = "promote" /\ s.seen \in Users
    BY <1>0, <2>2 DEF Doing, Steps
  <2> HIDE DEF s
  <2>4. req'[r] = s
    BY <1>1, <2>1, <2>3
  <2>5. Sound(r)'
    BY <2>3, <2>4 DEF Sound
  <2> QED
    BY <2>1, <2>3, <2>5, QuietStep
<1>3. CASE RoleRead(r) /\ ~Done(r)
  <2> DEFINE s == [req[r] EXCEPT !.pc = "setRole"]
  <2>1. Quiet /\ Become(r, s) /\ ~LastAdmin(r) /\ req[r].pc = "role"
    BY <1>3 DEF RoleRead, Quiet, LastAdmin
  <2>2. s \in Doing /\ s.pc = "setRole" /\ s.who = req[r].who /\ s.what = req[r].what
    BY <1>0 DEF Doing, Steps
  <2> HIDE DEF s
  <2>3. req'[r] = s
    BY <1>1, <2>1, <2>2
  <2>4. PICK w, to : w = req[r].who /\ to = req[r].what
    OBVIOUS
  <2>5. Role(w)' = Role(w) /\ Admins' = Admins /\ Exists(w)' = Exists(w)
    BY <2>1 DEF Role, Exists, Admins, Quiet
  <2>6. ~LastAdmin(r)'
    BY <2>1, <2>2, <2>3, <2>4, <2>5 DEF LastAdmin, Role, Exists
  <2>7. w \in Users /\ Exists(w)' /\ to \in Roles
    BY <1>0, <2>1, <2>4, <2>5 DEF Sound
  <2>8. Sound(r)'
    BY <2>2, <2>3, <2>4, <2>6, <2>7 DEF Sound, Exists
  <2> QED
    BY <2>1, <2>2, <2>8, QuietStep
<1>4. Quiet
  BY DEF EnsureRead, RoleRead, Quiet
<1> QED
  BY <1>2, <1>3, <1>4, DoneStep

(* The exchange of a key, up to the point where the token is in hand. *)
LEMMA ExchangeStep ==
  ASSUME IdentityInv, NEW r \in Requests,
         (\E k \in Keys : Exchange(r, k)) \/ Resolve(r) \/ Mint(r) \/ ExchangeFails(r)
  PROVE  IdentityInv'
<1>0. TypeInv /\ Sound(r) /\ req[r] \in Doing /\ now \in Nat /\ Owned
  BY DEF IdentityInv, AllSound, TypeInv
<1>1. ASSUME NEW s \in Doing, Become(r, s)
      PROVE  req'[r] = s
  BY <1>0, <1>1 DEF TypeInv, Become
<1>2. ASSUME NEW k \in Keys, Exchange(r, k)
      PROVE  IdentityInv'
  <2> DEFINE s == [Free EXCEPT !.pc = "resolve", !.what = k, !.at = now]
  <2>1. s \in Doing /\ s.pc = "resolve" /\ s.what = k /\ s.at = now
    BY <1>0 DEF Free, Doing, Steps
  <2>2. Quiet /\ Become(r, s) /\ keys'[k] # None /\ now' = now
    BY <1>2 DEF Exchange, Quiet
  <2> HIDE DEF s
  <2>3. req'[r] = s
    BY <1>1, <2>1, <2>2
  <2>4. Sound(r)'
    BY <1>0, <2>1, <2>2, <2>3 DEF Sound
  <2> QED
    BY <2>1, <2>2, <2>4, QuietStep
<1>3. CASE Resolve(r) /\ ~Done(r)
  <2> PICK old : old = req[r]
    OBVIOUS
  <2> DEFINE k == old.what
             s == [old EXCEPT !.pc = "mint", !.who = keys[k].owner]
  <2>1. Quiet /\ Become(r, s) /\ keys[k].revoked = None /\ old.pc = "resolve"
    BY <1>3 DEF Resolve, Quiet
  <2>2. k \in Keys /\ keys[k] # None /\ old.at <= now
    BY <1>0, <2>1 DEF Sound
  <2>3. keys[k].owner \in Users
    BY <1>0, <2>2 DEF TypeInv, KeyRow
  <2>4. /\ s \in Doing /\ s.pc = "mint" /\ s.who = keys[k].owner
        /\ s.what = k /\ s.at = old.at
    BY <1>0, <2>3 DEF Doing, Steps
  <2> HIDE DEF s
  <2>5. req'[r] = s
    BY <1>1, <2>1, <2>4
  <2>6. keys' = keys /\ now' = now
    BY <2>1 DEF Quiet
  <2>7. Sound(r)'
    BY <2>1, <2>2, <2>4, <2>5, <2>6 DEF Sound
  <2> QED
    BY <2>1, <2>4, <2>7, QuietStep
<1>4. CASE Mint(r)
  <2> PICK old : old = req[r]
    OBVIOUS
  <2> PICK token : token = TokenFor(old.who)
    OBVIOUS
  <2> DEFINE s == [old EXCEPT !.pc = "minted", !.seen = token]
  <2>1. Quiet /\ Become(r, s) /\ old.pc = "mint"
    BY <1>4 DEF Mint, Quiet
  <2>2. /\ old.what \in Keys /\ keys[old.what] # None /\ old.at <= now /\ old.who = keys[old.what].owner
        /\ keys[old.what].revoked # None => old.at <= keys[old.what].revoked
    BY <1>0, <2>1 DEF Sound
  <2>3. old.who \in Users /\ Exists(old.who)
    BY <1>0, <2>2 DEF TypeInv, KeyRow, Owned
  <2>4. Role(old.who) \in AnyRole /\ now + TokenLife \in Nat
    <3>1. accounts[old.who] \in Account
      BY <1>0, <2>3 DEF TypeInv, Exists
    <3>2. Role(old.who) \in AnyRole
      BY <2>3, <3>1 DEF Role, Account, AnyRole
    <3>3. TokenLife \in Nat
      BY InstanceAssumption
    <3> QED
      BY <1>0, <3>2, <3>3
  <2>5. token \in Token /\ token.role = Role(old.who)
    BY <2>4 DEF TokenFor, Token
  <2>6. /\ s \in Doing /\ s.pc = "minted" /\ s.who = old.who /\ s.what = old.what
        /\ s.at = old.at /\ s.seen = token
    BY <1>0, <2>5 DEF Doing, Steps
  <2> HIDE DEF s
  <2>7. req'[r] = s
    BY <1>1, <2>1, <2>6
  <2>8. keys' = keys /\ now' = now /\ Role(old.who)' = Role(old.who)
    BY <2>1 DEF Quiet, Role, Exists
  <2>9. Sound(r)'
    BY <2>2, <2>5, <2>6, <2>7, <2>8 DEF Sound, Role, Exists
  <2> QED
    BY <2>1, <2>6, <2>9, QuietStep
<1>5. CASE ExchangeFails(r)
  BY <1>5, DoneStep DEF ExchangeFails, Quiet
<1>6. CASE Resolve(r) /\ Done(r)
  BY <1>6, DoneStep DEF Resolve, Quiet
<1> QED
  BY <1>2, <1>3, <1>4, <1>5, <1>6

----------------------------------------------------------------------------
(* A write of accounts, after which the request is over or goes on. *)
LEMMA AccountsStep ==
  ASSUME IdentityInv, NEW r \in Requests, NEW s \in Doing, AfterWrite(r, s), Sound(r)',
         accounts' \in [Users -> Account \cup {None}], UNCHANGED <<now, keys, exchanged>>,
         \A u \in Users : Exists(u) =>
           accounts'[u] # None /\ (accounts'[u] = accounts[u] \/ accounts'[u].changed = now)
  PROVE  IdentityInv'
<1>1. TypeInv
  BY DEF IdentityInv
<1>2. Moves(r, s)
  BY <1>1, AfterWriteMoves
<1>3. TypeInv' /\ \A q \in Requests : Same(q) \/ Sound(q)'
  BY <1>1, <1>2 DEF TypeInv, Moves
<1>4. Onward
  BY <1>1, Onwards
<1> QED
  BY <1>3, <1>4, Carries

LEMMA AfterWriteAt ==
  ASSUME TypeInv, NEW r \in Requests, NEW s, AfterWrite(r, s)
  PROVE  req'[r] = s
BY DEF AfterWrite

LEMMA OverSound ==
  ASSUME TypeInv, NEW r \in Requests, AfterWrite(r, Free)
  PROVE  Sound(r)'
<1>1. req'[r] = Free
  BY AfterWriteAt
<1> QED
  BY <1>1, FreeFacts

LEMMA RegisterStep ==
  ASSUME IdentityInv, NEW r \in Requests, RegisterCommit(r)
  PROVE  IdentityInv'
<1>1. TypeInv /\ Sound(r)
  BY DEF IdentityInv, AllSound
<1> DEFINE u == req[r].who
           rows == WithRole(accounts, u, "user")
<1>2. u \in Users /\ "user" \in Roles
  BY <1>1, InstanceAssumption DEF RegisterCommit, Sound
<1>3. CASE ~Exists(u)
  <2>1. accounts' = EnsuredAdmin(rows) /\ AfterWrite(r, Free) /\ UNCHANGED <<now, keys, exchanged>>
    BY <1>3 DEF RegisterCommit
  <2>2. accounts \in [Users -> Account \cup {None}]
    BY <1>1 DEF TypeInv
  <2>3. /\ rows \in [Users -> Account \cup {None}] /\ rows[u] # None
        /\ \A v \in Users : v # u => rows[v] = accounts[v]
    BY <1>1, <1>2, <2>2, RoleFacts
  <2> HIDE DEF rows, u
  <2>4. /\ accounts' \in [Users -> Account \cup {None}]
        /\ \A v \in Users : \/ accounts'[v] = rows[v]
                            \/ accounts'[v] # None /\ accounts'[v].changed = now
    BY <1>1, <1>2, <2>1, <2>3, EnsuredFacts
  <2>5. ASSUME NEW v \in Users, Exists(v)
        PROVE  accounts'[v] # None /\ (accounts'[v] = accounts[v] \/ accounts'[v].changed = now)
    <3>1. rows[v] = accounts[v] /\ accounts[v] # None
      BY <1>3, <2>3, <2>5 DEF Exists
    <3> QED
      BY <2>4, <3>1
  <2> QED
    BY <1>1, <2>1, <2>4, <2>5, OverSound, FreeFacts, AccountsStep
<1>4. CASE Exists(u)
  BY <1>4, DoneStep DEF RegisterCommit, Quiet
<1> QED
  BY <1>3, <1>4

LEMMA SignUpStep ==
  ASSUME IdentityInv, NEW r \in Requests, NEW u \in Users, OAuthSignUp(r, u)
  PROVE  IdentityInv'
<1>1. TypeInv /\ "user" \in Roles
  BY InstanceAssumption DEF IdentityInv
<1> DEFINE s == [Free EXCEPT !.pc = "ensure", !.who = u]
<1>2. s \in Doing /\ s.pc = "ensure" /\ s.who = u
  BY DEF Free, Doing, Steps
<1>3. accounts' = WithRole(accounts, u, "user") /\ AfterWrite(r, s) /\ UNCHANGED <<now, keys, exchanged>>
  BY DEF OAuthSignUp
<1> HIDE DEF s
<1>4. /\ accounts' \in [Users -> Account \cup {None}] /\ accounts'[u] # None
      /\ \A v \in Users : v # u => accounts'[v] = accounts[v]
  BY <1>1, <1>3, RoleFacts DEF TypeInv
<1>5. req'[r] = s
  BY <1>1, <1>3, AfterWriteAt
<1>6. Sound(r)'
  BY <1>2, <1>4, <1>5 DEF Sound, Exists
<1>7. \A v \in Users : Exists(v) =>
        accounts'[v] # None /\ (accounts'[v] = accounts[v] \/ accounts'[v].changed = now)
  BY <1>4 DEF OAuthSignUp, Exists
<1> QED
  BY <1>2, <1>3, <1>4, <1>6, <1>7, AccountsStep

(* The writes of one role: ensureAdmin outside a transaction, and setUserRole. *)
LEMMA RoleStep ==
  ASSUME IdentityInv, NEW r \in Requests, EnsureWrite(r) \/ RoleCommit(r)
  PROVE  IdentityInv'
<1>1. TypeInv /\ Sound(r)
  BY DEF IdentityInv, AllSound
<1>2. ASSUME NEW u, NEW role \in Roles, accounts' = WithRole(accounts, u, role), AfterWrite(r, Free),
             UNCHANGED <<now, keys, exchanged>>
      PROVE  IdentityInv'
  <2>1. /\ accounts' \in [Users -> Account \cup {None}]
        /\ \A v \in Users : v # u => accounts'[v] = accounts[v]
        /\ u \in Users => accounts'[u] # None /\ accounts'[u].changed = now
    BY <1>1, <1>2, RoleFacts DEF TypeInv
  <2>2. \A v \in Users : Exists(v) =>
          accounts'[v] # None /\ (accounts'[v] = accounts[v] \/ accounts'[v].changed = now)
    BY <2>1 DEF Exists
  <2> QED
    BY <1>1, <1>2, <2>1, <2>2, OverSound, FreeFacts, AccountsStep
<1>3. CASE EnsureWrite(r)
  <2>1. "admin" \in Roles
    BY InstanceAssumption
  <2> QED
    BY <1>2, <1>3, <2>1 DEF EnsureWrite
<1>4. CASE RoleCommit(r) /\ req[r].fresh
  <2>1. req[r].what \in Roles
    BY <1>1, <1>4 DEF RoleCommit, Sound
  <2> QED
    BY <1>2, <1>4, <2>1 DEF RoleCommit
<1>5. CASE RoleCommit(r) /\ ~req[r].fresh
  BY <1>5, DoneStep DEF RoleCommit, Quiet
<1> QED
  BY <1>3, <1>4, <1>5

----------------------------------------------------------------------------
(* A key is made, or revoked. *)
LEMMA KeysStep ==
  ASSUME IdentityInv, NEW r \in Requests, AfterWrite(r, Free),
         keys' \in [Keys -> KeyRow \cup {None}], UNCHANGED <<now, accounts, exchanged>>,
         \A k \in Keys : keys[k] # None =>
           /\ keys'[k] # None /\ keys'[k].owner = keys[k].owner
           /\ keys'[k].revoked = keys[k].revoked \/ (keys[k].revoked = None /\ keys'[k].revoked = now),
         \A k \in Keys : keys'[k] # None => keys[k] # None \/ Exists(keys'[k].owner)
  PROVE  IdentityInv'
<1>1. TypeInv
  BY DEF IdentityInv
<1>2. Moves(r, Free)
  BY <1>1, FreeFacts, AfterWriteMoves
<1>3. TypeInv' /\ \A q \in Requests : Same(q) \/ Sound(q)'
  BY <1>1, <1>2, OverSound DEF TypeInv, Moves
<1>4. Onward
  BY <1>1, Onwards
<1>5. \A k \in Keys : keys'[k] # None => keys[k] # None \/ accounts'[keys'[k].owner] # None
  BY DEF Exists
<1>6. exchanged' = exchanged
  OBVIOUS
<1> QED
  BY <1>3, <1>4, <1>5, <1>6, Carries

LEMMA InsertFacts ==
  ASSUME IdentityInv, NEW r \in Requests, NEW k \in Keys, InsertKey(r, k)
  PROVE  /\ req[r].who \in Users /\ Exists(req[r].who)
         /\ keys' \in [Keys -> KeyRow \cup {None}]
         /\ keys'[k] # None /\ keys'[k].owner = req[r].who /\ keys'[k].revoked = None
         /\ \A j \in Keys \ {k} : keys'[j] = keys[j]
<1>1. TypeInv /\ Sound(r)
  BY DEF IdentityInv, AllSound
<1> DEFINE row == [owner |-> req[r].who, revoked |-> None]
<1>2. req[r].who \in Users /\ Exists(req[r].who)
  BY <1>1 DEF InsertKey, Sound
<1>3. row \in KeyRow /\ row # None /\ row.owner = req[r].who /\ row.revoked = None
  BY <1>2, InstanceAssumption DEF KeyRow
<1>4. keys' = [keys EXCEPT ![k] = row]
  BY DEF InsertKey
<1> HIDE DEF row
<1> QED
  BY <1>1, <1>2, <1>3, <1>4 DEF TypeInv

LEMMA InsertStep ==
  ASSUME IdentityInv, NEW r \in Requests, NEW k \in Keys, InsertKey(r, k)
  PROVE  IdentityInv'
<1>1. AfterWrite(r, Free) /\ UNCHANGED <<now, accounts, exchanged>> /\ keys[k] = None
  BY DEF InsertKey
<1> QED
  BY <1>1, InsertFacts, KeysStep

LEMMA RevokeFacts ==
  ASSUME TypeInv, NEW r \in Requests, NEW k \in Keys, keys[k] # None, Revoke(r, k)
  PROVE  /\ keys' \in [Keys -> KeyRow \cup {None}]
         /\ keys'[k] # None /\ keys'[k].owner = keys[k].owner
         /\ keys[k].revoked = None /\ keys'[k].revoked = now
         /\ \A j \in Keys \ {k} : keys'[j] = keys[j]
<1> DEFINE row == [keys[k] EXCEPT !.revoked = now]
<1>1. keys[k] \in KeyRow /\ keys \in [Keys -> KeyRow \cup {None}] /\ now \in Nat
  BY DEF TypeInv
<1>2. row \in KeyRow /\ row.owner = keys[k].owner /\ row.revoked = now
  BY <1>1 DEF KeyRow
<1>3. row # None
  BY <1>2, InstanceAssumption DEF KeyRow
<1>4. keys' = [keys EXCEPT ![k] = row] /\ keys[k].revoked = None
  BY DEF Revoke
<1> HIDE DEF row
<1> QED
  BY <1>1, <1>2, <1>3, <1>4

LEMMA RevokeStep ==
  ASSUME IdentityInv, NEW r \in Requests, NEW k \in Keys, keys[k] # None, Revoke(r, k)
  PROVE  IdentityInv'
<1>1. AfterWrite(r, Free) /\ UNCHANGED <<now, accounts, exchanged>>
  BY DEF Revoke
<1>2. TypeInv
  BY DEF IdentityInv
<1> QED
  BY <1>1, <1>2, RevokeFacts, KeysStep

----------------------------------------------------------------------------
(* The principal of a verified token is kept: bounded from when the request began,
   a time at which its key was not revoked and its role was the owner's. *)
LEMMA RememberStep ==
  ASSUME IdentityInv, NEW r \in Requests, Remember(r)
  PROVE  IdentityInv'
<1> PICK old : old = req[r]
  OBVIOUS
<1>1. TypeInv /\ Sound(r) /\ Owned /\ old \in Doing /\ now \in Nat /\ exchanged \in Seq(Entry)
  BY DEF IdentityInv, AllSound, TypeInv
<1> DEFINE k == old.what
           lifetime == old.seen.exp - now - Leeway
           until == old.at + Min({CacheFor, lifetime})
           entry == [key |-> k, role |-> old.seen.role, until |-> until]
<1>2. /\ k \in Keys /\ keys[k] # None /\ old.at \in Nat /\ old.at <= now /\ old.who = keys[k].owner
      /\ keys[k].revoked # None => old.at <= keys[k].revoked
      /\ old.seen \in Token
      /\ old.seen.role # Role(old.who) => old.at <= accounts[old.who].changed
  BY <1>1 DEF Remember, Sound, Doing
<1>3. UNCHANGED <<now, accounts, keys>> /\ Done(r)
  BY DEF Remember
<1>4. Moves(r, Free)
  BY <1>1, <1>3, FreeFacts, BecomeMoves DEF Done
<1>5. /\ keys[k].owner \in Users /\ Exists(keys[k].owner) /\ accounts[keys[k].owner] \in Account
      /\ keys[k].revoked \in Nat \cup {None}
  BY <1>1, <1>2 DEF TypeInv, KeyRow, Owned, Exists
<1>6. CASE lifetime > 0
  <2>1. CacheFor \in Nat /\ Leeway \in Nat /\ old.seen.exp \in Nat /\ old.seen.role \in AnyRole
    BY <1>2, InstanceAssumption DEF Token
  <2>2. lifetime \in Nat
    BY <1>1, <1>6, <2>1
  <2>3. until \in Nat /\ until <= old.at + CacheFor
    <3>1. Min({CacheFor, lifetime}) \in Nat /\ Min({CacheFor, lifetime}) <= CacheFor
      BY <2>1, <2>2, LesserOf
    <3> HIDE DEF lifetime
    <3> QED
      BY <1>2, <2>1, <3>1
  <2>4. exchanged' = Remembered(entry)
    BY <1>6 DEF Remember, Principal
  <2> HIDE DEF until
  <2>5. entry \in Entry /\ entry.key = k /\ entry.role = old.seen.role /\ entry.until = until
    BY <1>2, <2>1, <2>3 DEF Entry
  <2> HIDE DEF entry
  <2>6. Cached1(entry)
    <3>1. until <= now + CacheFor
      BY <1>1, <1>2, <2>1, <2>3
    <3>2. keys[k].revoked # None => until <= keys[k].revoked + CacheFor
      BY <1>2, <1>5, <2>1, <2>3
    <3>3. entry.role # Role(keys[k].owner) => until <= accounts[keys[k].owner].changed + CacheFor
      <4>1. accounts[keys[k].owner].changed \in Nat
        BY <1>5 DEF Account
      <4> QED
        BY <1>2, <2>1, <2>3, <2>5, <4>1
    <3> QED
      BY <1>2, <2>5, <3>1, <3>2, <3>3 DEF Cached1
  <2>7. /\ exchanged' \in Seq(Entry)
        /\ \A n \in 1 .. Len(exchanged') :
             exchanged'[n] = entry \/ \E i \in 1 .. Len(exchanged) : exchanged'[n] = exchanged[i]
    BY <1>1, <2>4, <2>5, RememberedFacts
  <2>8. TypeInv' /\ Onward
    BY <1>1, <1>3, <1>4, <2>7, Onwards DEF TypeInv, Moves
  <2> PICK e : e = entry
    OBVIOUS
  <2>9. Cached1(e)'
    BY <1>1, <2>5, <2>6, <2>8, StillCached
  <2>10. \A n \in 1 .. Len(exchanged') :
           Cached1(exchanged[n])' \/ \E i \in 1 .. Len(exchanged) : exchanged'[n] = exchanged[i]
    BY <2>7, <2>9 DEF Cached1
  <2>11. \A q \in Requests : Same(q) \/ Sound(q)'
    BY <1>4, FreeFacts DEF Moves
  <2>12. keys' = keys
    BY <1>3
  <2> QED
    BY <2>8, <2>10, <2>11, <2>12, Carries
<1>7. CASE ~(lifetime > 0)
  <2>1. exchanged' = exchanged
    BY <1>7 DEF Remember
  <2> QED
    BY <1>3, <2>1, DoneStep DEF Quiet
<1> QED
  BY <1>6, <1>7

LEMMA TickStep ==
  ASSUME IdentityInv, Tick
  PROVE  IdentityInv'
<1>1. TypeInv
  BY DEF IdentityInv
<1>2. now' = now + 1 /\ UNCHANGED <<accounts, keys, bucket, exchanged, req>>
  BY DEF Tick
<1>3. TypeInv'
  BY <1>1, <1>2 DEF TypeInv
<1>4. Onward
  BY <1>1, <1>2 DEF TypeInv, Onward, Exists
<1>5. \A q \in Requests : Same(q)
  BY <1>2 DEF Same
<1>6. keys' = keys /\ exchanged' = exchanged
  BY <1>2
<1> QED
  BY <1>3, <1>4, <1>5, <1>6, Carries

----------------------------------------------------------------------------
LEMMA NextCases ==
  ASSUME [Next]_vars
  PROVE  \/ Tick
         \/ \E r \in Requests, u \in Users :
              \/ Register(r, u) \/ CountKeys(r, u) \/ OAuthSignUp(r, u)
              \/ \E admin \in Users, role \in Roles : ChangeRole(r, admin, u, role)
         \/ \E r \in Requests, k \in Keys : keys[k] # None /\ Revoke(r, k)
         \/ \E r \in Requests, k \in Keys : InsertKey(r, k)
         \/ \E r \in Requests : (\E k \in Keys : Exchange(r, k)) \/ Resolve(r) \/ Mint(r) \/ ExchangeFails(r)
         \/ \E r \in Requests : RegisterCommit(r)
         \/ \E r \in Requests : EnsureRead(r) \/ RoleRead(r)
         \/ \E r \in Requests : EnsureWrite(r) \/ RoleCommit(r)
         \/ \E r \in Requests : Remember(r)
         \/ UNCHANGED vars
<1>1. Owners \subseteq Users
  BY InstanceAssumption
<1>2. ASSUME NEW r \in Requests, RegisterForm(r) \/ OAuthButtons(r) \/ UsersPanel(r)
      PROVE  \E u \in Users : \/ Register(r, u) \/ OAuthSignUp(r, u)
                              \/ \E admin \in Users, role \in Roles : ChangeRole(r, admin, u, role)
  BY <1>2 DEF RegisterForm, OAuthButtons, UsersPanel
<1>3. ASSUME NEW r \in Requests, ApiKeysDialog(r) \/ AdminApiKeysPanel(r)
      PROVE  \/ \E u \in Users : CountKeys(r, u)
             \/ \E k \in Keys : keys[k] # None /\ Revoke(r, k)
  BY <1>1, <1>3 DEF ApiKeysDialog, AdminApiKeysPanel, RevokeOwn
<1> QED
  BY <1>2, <1>3 DEF Next

LEMMA IdentityInit == Init => IdentityInv
<1> SUFFICES ASSUME Init PROVE IdentityInv
  OBVIOUS
<1>1. TypeInv
  BY FreeFacts DEF Init, TypeInv
<1>2. Owned /\ AllCached
  BY DEF Init, Owned, AllCached
<1>3. AllSound
  BY DEF Init, AllSound, Sound, Free
<1> QED
  BY <1>1, <1>2, <1>3 DEF IdentityInv

LEMMA IdentityStep == IdentityInv /\ [Next]_vars => IdentityInv'
<1> SUFFICES ASSUME IdentityInv, [Next]_vars PROVE IdentityInv'
  OBVIOUS
<1>1. CASE UNCHANGED vars
  BY <1>1, StillStep DEF vars, Quiet
<1> QED
  BY <1>1, NextCases, TickStep, BeginStep, SignUpStep, RevokeStep, InsertStep, ExchangeStep,
     RegisterStep, ReadStep, RoleStep, RememberStep

(* The inductive invariant: what each request under way has read held at some time
   since it began, and so did what is cached. *)
THEOREM IdentityInvariant == Spec => []IdentityInv
  BY IdentityInit, IdentityStep, PTL DEF Spec

(* A revoked key, or a role that was taken away, is gone from every service within the
   caching time, whatever was in flight (LocalAuth._from_api_key). *)
THEOREM RevocationBitesSoon == Spec => []RevocationBites
<1>1. IdentityInv => RevocationBites
  BY DEF IdentityInv, AllCached, Cached1, RevocationBites, TypeInv
<1> QED
  BY <1>1, IdentityInvariant, PTL

----------------------------------------------------------------------------
(* The first limit needs nothing but the cache's own rule. *)
LEMMA CacheBounded ==
  ASSUME IdentityInv, [Next]_vars, Len(exchanged) <= MaxCached
  PROVE  Len(exchanged') <= MaxCached
<1>1. TypeInv /\ AllSound
  BY DEF IdentityInv
<1>2. ASSUME NEW r \in Requests, Remember(r), exchanged' # exchanged
      PROVE  Len(exchanged') <= MaxCached
  <2> DEFINE lifetime == req[r].seen.exp - now - Leeway
             until == req[r].at + Min({CacheFor, lifetime})
             entry == Principal(r, until)
  <2>1. exchanged' = Remembered(entry) /\ lifetime > 0 /\ req[r].pc = "minted"
    BY <1>2 DEF Remember
  <2>2. /\ req[r].what \in Keys /\ req[r].seen \in Token /\ req[r].at \in Nat
        /\ CacheFor \in Nat /\ Leeway \in Nat /\ now \in Nat
    BY <1>1, <2>1, InstanceAssumption DEF AllSound, Sound, TypeInv, Doing
  <2>3. lifetime \in Nat
    BY <2>1, <2>2 DEF Token
  <2>4. until \in Nat
    <3>1. Min({CacheFor, lifetime}) \in Nat
      BY <2>2, <2>3, LesserOf
    <3> HIDE DEF lifetime
    <3> QED
      BY <2>2, <3>1
  <2> HIDE DEF until
  <2>5. entry \in Entry
    BY <2>2, <2>4 DEF Principal, Entry, Token
  <2> HIDE DEF entry
  <2> QED
    BY <1>1, <2>1, <2>5, RememberedFacts DEF TypeInv
<1>3. ASSUME exchanged' = exchanged PROVE Len(exchanged') <= MaxCached
  BY <1>3
<1> QED
  BY <1>2, <1>3, NextCases DEF Tick, Register, CountKeys, OAuthSignUp, ChangeRole, Revoke, InsertKey,
     Exchange, Resolve, Mint, ExchangeFails, RegisterCommit, EnsureRead, RoleRead, EnsureWrite,
     RoleCommit, vars

Making(u) == {r \in Requests : req[r].pc = "createKey" /\ req[r].who = u}
KeysOf(u) == Cardinality(Active(u)) + Cardinality(Making(u))
Others == MaxKeys + Cardinality(Requests) - 1
KeysBounded == \A u \in Users : KeysOf(u) <= Others

LEMMA FiniteFacts ==
  ASSUME NEW u
  PROVE  /\ IsFiniteSet(Active(u)) /\ Cardinality(Active(u)) \in Nat
         /\ IsFiniteSet(Making(u)) /\ Cardinality(Making(u)) \in Nat
         /\ Cardinality(Making(u)) <= Cardinality(Requests)
         /\ Cardinality(Requests) \in Nat /\ MaxKeys \in Nat
<1>1. IsFiniteSet(Keys) /\ IsFiniteSet(Requests) /\ MaxKeys \in Nat
  BY InstanceAssumption
<1>2. Active(u) \in SUBSET Keys /\ Making(u) \in SUBSET Requests
  BY DEF Active, Making
<1> QED
  BY <1>1, <1>2, FS_Subset, FS_CardinalityType

(* A step that makes no key active, nor begins to make one. *)
LEMMA NoMoreKeys ==
  ASSUME KeysBounded, \A u \in Users : Active(u)' \subseteq Active(u) /\ Making(u)' \subseteq Making(u)
  PROVE  KeysBounded'
<1> SUFFICES ASSUME NEW u \in Users PROVE (KeysOf(u) <= Others)'
  BY DEF KeysBounded
<1>1. /\ Cardinality(Active(u)') <= Cardinality(Active(u)) /\ Cardinality(Active(u)') \in Nat
      /\ Cardinality(Making(u)') <= Cardinality(Making(u)) /\ Cardinality(Making(u)') \in Nat
  BY FiniteFacts, FS_Subset, FS_CardinalityType
<1>2. KeysOf(u) <= Others /\ Others \in Int
  BY FiniteFacts DEF KeysBounded, Others
<1> QED
  BY <1>1, <1>2, FiniteFacts DEF KeysOf, Others

(* Only the request that moves can begin to make a key. *)
LEMMA MakingKept ==
  ASSUME TypeInv, NEW r \in Requests, NEW s, s.pc # "createKey", Become(r, s) \/ AfterWrite(r, s), NEW u
  PROVE  Making(u)' \subseteq Making(u) \ {r}
<1>1. \A q \in Requests : req[q] \in Doing
  BY DEF TypeInv
<1>2. req'[r] = s
  BY DEF TypeInv, Become, AfterWrite
<1>3. \A q \in Requests \ {r} : req'[q].pc = req[q].pc /\ req'[q].who = req[q].who
  <2>1. CASE Become(r, s)
    BY <2>1 DEF TypeInv, Become
  <2>2. CASE AfterWrite(r, s)
    BY <1>1, <2>2 DEF AfterWrite, Doing
  <2> QED
    BY <2>1, <2>2
<1> QED
  BY <1>2, <1>3 DEF Making

LEMMA KeptKeys ==
  ASSUME TypeInv, KeysBounded, keys' = keys, NEW r \in Requests, NEW s, s.pc # "createKey",
         Become(r, s) \/ AfterWrite(r, s)
  PROVE  KeysBounded'
<1>1. \A u \in Users : Active(u)' = Active(u)
  BY DEF Active
<1>2. \A u \in Users : Making(u)' \subseteq Making(u)
  BY MakingKept
<1> QED
  BY <1>1, <1>2, NoMoreKeys

LEMMA CountBounded ==
  ASSUME IdentityInv, KeysBounded, NEW r \in Requests, NEW u \in Users, CountKeys(r, u)
  PROVE  KeysBounded'
<1> DEFINE s == [Free EXCEPT !.pc = "createKey", !.who = u]
<1>1. TypeInv /\ keys' = keys /\ Cardinality(Active(u)) < MaxKeys /\ Become(r, s)
  BY DEF IdentityInv, CountKeys
<1>2. s.pc = "createKey" /\ s.who = u
  BY DEF Free
<1> HIDE DEF s
<1>3. req'[r] = s /\ \A q \in Requests \ {r} : req'[q] = req[q]
  BY <1>1 DEF TypeInv, Become
<1> SUFFICES ASSUME NEW v \in Users PROVE (KeysOf(v) <= Others)'
  BY DEF KeysBounded
<1>4. Active(v)' = Active(v) /\ KeysOf(v) <= Others
  BY <1>1 DEF Active, KeysBounded
<1>5. /\ Cardinality(Making(v)') \in Nat /\ Cardinality(Making(v)') <= Cardinality(Requests)
      /\ Cardinality(Requests) \in Nat /\ MaxKeys \in Nat /\ IsFiniteSet(Making(v))
      /\ Cardinality(Active(v)) \in Nat /\ Cardinality(Making(v)) \in Nat
  <2>1. Making(v)' \in SUBSET Requests /\ IsFiniteSet(Requests)
    BY InstanceAssumption DEF Making
  <2> QED
    BY <2>1, FiniteFacts, FS_Subset, FS_CardinalityType
<1>6. CASE v = u
  BY <1>1, <1>4, <1>5, <1>6 DEF KeysOf, Others
<1>7. CASE v # u
  <2>1. Making(v)' \in SUBSET Making(v)
    BY <1>2, <1>3, <1>7 DEF Making
  <2>2. Cardinality(Making(v)') <= Cardinality(Making(v))
    BY <1>5, <2>1, FS_Subset
  <2> QED
    BY <1>4, <1>5, <2>2 DEF KeysOf, Others
<1> QED
  BY <1>6, <1>7

(* A key takes the place of the request that made it. *)
LEMMA InsertBounded ==
  ASSUME IdentityInv, KeysBounded, NEW r \in Requests, NEW k \in Keys, InsertKey(r, k)
  PROVE  KeysBounded'
<1>1. TypeInv /\ AfterWrite(r, Free) /\ keys[k] = None /\ req[r].pc = "createKey" /\ Free.pc # "createKey"
  BY DEF IdentityInv, InsertKey, Free
<1>2. /\ keys'[k].owner = req[r].who
      /\ \A j \in Keys \ {k} : keys'[j] = keys[j]
  BY InsertFacts
<1> SUFFICES ASSUME NEW v \in Users PROVE (KeysOf(v) <= Others)'
  BY DEF KeysBounded
<1>3. Making(v)' \subseteq Making(v) \ {r} /\ KeysOf(v) <= Others
  BY <1>1, MakingKept DEF KeysBounded
<1>4. /\ IsFiniteSet(Active(v)) /\ Cardinality(Active(v)) \in Nat
      /\ IsFiniteSet(Making(v)) /\ Cardinality(Making(v)) \in Nat
      /\ Cardinality(Requests) \in Nat /\ MaxKeys \in Nat
  BY FiniteFacts
<1>5. CASE v = req[r].who
  <2>1. Active(v)' \subseteq Active(v) \cup {k} /\ r \in Making(v)
    BY <1>1, <1>2, <1>5 DEF Active, Making
  <2>2. /\ IsFiniteSet(Active(v) \cup {k}) /\ Cardinality(Active(v) \cup {k}) <= Cardinality(Active(v)) + 1
        /\ IsFiniteSet(Making(v) \ {r}) /\ Cardinality(Making(v) \ {r}) = Cardinality(Making(v)) - 1
    <3>1. /\ IsFiniteSet(Active(v) \cup {k})
          /\ Cardinality(Active(v) \cup {k}) \in {Cardinality(Active(v)), Cardinality(Active(v)) + 1}
      BY <1>4, FS_AddElement
    <3>2. IsFiniteSet(Making(v) \ {r}) /\ Cardinality(Making(v) \ {r}) = Cardinality(Making(v)) - 1
      BY <1>4, <2>1, FS_RemoveElement
    <3> QED
      BY <1>4, <3>1, <3>2
  <2>3. /\ Cardinality(Active(v)') <= Cardinality(Active(v) \cup {k}) /\ Cardinality(Active(v)') \in Nat
        /\ Cardinality(Making(v)') <= Cardinality(Making(v) \ {r}) /\ Cardinality(Making(v)') \in Nat
        /\ Cardinality(Active(v) \cup {k}) \in Nat /\ Cardinality(Making(v) \ {r}) \in Nat
    BY <1>3, <2>1, <2>2, FS_Subset, FS_CardinalityType
  <2> QED
    BY <1>3, <1>4, <2>2, <2>3 DEF KeysOf, Others
<1>6. CASE v # req[r].who
  <2>1. Active(v)' \subseteq Active(v) /\ Making(v)' \subseteq Making(v)
    BY <1>2, <1>3, <1>6 DEF Active
  <2>2. /\ Cardinality(Active(v)') <= Cardinality(Active(v)) /\ Cardinality(Active(v)') \in Nat
        /\ Cardinality(Making(v)') <= Cardinality(Making(v)) /\ Cardinality(Making(v)') \in Nat
    BY <1>4, <2>1, FS_Subset, FS_CardinalityType
  <2> QED
    BY <1>3, <1>4, <2>2 DEF KeysOf, Others
<1> QED
  BY <1>5, <1>6

LEMMA RevokeBounded ==
  ASSUME IdentityInv, KeysBounded, NEW r \in Requests, NEW k \in Keys, keys[k] # None, Revoke(r, k)
  PROVE  KeysBounded'
<1>1. TypeInv /\ AfterWrite(r, Free) /\ Free.pc # "createKey"
  BY DEF IdentityInv, Revoke, Free
<1>2. /\ keys'[k].revoked = now /\ now \in Nat
      /\ \A j \in Keys \ {k} : keys'[j] = keys[j]
  BY <1>1, RevokeFacts DEF TypeInv
<1>3. \A u \in Users : Active(u)' \subseteq Active(u)
  BY <1>2, InstanceAssumption DEF Active
<1>4. \A u \in Users : Making(u)' \subseteq Making(u)
  BY <1>1, MakingKept
<1> QED
  BY <1>3, <1>4, NoMoreKeys

LEMMA KeysBoundedStep == IdentityInv /\ KeysBounded /\ [Next]_vars => KeysBounded'
<1> SUFFICES ASSUME IdentityInv, KeysBounded, [Next]_vars PROVE KeysBounded'
  OBVIOUS
<1>0. TypeInv /\ \A r \in Requests : req[r] \in Doing
  BY DEF IdentityInv, TypeInv
<1>1. ASSUME keys' = keys, req' = req
      PROVE  KeysBounded'
  BY <1>1, NoMoreKeys DEF Active, Making
<1>2. ASSUME NEW r \in Requests, keys' = keys, Done(r) \/ AfterWrite(r, Free)
      PROVE  KeysBounded'
  BY <1>0, <1>2, KeptKeys DEF Done, Free
<1>3. ASSUME NEW r \in Requests, NEW u \in Users, NEW role,
             Register(r, u) \/ OAuthSignUp(r, u) \/ \E admin \in Users : ChangeRole(r, admin, u, role)
      PROVE  KeysBounded'
  <2> DEFINE s == [Free EXCEPT !.pc = "register", !.who = u]
             t == [Free EXCEPT !.pc = "ensure", !.who = u]
             v == [Free EXCEPT !.pc = "role", !.who = u, !.what = role]
  <2>1. s.pc # "createKey" /\ t.pc # "createKey" /\ v.pc # "createKey"
    BY DEF Free
  <2>2. keys' = keys /\ (req' = req \/ Become(r, s) \/ AfterWrite(r, t) \/ Become(r, v))
    BY <1>3 DEF Register, OAuthSignUp, ChangeRole
  <2> HIDE DEF s, t, v
  <2> QED
    BY <1>0, <1>1, <2>1, <2>2, KeptKeys
<1>4. ASSUME NEW r \in Requests, EnsureRead(r) \/ RoleRead(r)
      PROVE  KeysBounded'
  <2> DEFINE s == [req[r] EXCEPT !.pc = "promote", !.seen = Earliest(accounts)]
             t == [req[r] EXCEPT !.pc = "setRole"]
  <2>1. s.pc # "createKey" /\ t.pc # "createKey"
    BY <1>0 DEF Doing
  <2>2. keys' = keys /\ (Done(r) \/ Become(r, s) \/ Become(r, t))
    BY <1>4 DEF EnsureRead, RoleRead
  <2> HIDE DEF s, t
  <2> QED
    BY <1>0, <1>2, <2>1, <2>2, KeptKeys
<1>5. ASSUME NEW r \in Requests, (\E k \in Keys : Exchange(r, k)) \/ Resolve(r) \/ Mint(r) \/ ExchangeFails(r)
      PROVE  KeysBounded'
  <2> DEFINE begun(k) == [Free EXCEPT !.pc = "resolve", !.what = k, !.at = now]
             s == [req[r] EXCEPT !.pc = "mint", !.who = keys[req[r].what].owner]
             t == [req[r] EXCEPT !.pc = "minted", !.seen = TokenFor(req[r].who)]
  <2>1. s.pc # "createKey" /\ t.pc # "createKey" /\ \A k : begun(k).pc # "createKey"
    BY <1>0 DEF Doing, Free
  <2>2. keys' = keys /\ (Done(r) \/ Become(r, s) \/ Become(r, t) \/ \E k \in Keys : Become(r, begun(k)))
    BY <1>5 DEF Exchange, Resolve, Mint, ExchangeFails
  <2> HIDE DEF s, t, begun
  <2> QED
    BY <1>0, <1>2, <2>1, <2>2, KeptKeys
<1>6. ASSUME NEW r \in Requests, EnsureWrite(r) \/ RoleCommit(r) \/ RegisterCommit(r) \/ Remember(r)
      PROVE  KeysBounded'
  <2>1. keys' = keys /\ (Done(r) \/ AfterWrite(r, Free))
    BY <1>6 DEF EnsureWrite, RoleCommit, RegisterCommit, Remember
  <2> QED
    BY <1>2, <2>1
<1>7. ASSUME Tick \/ UNCHANGED vars PROVE KeysBounded'
  BY <1>1, <1>7 DEF Tick, vars
<1> QED
  BY <1>3, <1>4, <1>5, <1>6, <1>7, CountBounded, InsertBounded, RevokeBounded, NextCases

(* A cache never outgrows its limit, and a user's keys theirs by no more than the
   other requests in flight (createApiKey counts before it inserts). *)
THEOREM LimitsHoldAlways == Spec => []LimitsHold
<1> DEFINE Limits == Len(exchanged) <= MaxCached /\ KeysBounded
<1>1. Init => Limits
  <2> SUFFICES ASSUME Init PROVE Limits
    OBVIOUS
  <2>1. Len(exchanged) <= MaxCached
    BY InstanceAssumption DEF Init
  <2>2. ASSUME NEW u \in Users PROVE KeysOf(u) <= Others
    <3>1. Active(u) = {} /\ Making(u) = {}
      BY DEF Init, Active, Making, Free
    <3>2. Cardinality(Active(u)) = 0 /\ Cardinality(Making(u)) = 0 /\ MaxKeys > 0
      BY <3>1, FS_EmptySet, InstanceAssumption
    <3> QED
      BY <3>2, FiniteFacts DEF KeysOf, Others
  <2> QED
    BY <2>1, <2>2 DEF KeysBounded
<1>2. IdentityInv /\ Limits /\ [Next]_vars => Limits'
  BY CacheBounded, KeysBoundedStep
<1>3. Limits => LimitsHold
  BY DEF KeysBounded, KeysOf, Others, Making, LimitsHold
<1> QED
  BY <1>1, <1>2, <1>3, IdentityInvariant, PTL DEF Spec

----------------------------------------------------------------------------
HasAdmin == \E u \in Users : accounts[u] # None /\ accounts[u].role = "admin"

LEMMA AdminsAre == (Admins # {} <=> HasAdmin) /\ (Admins' # {} <=> HasAdmin')
  BY DEF Admins, HasAdmin, Exists

LEMMA RegisteredAdmin ==
  ASSUME IdentityInv, NEW r \in Requests, RegisterCommit(r), ~Exists(req[r].who)
  PROVE  HasAdmin'
<1>1. TypeInv /\ Sound(r)
  BY DEF IdentityInv, AllSound
<1> PICK u : u = req[r].who
  OBVIOUS
<1> DEFINE rows == WithRole(accounts, u, "user")
<1>2. u \in Users /\ "user" \in Roles
  BY <1>1, InstanceAssumption DEF RegisterCommit, Sound
<1>3. rows \in [Users -> Account \cup {None}] /\ rows[u] # None
  BY <1>1, <1>2, RoleFacts DEF TypeInv
<1>4. accounts' = EnsuredAdmin(rows)
  BY DEF RegisterCommit
<1> HIDE DEF rows
<1>5. \E v \in Users : accounts'[v] # None /\ accounts'[v].role = "admin"
  BY <1>1, <1>2, <1>3, <1>4, EnsuredFacts
<1> QED
  BY <1>5 DEF HasAdmin

(* setUserRole: what it read of the admins still holds when it writes. *)
LEMMA RoleKeepsAdmin ==
  ASSUME IdentityInv, NEW r \in Requests, RoleCommit(r), req[r].fresh, HasAdmin
  PROVE  HasAdmin'
<1> PICK u, to : u = req[r].who /\ to = req[r].what
  OBVIOUS
<1>1. TypeInv /\ Sound(r) /\ req[r].pc = "setRole" /\ accounts' = WithRole(accounts, u, to)
  BY DEF IdentityInv, AllSound, RoleCommit
<1>2. u \in Users /\ Exists(u) /\ to \in Roles /\ ~LastAdmin(r)
  BY <1>1 DEF Sound
<1>3. /\ \A v \in Users : v # u => accounts'[v] = accounts[v]
      /\ accounts'[u] # None /\ accounts'[u].role = to
  BY <1>1, <1>2, RoleFacts DEF TypeInv
<1>4. CASE to = "admin"
  BY <1>2, <1>3, <1>4 DEF HasAdmin
<1>5. CASE to # "admin" /\ Role(u) = "admin"
  <2>1. IsFiniteSet(Admins) /\ Cardinality(Admins) \in Nat /\ ~(Cardinality(Admins) <= 1)
    <3>1. Admins \in SUBSET Users /\ IsFiniteSet(Users)
      BY InstanceAssumption DEF Admins
    <3> QED
      BY <1>2, <1>5, <3>1, FS_Subset, FS_CardinalityType DEF LastAdmin
  <2>2. ~(Admins \subseteq {u})
    <3> SUFFICES ASSUME Admins \in SUBSET {u} PROVE FALSE
      OBVIOUS
    <3>1. IsFiniteSet({u}) /\ Cardinality({u}) = 1
      BY FS_Singleton
    <3>2. Cardinality(Admins) <= Cardinality({u})
      BY <3>1, FS_Subset
    <3> QED
      BY <2>1, <3>1, <3>2
  <2>3. PICK v \in Users : v # u /\ accounts[v] # None /\ accounts[v].role = "admin"
    BY <2>2 DEF Admins, Exists
  <2> QED
    BY <1>3, <2>3 DEF HasAdmin
<1>6. CASE to # "admin" /\ Role(u) # "admin"
  <2>1. PICK v \in Users : accounts[v] # None /\ accounts[v].role = "admin"
    BY DEF HasAdmin
  <2>2. v # u
    BY <1>2, <1>6, <2>1 DEF Role
  <2> QED
    BY <1>3, <2>1, <2>2 DEF HasAdmin
<1> QED
  BY <1>4, <1>5, <1>6

LEMMA AdminKept ==
  ASSUME IdentityInv, [Next]_vars, HasAdmin
  PROVE  HasAdmin'
<1>0. TypeInv
  BY DEF IdentityInv
<1>1. ASSUME accounts' = accounts PROVE HasAdmin'
  BY <1>1 DEF HasAdmin
<1>2. ASSUME NEW r \in Requests, NEW u \in Users, OAuthSignUp(r, u)
      PROVE  HasAdmin'
  <2>1. accounts' = WithRole(accounts, u, "user") /\ accounts[u] = None /\ "user" \in Roles
    BY <1>2, InstanceAssumption DEF OAuthSignUp, Exists
  <2>2. \A v \in Users : v # u => accounts'[v] = accounts[v]
    BY <1>0, <2>1, RoleFacts DEF TypeInv
  <2>3. PICK v \in Users : accounts[v] # None /\ accounts[v].role = "admin"
    BY DEF HasAdmin
  <2> QED
    BY <2>1, <2>2, <2>3 DEF HasAdmin
<1>3. ASSUME NEW r \in Requests, EnsureWrite(r)
      PROVE  HasAdmin'
  <2> PICK u : u = req[r].seen
    OBVIOUS
  <2>1. accounts' = WithRole(accounts, u, "admin") /\ "admin" \in Roles
    BY <1>3, InstanceAssumption DEF EnsureWrite
  <2>2. /\ \A v \in Users : v # u => accounts'[v] = accounts[v]
        /\ u \in Users => accounts'[u] # None /\ accounts'[u].role = "admin"
    BY <1>0, <2>1, RoleFacts DEF TypeInv
  <2>3. PICK v \in Users : accounts[v] # None /\ accounts[v].role = "admin"
    BY DEF HasAdmin
  <2> QED
    BY <2>2, <2>3 DEF HasAdmin
<1>4. ASSUME NEW r \in Requests, RegisterCommit(r)
      PROVE  HasAdmin'
  BY <1>1, <1>4, RegisteredAdmin DEF RegisterCommit
<1>5. ASSUME NEW r \in Requests, RoleCommit(r)
      PROVE  HasAdmin'
  BY <1>1, <1>5, RoleKeepsAdmin DEF RoleCommit
<1> QED
  BY <1>1, <1>2, <1>3, <1>4, <1>5, NextCases DEF Tick, Register, CountKeys, ChangeRole, Revoke, InsertKey,
     Exchange, Resolve, Mint, ExchangeFails, EnsureRead, RoleRead, Remember, vars

(* Only the commit of a registration ends one that was under way. *)
LEMMA RegisterEnds ==
  ASSUME IdentityInv, [Next]_vars, NEW r \in Requests, req[r].pc = "register", req'[r].pc = "free"
  PROVE  RegisterCommit(r)
<1>0. TypeInv /\ \A q \in Requests : req[q] \in Doing
  BY DEF IdentityInv, TypeInv
<1>1. ASSUME NEW q \in Requests, q # r, NEW s, Become(q, s) \/ AfterWrite(q, s)
      PROVE  FALSE
  <2>1. CASE Become(q, s)
    BY <1>0, <1>1, <2>1 DEF TypeInv, Become
  <2>2. CASE AfterWrite(q, s)
    BY <1>0, <1>1, <2>2 DEF AfterWrite, Doing
  <2> QED
    BY <1>1, <2>1, <2>2
<1>2. req' # req
  OBVIOUS
<1>3. ASSUME NEW q \in Requests, NEW u \in Users, NEW role,
             \/ Register(q, u) \/ OAuthSignUp(q, u) \/ CountKeys(q, u)
             \/ \E admin \in Users : ChangeRole(q, admin, u, role)
      PROVE  FALSE
  <2>1. q # r
    BY <1>3 DEF Register, OAuthSignUp, CountKeys, ChangeRole
  <2> QED
    BY <1>1, <1>2, <1>3, <2>1 DEF Register, OAuthSignUp, CountKeys, ChangeRole
<1>4. ASSUME NEW q \in Requests, NEW k \in Keys, Revoke(q, k) \/ InsertKey(q, k) \/ Exchange(q, k)
      PROVE  FALSE
  <2>1. q # r
    BY <1>4 DEF Revoke, InsertKey, Exchange
  <2> QED
    BY <1>1, <1>4, <2>1 DEF Revoke, InsertKey, Exchange
<1>5. ASSUME NEW q \in Requests, \/ Resolve(q) \/ Mint(q) \/ ExchangeFails(q)
             \/ EnsureRead(q) \/ RoleRead(q) \/ EnsureWrite(q) \/ RoleCommit(q) \/ Remember(q)
      PROVE  FALSE
  <2>1. q # r
    BY <1>5 DEF Resolve, Mint, ExchangeFails, EnsureRead, RoleRead, EnsureWrite, RoleCommit, Remember
  <2>2. \E s : Become(q, s) \/ AfterWrite(q, s)
    BY <1>5 DEF Resolve, Mint, ExchangeFails, EnsureRead, RoleRead, EnsureWrite, RoleCommit, Remember, Done
  <2> QED
    BY <1>1, <2>1, <2>2
<1>6. ASSUME NEW q \in Requests, RegisterCommit(q)
      PROVE  q = r
  <2>1. \E s : Become(q, s) \/ AfterWrite(q, s)
    BY <1>6 DEF RegisterCommit, Done
  <2> QED
    BY <1>1, <2>1
<1>7. ASSUME Tick \/ UNCHANGED vars PROVE FALSE
  BY <1>2, <1>7 DEF Tick, vars
<1> QED
  BY <1>3, <1>4, <1>5, <1>6, <1>7, NextCases

(* An instance that has an admin keeps one, however demotions and late promotions
   interleave (setUserRole), and a registration never commits without one
   (ensureAdmin in the same transaction). *)
THEOREM AdminRemains == Spec => AlwaysAnAdmin
<1> DEFINE Keeps ==
      /\ Admins # {} => Admins' # {}
      /\ (\E r \in Requests : /\ req[r].pc = "register" /\ req'[r].pc = "free"
                             /\ ~Exists(req[r].who)) => Admins' # {}
<1>1. IdentityInv /\ [Next]_vars => Keeps
  <2> SUFFICES ASSUME IdentityInv, [Next]_vars PROVE Keeps
    OBVIOUS
  <2>1. Admins # {} => Admins' # {}
    BY AdminKept, AdminsAre
  <2>2. ASSUME NEW r \in Requests, req[r].pc = "register", req'[r].pc = "free", ~Exists(req[r].who)
        PROVE  Admins' # {}
    BY <2>2, RegisterEnds, RegisteredAdmin, AdminsAre
  <2> QED
    BY <2>1, <2>2
<1> QED
  BY <1>1, IdentityInvariant, PTL DEF Spec, AlwaysAnAdmin
=============================================================================
