----------------------------- MODULE PluginProofs -----------------------------
(***************************************************************************)
(* Proofs about what a Python service keeps in memory: the instances of its *)
(* plugins (PluginRegistry), for any threads, plugins, configurations,      *)
(* installs and number of instances, and the signing keys its auth plugin   *)
(* verifies tokens with (TokenVerification), for any services, readers and  *)
(* times.                                                                   *)
(***************************************************************************)
EXTENDS PluginRegistry, TokenVerification, FiniteSetTheorems, TLAPS

Made == [name : Names, config : Configs \cup {None}]

Lists == Seq(Names \cup Ids)
Doing == [pc : {"rest", "getAll", "closing"}, names : Lists]

TypeInv ==
  /\ enabled \in [Names -> BOOLEAN]
  /\ config \in [Names -> Configs \cup {None}]
  /\ instances \in [Names -> Ids \cup {None}]
  /\ made \in Seq(Made) /\ Len(made) <= MaxBuilt
  /\ closes \in [Ids -> Nat]
  /\ thread \in [Threads -> Doing]

(* What is kept was built for what the registry is told now. *)
Current ==
  \A n \in Names : instances[n] # None =>
    /\ instances[n] <= Len(made) /\ enabled[n]
    /\ made[instances[n]] = [name |-> n, config |-> config[n]]

(* The instances a thread is about to close: none twice, none that is kept or closed. *)
Todo(t) == IF thread[t].pc = "closing" THEN thread[t].names ELSE <<>>

Closing(t) ==
  /\ Todo(t) \in Seq(Ids)
  /\ \A i, j \in 1 .. Len(Todo(t)) : Todo(t)[i] = Todo(t)[j] => i = j
  /\ \A i \in 1 .. Len(Todo(t)) :
       /\ Todo(t)[i] <= Len(made) /\ closes[Todo(t)[i]] = 0
       /\ \A n \in Names : instances[n] # Todo(t)[i]

Shared(t, u) ==
  \E i \in 1 .. Len(Todo(t)), j \in 1 .. Len(Todo(u)) : Todo(t)[i] = Todo(u)[j]

Closes ==
  /\ \A t \in Threads : Closing(t)
  /\ \A t, u \in Threads : t # u => ~Shared(t, u)
  /\ \A i \in Ids : closes[i] <= 1 /\ (closes[i] > 0 => i <= Len(made))
  /\ \A n \in Names : instances[n] # None => closes[instances[n]] = 0

----------------------------------------------------------------------------
LEMMA RegistryCases ==
  ASSUME [RegistryNext]_registryVars
  PROVE  \/ \E t \in Threads, n \in Names, c \in Configs : Configure(t, n, c)
         \/ \E t \in Threads, n \in Names : Enable(t, n) \/ Disable(t, n)
         \/ \E t \in Threads, n \in Names : Get(t, n)
         \/ \E t \in Threads : GetAll(t) \/ GetNext(t)
         \/ \E t \in Threads : Close(t)
         \/ \E t \in Threads : CloseNext(t)
         \/ UNCHANGED registryVars
  BY DEF RegistryNext

(* A finite set as a sequence: each element once, and nothing else. *)
LEMMA SetToSeqFacts ==
  ASSUME NEW S, IsFiniteSet(S)
  PROVE  /\ SetToSeq(S) \in Seq(S)
         /\ \A i, j \in 1 .. Len(SetToSeq(S)) : SetToSeq(S)[i] = SetToSeq(S)[j] => i = j
<1>1. Cardinality(S) \in Nat /\ ExistsBijection(1 .. Cardinality(S), S)
  BY FS_CardinalityType
<1>2. \E f \in [1 .. Cardinality(S) -> S] : IsInjective(f)
  BY <1>1 DEF ExistsBijection, Bijection, Injection
<1>3. SetToSeq(S) \in [1 .. Cardinality(S) -> S] /\ IsInjective(SetToSeq(S))
  BY <1>2 DEF SetToSeq
<1>4. SetToSeq(S) \in Seq(S) /\ Len(SetToSeq(S)) = Cardinality(S)
  BY <1>1, <1>3
<1> QED
  BY <1>3, <1>4 DEF IsInjective

(* What each thread does to its own record. *)
Moved(t, pc, names) ==
  /\ thread' \in [Threads -> Doing] /\ thread'[t].pc = pc /\ thread'[t].names = names
  /\ \A u \in Threads \ {t} : thread'[u] = thread[u]

LEMMA ThreadMoves ==
  ASSUME TypeInv, NEW t \in Threads
  PROVE  /\ \A pc \in {"rest", "getAll", "closing"} :
              Now(t, pc) => Moved(t, pc, thread[t].names)
         /\ thread[t].names # <<>> /\ thread' = [thread EXCEPT ![t].names = Tail(@)] =>
              Moved(t, thread[t].pc, Tail(thread[t].names))
         /\ \A pc \in {"rest", "getAll", "closing"}, names \in Lists :
              thread' = [thread EXCEPT ![t].pc = pc, ![t].names = names] => Moved(t, pc, names)
         /\ thread' = [thread EXCEPT ![t] = Resting] => Moved(t, "rest", <<>>)
<1>1. thread[t] \in Doing /\ thread \in [Threads -> Doing]
  BY DEF TypeInv
<1>2. ASSUME NEW pc \in {"rest", "getAll", "closing"}, Now(t, pc)
      PROVE  Moved(t, pc, thread[t].names)
  BY <1>1, <1>2 DEF Now, Moved, Doing
<1>3. ASSUME thread[t].names # <<>>, thread' = [thread EXCEPT ![t].names = Tail(@)]
      PROVE  Moved(t, thread[t].pc, Tail(thread[t].names))
  <2>1. Tail(thread[t].names) \in Lists
    BY <1>1, <1>3 DEF Doing, Lists
  <2> QED
    BY <1>1, <1>3, <2>1 DEF Moved, Doing
<1>4. ASSUME NEW pc \in {"rest", "getAll", "closing"}, NEW names \in Lists,
             thread' = [thread EXCEPT ![t].pc = pc, ![t].names = names]
      PROVE  Moved(t, pc, names)
  BY <1>1, <1>4 DEF Moved, Doing
<1>5. ASSUME thread' = [thread EXCEPT ![t] = Resting] PROVE Moved(t, "rest", <<>>)
  <2>1. Resting \in Doing /\ Resting.pc = "rest" /\ Resting.names = <<>>
    BY DEF Resting, Doing, Lists
  <2> QED
    BY <1>1, <1>5, <2>1 DEF Moved
<1> QED
  BY <1>2, <1>3, <1>4, <1>5

(* One more instance, built from the configuration last given. *)
LEMMA BuildFacts ==
  ASSUME TypeInv, NEW n \in Names, Build(n)
  PROVE  /\ made' \in Seq(Made) /\ Len(made') <= MaxBuilt /\ Len(made') = Len(made) + 1
         /\ Len(made') \in Ids
         /\ \A i \in 1 .. Len(made) : made'[i] = made[i]
         /\ made'[Len(made')] = [name |-> n, config |-> config[n]]
         /\ instances' \in [Names -> Ids \cup {None}]
         /\ instances'[n] = Len(made')
         /\ \A m \in Names \ {n} : instances'[m] = instances[m]
<1> DEFINE new == [name |-> n, config |-> config[n]]
<1>1. new \in Made
  BY DEF TypeInv, Made
<1>2. made \in Seq(Made) /\ Len(made) \in Nat /\ made' = Append(made, new) /\ Len(made) < MaxBuilt
  BY DEF TypeInv, Build
<1> HIDE DEF new
<1>3. /\ made' \in Seq(Made) /\ Len(made') = Len(made) + 1
      /\ \A i \in 1 .. Len(made) : made'[i] = made[i]
      /\ made'[Len(made) + 1] = new
  BY <1>1, <1>2
<1>4. Len(made') \in Ids /\ Len(made') <= MaxBuilt
  BY <1>2, <1>3, InstanceAssumption DEF Ids
<1>5. instances' = [instances EXCEPT ![n] = Len(made')] /\ instances \in [Names -> Ids \cup {None}]
  BY DEF Build, TypeInv
<1> QED
  BY <1>3, <1>4, <1>5 DEF new

(* What get does: it builds for a name that has nothing kept, or leaves what is kept
   alone; either way only this thread moves, and it starts closing nothing. *)
LEMMA ObtainFacts ==
  ASSUME TypeInv, NEW t \in Threads, NEW n, Obtain(t, n),
         Free(t) \/ (thread[t].pc = "getAll" /\ thread[t].names # <<>>)
  PROVE  /\ thread' \in [Threads -> Doing] /\ thread'[t].pc # "closing" /\ thread[t].pc # "closing"
         /\ \A u \in Threads \ {t} : thread'[u] = thread[u]
         /\ \/ UNCHANGED <<instances, made>>
            \/ n \in Names /\ enabled[n] /\ instances[n] = None /\ Build(n)
<1> DEFINE got == IF Free(t) THEN UNCHANGED thread
                  ELSE thread' = [thread EXCEPT ![t].names = Tail(@)]
           raise == thread' = [thread EXCEPT ![t] = Resting]
<1>1. \/ raise /\ UNCHANGED <<instances, made>>
      \/ got /\ UNCHANGED <<instances, made>>
      \/ n \in EnabledNames /\ instances[n] = None /\ Build(n) /\ got
  BY DEF Obtain
<1>2. got \/ raise
  BY <1>1
<1>3. /\ thread' \in [Threads -> Doing] /\ thread'[t].pc # "closing" /\ thread[t].pc # "closing"
      /\ \A u \in Threads \ {t} : thread'[u] = thread[u]
  <2>1. CASE raise
    <3>1. Moved(t, "rest", <<>>)
      BY <2>1, ThreadMoves
    <3> QED
      BY <3>1 DEF Moved, Free
  <2>2. CASE Free(t) /\ got
    BY <2>2 DEF TypeInv, Free
  <2>3. CASE ~Free(t) /\ got
    <3>1. Moved(t, thread[t].pc, Tail(thread[t].names))
      BY <2>3, ThreadMoves
    <3> QED
      BY <2>3, <3>1 DEF Moved, Free
  <2> QED
    BY <1>2, <2>1, <2>2, <2>3
<1>4. n \in EnabledNames => n \in Names /\ enabled[n]
  BY DEF EnabledNames
<1> QED
  BY <1>1, <1>3, <1>4

(* What is kept, as a sequence to be closed. *)
LEMMA KeptFacts ==
  ASSUME TypeInv, NEW kept, kept = {instances[n] : n \in Names} \ {None}
  PROVE  /\ SetToSeq(kept) \in Seq(kept) /\ SetToSeq(kept) \in Seq(Ids) /\ SetToSeq(kept) \in Lists
         /\ \A i, j \in 1 .. Len(SetToSeq(kept)) : SetToSeq(kept)[i] = SetToSeq(kept)[j] => i = j
<1>1. kept \subseteq Ids
  BY DEF TypeInv
<1>2. IsFiniteSet(Ids)
  <2>1. 1 \in Int /\ MaxBuilt \in Int
    BY InstanceAssumption
  <2>2. IsFiniteSet(1 .. MaxBuilt)
    BY ONLY <2>1, FS_Interval
  <2> QED
    BY <2>2 DEF Ids
<1>3. IsFiniteSet(kept)
  BY <1>1, <1>2, FS_Subset
<1>4. SetToSeq(kept) \in Seq(kept)
  BY <1>3, SetToSeqFacts
<1>5. SetToSeq(kept) \in Seq(Ids) /\ SetToSeq(kept) \in Lists
  <2> DEFINE s == SetToSeq(kept)
  <2> HIDE DEF s
  <2>1. s \in Seq(kept)
    BY <1>4 DEF s
  <2>2. s \in Seq(Ids)
    BY <2>1, <1>1
  <2>3. s \in Seq(Names \cup Ids)
    BY <2>2
  <2> QED
    BY <2>2, <2>3 DEF s, Lists
<1> QED
  BY <1>3, <1>4, <1>5, SetToSeqFacts

LEMMA NamesListed ==
  ASSUME TRUE
  PROVE  SetToSeq(EnabledNames) \in Lists
<1>1. IsFiniteSet(EnabledNames)
  BY InstanceAssumption, FS_Subset DEF EnabledNames
<1> DEFINE s == SetToSeq(EnabledNames)
<1>2. s \in Seq(EnabledNames)
  BY <1>1, SetToSeqFacts
<1> HIDE DEF s
<1>3. s \in Seq(Names \cup Ids)
  BY <1>2 DEF EnabledNames
<1> QED
  BY <1>3 DEF s, Lists

----------------------------------------------------------------------------
(* A get, and the next step of a get_all. *)
Obtains(t, n) ==
  /\ Obtain(t, n) /\ UNCHANGED <<plugins, enabled, config, closes>>
  /\ Free(t) \/ (thread[t].pc = "getAll" /\ thread[t].names # <<>>)

LEMMA NextGets ==
  ASSUME NEW t \in Threads, GetNext(t)
  PROVE  \/ Obtains(t, Head(thread[t].names))
         \/ thread[t].pc = "getAll" /\ Now(t, "rest") /\ UNCHANGED <<plugins, enabled, config, instances, made, closes>>
  BY DEF GetNext, Obtains

LEMMA TypeInit == RegistryInit => TypeInv
<1> SUFFICES ASSUME RegistryInit PROVE TypeInv
  OBVIOUS
<1>1. Resting \in Doing
  BY DEF Resting, Doing, Lists
<1>2. Len(made) <= MaxBuilt /\ made \in Seq(Made)
  BY InstanceAssumption DEF RegistryInit
<1> QED
  BY <1>1, <1>2 DEF RegistryInit, TypeInv

LEMMA RegistryTypeStep == TypeInv /\ [RegistryNext]_registryVars => TypeInv'
<1> SUFFICES ASSUME TypeInv, [RegistryNext]_registryVars PROVE TypeInv'
  OBVIOUS
<1>1. ASSUME NEW t \in Threads, NEW n \in Names, NEW c \in Configs, Configure(t, n, c)
      PROVE  TypeInv'
  BY <1>1 DEF Configure, TypeInv
<1>2. ASSUME NEW t \in Threads, NEW n \in Names, Enable(t, n) \/ Disable(t, n)
      PROVE  TypeInv'
  BY <1>2 DEF Enable, Disable, TypeInv
<1>3. ASSUME NEW t \in Threads, NEW n, Obtains(t, n)
      PROVE  TypeInv'
  <2>1. thread' \in [Threads -> Doing]
    BY <1>3, ObtainFacts DEF Obtains
  <2>2. CASE UNCHANGED <<instances, made>>
    BY <1>3, <2>1, <2>2 DEF Obtains, TypeInv
  <2>3. CASE n \in Names /\ Build(n)
    <3>1. /\ made' \in Seq(Made) /\ Len(made') <= MaxBuilt
          /\ instances' \in [Names -> Ids \cup {None}]
      BY <2>3, BuildFacts
    <3> QED
      BY <1>3, <2>1, <3>1 DEF Obtains, TypeInv
  <2> QED
    BY <1>3, <2>2, <2>3, ObtainFacts DEF Obtains
<1>4. ASSUME NEW t \in Threads, GetNext(t), ~Obtains(t, Head(thread[t].names))
      PROVE  TypeInv'
  <2>1. thread[t].pc = "getAll" /\ Now(t, "rest") /\ UNCHANGED <<plugins, enabled, config, instances, made, closes>>
    BY <1>4, NextGets
  <2>2. Moved(t, "rest", thread[t].names)
    BY <2>1, ThreadMoves
  <2> QED
    BY <2>1, <2>2 DEF Moved, TypeInv
<1>5. ASSUME NEW t \in Threads, GetAll(t)
      PROVE  TypeInv'
  <2>1. Moved(t, "getAll", SetToSeq(EnabledNames))
    BY <1>5, ThreadMoves, NamesListed DEF GetAll
  <2> QED
    BY <1>5, <2>1 DEF Moved, TypeInv, GetAll
<1>6. ASSUME NEW t \in Threads, Close(t)
      PROVE  TypeInv'
  <2> DEFINE kept == {instances[n] : n \in Names} \ {None}
  <2>1. SetToSeq(kept) \in Lists
    BY KeptFacts
  <2>2. Moved(t, "closing", SetToSeq(kept))
    BY <1>6, <2>1, ThreadMoves DEF Close
  <2> QED
    BY <1>6, <2>2 DEF Moved, TypeInv, Close
<1>7. ASSUME NEW t \in Threads, CloseNext(t)
      PROVE  TypeInv'
  <2>1. CASE thread[t].names = <<>>
    <3>1. Now(t, "rest") /\ UNCHANGED closes
      BY <1>7, <2>1 DEF CloseNext
    <3>2. Moved(t, "rest", thread[t].names)
      BY <3>1, ThreadMoves
    <3> QED
      BY <1>7, <3>1, <3>2 DEF Moved, TypeInv, CloseNext
  <2>2. CASE thread[t].names # <<>>
    <3>1. /\ closes' = [closes EXCEPT ![Head(thread[t].names)] = @ + 1]
          /\ thread' = [thread EXCEPT ![t].names = Tail(@)]
      BY <1>7, <2>2 DEF CloseNext
    <3>2. Moved(t, thread[t].pc, Tail(thread[t].names))
      BY <2>2, <3>1, ThreadMoves
    <3>3. closes' \in [Ids -> Nat]
      <4> DEFINE h == Head(thread[t].names)
      <4>1. h \in Ids => closes[h] + 1 \in Nat
        BY DEF TypeInv
      <4>2. closes' = [closes EXCEPT ![h] = closes[h] + 1] /\ closes \in [Ids -> Nat]
        BY <3>1 DEF TypeInv
      <4> HIDE DEF h
      <4> QED
        BY <4>1, <4>2
    <3> QED
      BY <1>7, <3>2, <3>3 DEF Moved, TypeInv, CloseNext
  <2> QED
    BY <2>1, <2>2
<1>8. ASSUME NEW t \in Threads, NEW n \in Names, Get(t, n)
      PROVE  TypeInv'
  <2>1. Obtains(t, n)
    BY <1>8 DEF Get, Obtains
  <2> QED
    BY <2>1, <1>3
<1>9. ASSUME UNCHANGED registryVars PROVE TypeInv'
  BY <1>9 DEF registryVars, TypeInv
<1> QED
  BY <1>1, <1>2, <1>3, <1>4, <1>5, <1>6, <1>7, <1>8, <1>9, RegistryCases

----------------------------------------------------------------------------
(* A step that keeps what was built and changes nothing of what is kept but to
   drop it. *)
LEMMA Dropped ==
  ASSUME TypeInv, Current, made' = made,
         \A m \in Names : instances'[m] = None
            \/ (instances'[m] = instances[m] /\ enabled'[m] = enabled[m] /\ config'[m] = config[m])
  PROVE  Current'
<1> SUFFICES ASSUME NEW m \in Names, instances'[m] # None
             PROVE  /\ instances'[m] <= Len(made') /\ enabled'[m]
                    /\ made'[instances'[m]] = [name |-> m, config |-> config'[m]]
  BY DEF Current
<1>1. instances'[m] = instances[m] /\ enabled'[m] = enabled[m] /\ config'[m] = config[m]
  OBVIOUS
<1> QED
  BY <1>1 DEF Current

LEMMA Built ==
  ASSUME TypeInv, Current, NEW n \in Names, Build(n), enabled[n], UNCHANGED <<enabled, config>>
  PROVE  Current'
<1> SUFFICES ASSUME NEW m \in Names, instances'[m] # None
             PROVE  /\ instances'[m] <= Len(made') /\ enabled'[m]
                    /\ made'[instances'[m]] = [name |-> m, config |-> config'[m]]
  BY DEF Current
<1>1. CASE m = n
  <2>1. instances'[n] = Len(made') /\ made'[Len(made')] = [name |-> n, config |-> config[n]]
    BY BuildFacts
  <2>2. Len(made') \in Nat
    BY BuildFacts
  <2> QED
    BY <1>1, <2>1, <2>2
<1>2. CASE m # n
  <2>1. instances'[m] = instances[m]
    BY <1>2, BuildFacts
  <2>2. instances[m] \in 1 .. Len(made) /\ Len(made) \in Nat
    <3>1. Len(made) \in Nat
      BY DEF TypeInv
    <3>2. instances[m] \in Ids /\ instances[m] <= Len(made)
      BY <2>1 DEF Current, TypeInv
    <3> QED
      BY <3>1, <3>2, InstanceAssumption DEF Ids
  <2>3. made'[instances[m]] = made[instances[m]] /\ Len(made') = Len(made) + 1
    BY <2>2, BuildFacts
  <2>4. made[instances[m]] = [name |-> m, config |-> config[m]] /\ enabled[m]
    BY <2>1 DEF Current
  <2> QED
    BY <2>1, <2>2, <2>3, <2>4
<1> QED
  BY <1>1, <1>2

LEMMA CurrentStep == TypeInv /\ Current /\ [RegistryNext]_registryVars => Current'
<1> SUFFICES ASSUME TypeInv, Current, [RegistryNext]_registryVars PROVE Current'
  OBVIOUS
<1>1. ASSUME NEW t \in Threads, NEW n \in Names, NEW c \in Configs, Configure(t, n, c)
      PROVE  Current'
  BY <1>1, Dropped DEF Configure, TypeInv
<1>2. ASSUME NEW t \in Threads, NEW n \in Names, Enable(t, n)
      PROVE  Current'
  <2>1. \A m \in Names : instances'[m] # None => enabled'[m] /\ instances'[m] = instances[m]
    BY <1>2 DEF Enable, TypeInv, Current
  <2> QED
    BY <1>2, <2>1 DEF Enable, Current
<1>3. ASSUME NEW t \in Threads, NEW n \in Names, Disable(t, n)
      PROVE  Current'
  BY <1>3, Dropped DEF Disable, TypeInv
<1>4. ASSUME NEW t \in Threads, NEW n, Obtains(t, n)
      PROVE  Current'
  <2>1. CASE UNCHANGED <<instances, made>>
    BY <1>4, <2>1, Dropped DEF Obtains
  <2>2. CASE n \in Names /\ enabled[n] /\ Build(n)
    BY <1>4, <2>2, Built DEF Obtains
  <2> QED
    BY <1>4, <2>1, <2>2, ObtainFacts DEF Obtains
<1>5. ASSUME NEW t \in Threads, GetAll(t) \/ CloseNext(t)
      PROVE  Current'
  BY <1>5, Dropped DEF GetAll, CloseNext
<1>6. ASSUME NEW t \in Threads, Close(t)
      PROVE  Current'
  BY <1>6, Dropped DEF Close
<1>7. ASSUME NEW t \in Threads, GetNext(t)
      PROVE  Current'
  <2>1. CASE UNCHANGED <<plugins, enabled, config, instances, made, closes>>
    BY <2>1, Dropped
  <2> QED
    BY <1>4, <1>7, <2>1, NextGets
<1>8. ASSUME NEW t \in Threads, NEW n \in Names, Get(t, n)
      PROVE  Current'
  <2>1. Obtains(t, n)
    BY <1>8 DEF Get, Obtains
  <2> QED
    BY <2>1, <1>4
<1>9. ASSUME UNCHANGED registryVars PROVE Current'
  BY <1>9, Dropped DEF registryVars
<1> QED
  BY <1>1, <1>2, <1>3, <1>4, <1>5, <1>6, <1>7, <1>8, <1>9, RegistryCases

----------------------------------------------------------------------------
LEMMA ClosesInit == RegistryInit => Closes
<1> SUFFICES ASSUME RegistryInit PROVE Closes
  OBVIOUS
<1>1. \A t \in Threads : Todo(t) = <<>>
  BY DEF RegistryInit, Todo, Resting
<1>2. ASSUME NEW t \in Threads PROVE Closing(t)
  <2>1. <<>> \in Seq(Ids) /\ 1 .. Len(<<>>) = {}
    OBVIOUS
  <2>2. Todo(t) = <<>>
    BY <1>1
  <2> QED
    BY <2>1, <2>2 DEF Closing
<1>3. \A t, u \in Threads : ~Shared(t, u)
  BY <1>1 DEF Shared
<1> QED
  BY <1>2, <1>3 DEF RegistryInit, Closes

(* A step that closes nothing and takes nothing to be closed: what it keeps it kept
   before, or has just built. *)
LEMMA NothingClosed ==
  ASSUME TypeInv, Closes, closes' = closes, \A u \in Threads : Todo(u)' = Todo(u),
         NEW more \in {0, 1}, Len(made') = Len(made) + more,
         \A m \in Names : \/ instances'[m] = None \/ instances'[m] = instances[m]
                          \/ more = 1 /\ instances'[m] = Len(made) + 1 /\ Len(made) + 1 \in Ids
  PROVE  Closes'
<1>1. Len(made) \in Nat /\ \A i \in Ids : i \in Nat
  BY InstanceAssumption DEF TypeInv, Ids
<1>2. ASSUME NEW t \in Threads PROVE Closing(t)'
  <2> DEFINE todo == Todo(t)
  <2>1. todo \in Seq(Ids) /\ Closing(t) /\ Todo(t)' = todo
    BY DEF Closes, Closing
  <2> HIDE DEF todo
  <2>2. ASSUME NEW i \in 1 .. Len(todo)
        PROVE  /\ todo[i] <= Len(made') /\ closes'[todo[i]] = 0
               /\ \A n \in Names : instances'[n] # todo[i]
    <3>1. todo[i] \in Ids
      BY <2>1
    <3>2. /\ todo[i] <= Len(made) /\ closes[todo[i]] = 0
          /\ \A n \in Names : instances[n] # todo[i]
      BY <2>1 DEF Closing, todo
    <3>3. todo[i] \in Nat /\ todo[i] # None
      BY <3>1, <1>1, InstanceAssumption
    <3> QED
      BY <1>1, <3>2, <3>3
  <2>3. \A i, j \in 1 .. Len(todo) : todo[i] = todo[j] => i = j
    BY <2>1 DEF Closing, todo
  <2> QED
    BY <2>1, <2>2, <2>3 DEF Closing
<1>3. ASSUME NEW t \in Threads, NEW u \in Threads, t # u PROVE ~Shared(t, u)'
  <2>1. Todo(t)' = Todo(t) /\ Todo(u)' = Todo(u)
    OBVIOUS
  <2>2. ~Shared(t, u)
    BY <1>3 DEF Closes
  <2> QED
    BY <2>1, <2>2 DEF Shared
<1>4. \A i \in Ids : closes'[i] <= 1 /\ (closes'[i] > 0 => i <= Len(made'))
  BY <1>1 DEF Closes
<1>5. ASSUME NEW n \in Names, instances'[n] # None PROVE closes'[instances'[n]] = 0
  <2>1. CASE instances'[n] = instances[n]
    BY <1>5, <2>1 DEF Closes
  <2>2. CASE instances'[n] = Len(made) + 1 /\ Len(made) + 1 \in Ids
    <3>1. ~(closes[Len(made) + 1] > 0) /\ closes[Len(made) + 1] \in Nat
      BY <2>2, <1>1 DEF Closes, TypeInv
    <3> QED
      BY <2>2, <3>1
  <2> QED
    BY <1>5, <2>1, <2>2
<1> QED
  BY <1>2, <1>3, <1>4, <1>5 DEF Closes

(* One thread takes out all that is kept: nobody keeps it any more, and what others
   are closing was not kept. *)
LEMMA AllTaken ==
  ASSUME TypeInv, Current, Closes, NEW t \in Threads, Close(t)
  PROVE  Closes'
<1> DEFINE kept == {instances[n] : n \in Names} \ {None}
           todo == SetToSeq(kept)
<1>1. /\ todo \in Seq(kept) /\ todo \in Seq(Ids) /\ todo \in Lists
      /\ \A i, j \in 1 .. Len(todo) : todo[i] = todo[j] => i = j
  BY KeptFacts
<1>2. \A i \in 1 .. Len(todo) : todo[i] \in kept
  <2> HIDE DEF todo, kept
  <2> QED
    BY <1>1
<1>3. \A i \in 1 .. Len(todo) : \E n \in Names : instances[n] # None /\ todo[i] = instances[n]
  BY <1>2
<1>4. Moved(t, "closing", todo)
  BY <1>1, ThreadMoves DEF Close
<1> HIDE DEF todo, kept
<1>5. Todo(t)' = todo /\ \A u \in Threads \ {t} : Todo(u)' = Todo(u)
  BY <1>4 DEF Moved, Todo
<1>6. closes' = closes /\ made' = made /\ \A n \in Names : instances'[n] = None
  BY DEF Close
<1>7. \A i \in Ids : i # None
  BY InstanceAssumption DEF Ids
<1>8. Closing(t)'
  <2>1. ASSUME NEW i \in 1 .. Len(todo)
        PROVE  todo[i] <= Len(made) /\ closes[todo[i]] = 0 /\ todo[i] # None
    <3>1. PICK n \in Names : instances[n] # None /\ todo[i] = instances[n]
      BY <1>3
    <3>2. instances[n] <= Len(made)
      BY <3>1 DEF Current
    <3>3. closes[instances[n]] = 0
      BY <3>1 DEF Closes
    <3> QED
      BY <3>1, <3>2, <3>3
  <2> QED
    BY <1>1, <1>5, <1>6, <2>1 DEF Closing
<1>9. ASSUME NEW u \in Threads, u # t PROVE Closing(u)'
  <2> DEFINE its == Todo(u)
  <2>1. its \in Seq(Ids) /\ Closing(u) /\ Todo(u)' = its
    BY <1>5, <1>9 DEF Closes, Closing
  <2> HIDE DEF its
  <2>2. \A i \in 1 .. Len(its) : its[i] \in Ids
    BY <2>1
  <2>3. \A i \in 1 .. Len(its) : its[i] <= Len(made) /\ closes[its[i]] = 0
    BY <2>1 DEF Closing, its
  <2>4. \A i, j \in 1 .. Len(its) : its[i] = its[j] => i = j
    BY <2>1 DEF Closing, its
  <2> QED
    BY <1>6, <1>7, <2>1, <2>2, <2>3, <2>4 DEF Closing
<1>10. ASSUME NEW u \in Threads, u # t
       PROVE  ~Shared(t, u)' /\ ~Shared(u, t)'
  <2>1. \A j \in 1 .. Len(Todo(u)) : \A n \in Names : instances[n] # Todo(u)[j]
    BY DEF Closes, Closing
  <2>2. Todo(u)' = Todo(u)
    BY <1>5, <1>10
  <2>3. \A i \in 1 .. Len(todo), j \in 1 .. Len(Todo(u)) : todo[i] # Todo(u)[j]
    BY <1>3, <2>1
  <2>4. Todo(t)' = todo
    BY <1>5
  <2>5. ~Shared(t, u)'
    BY <2>2, <2>3, <2>4 DEF Shared
  <2>6. ~Shared(u, t)'
    BY <2>2, <2>3, <2>4 DEF Shared
  <2> QED
    BY <2>5, <2>6
<1>11. ASSUME NEW u \in Threads, NEW v \in Threads, u # v, u # t, v # t
       PROVE  ~Shared(u, v)'
  <2>1. Todo(u)' = Todo(u) /\ Todo(v)' = Todo(v)
    BY <1>5, <1>11
  <2> QED
    BY <2>1, <1>11 DEF Closes, Shared
<1> QED
  BY <1>6, <1>8, <1>9, <1>10, <1>11 DEF Closes

LEMMA TailOnce ==
  ASSUME NEW s \in Seq(Ids), s # <<>>, \A i, j \in 1 .. Len(s) : s[i] = s[j] => i = j
  PROVE  /\ Head(s) = s[1] /\ Head(s) \in Ids /\ 1 \in 1 .. Len(s) /\ Tail(s) \in Seq(Ids)
         /\ \A i \in 1 .. Len(Tail(s)) : /\ i + 1 \in 1 .. Len(s) /\ Tail(s)[i] = s[i + 1]
                                         /\ Tail(s)[i] # Head(s)
         /\ \A i, j \in 1 .. Len(Tail(s)) : Tail(s)[i] = Tail(s)[j] => i = j
<1>1. Len(s) \in Nat /\ Len(s) > 0 /\ Len(Tail(s)) = Len(s) - 1 /\ Tail(s) \in Seq(Ids)
  OBVIOUS
<1>2. Head(s) = s[1] /\ s[1] \in Ids
  OBVIOUS
<1>3. \A i \in 1 .. Len(Tail(s)) : i + 1 \in 1 .. Len(s) /\ Tail(s)[i] = s[i + 1]
  BY <1>1
<1>4. \A i \in 1 .. Len(Tail(s)) : i \in Nat /\ i >= 1
  BY <1>1
<1> QED
  BY <1>1, <1>2, <1>3, <1>4

(* A thread closes the first of those it took: nobody else took it, nobody keeps it. *)
LEMMA OneClosed ==
  ASSUME TypeInv, Closes, NEW t \in Threads, CloseNext(t), thread[t].names # <<>>
  PROVE  Closes'
<1> DEFINE todo == Todo(t)
           h == Head(todo)
<1>1. /\ todo = thread[t].names /\ todo \in Seq(Ids) /\ todo # <<>>
      /\ \A i, j \in 1 .. Len(todo) : todo[i] = todo[j] => i = j
      /\ \A i \in 1 .. Len(todo) :
           /\ todo[i] <= Len(made) /\ closes[todo[i]] = 0
           /\ \A n \in Names : instances[n] # todo[i]
  <2>1. Closing(t)
    BY DEF Closes
  <2>2. todo = thread[t].names
    BY DEF CloseNext, Todo
  <2> QED
    BY <2>1, <2>2 DEF Closing
<1>2. closes' = [closes EXCEPT ![h] = @ + 1] /\ Moved(t, "closing", Tail(todo))
  <2>1. /\ closes' = [closes EXCEPT ![Head(thread[t].names)] = @ + 1]
        /\ thread' = [thread EXCEPT ![t].names = Tail(@)] /\ thread[t].pc = "closing"
    BY DEF CloseNext
  <2>2. Moved(t, "closing", Tail(thread[t].names))
    BY <2>1, ThreadMoves
  <2> QED
    BY <1>1, <2>1, <2>2
<1>3. Todo(t)' = Tail(todo) /\ \A u \in Threads \ {t} : Todo(u)' = Todo(u)
  BY <1>2 DEF Moved, Todo
<1> HIDE DEF todo
<1>4. made' = made /\ instances' = instances
  BY DEF CloseNext
<1>5. /\ h = todo[1] /\ h \in Ids /\ 1 \in 1 .. Len(todo) /\ Tail(todo) \in Seq(Ids)
      /\ \A i \in 1 .. Len(Tail(todo)) : /\ i + 1 \in 1 .. Len(todo) /\ Tail(todo)[i] = todo[i + 1]
                                         /\ Tail(todo)[i] # h
      /\ \A i, j \in 1 .. Len(Tail(todo)) : Tail(todo)[i] = Tail(todo)[j] => i = j
  BY <1>1, TailOnce
<1>6. closes[h] = 0 /\ h <= Len(made) /\ \A n \in Names : instances[n] # h
  BY <1>1, <1>5
<1> HIDE DEF h
<1>7. closes'[h] = 1 /\ \A i \in Ids \ {h} : closes'[i] = closes[i]
  BY <1>2, <1>5, <1>6 DEF TypeInv
<1>8. Closing(t)'
  <2> DEFINE rest == Tail(todo)
  <2>1. ASSUME NEW i \in 1 .. Len(rest)
        PROVE  /\ rest[i] <= Len(made) /\ closes'[rest[i]] = 0
               /\ \A n \in Names : instances[n] # rest[i]
    <3>1. i + 1 \in 1 .. Len(todo) /\ rest[i] = todo[i + 1] /\ rest[i] # h
      BY <1>5
    <3>2. /\ rest[i] <= Len(made) /\ closes[rest[i]] = 0
          /\ \A n \in Names : instances[n] # rest[i]
      BY <1>1, <3>1
    <3>3. rest[i] \in Ids
      BY <1>1, <3>1
    <3> QED
      BY <1>7, <3>1, <3>2, <3>3
  <2> HIDE DEF rest
  <2>2. rest \in Seq(Ids) /\ Todo(t)' = rest /\ \A i, j \in 1 .. Len(rest) : rest[i] = rest[j] => i = j
    BY <1>3, <1>5 DEF rest
  <2> QED
    BY <1>4, <2>1, <2>2 DEF Closing
<1>9. ASSUME NEW u \in Threads, u # t PROVE Closing(u)'
  <2> DEFINE its == Todo(u)
  <2>1. its \in Seq(Ids) /\ Closing(u) /\ Todo(u)' = its
    BY <1>3, <1>9 DEF Closes, Closing
  <2>2. \A i \in 1 .. Len(its) : its[i] # h
    <3>1. ~Shared(t, u)
      BY <1>9 DEF Closes
    <3> QED
      BY <1>5, <3>1 DEF Shared, todo
  <2>3. /\ \A i, j \in 1 .. Len(its) : its[i] = its[j] => i = j
        /\ \A i \in 1 .. Len(its) : /\ its[i] <= Len(made) /\ closes[its[i]] = 0
                                    /\ \A n \in Names : instances[n] # its[i]
    BY <2>1 DEF Closing
  <2> HIDE DEF its
  <2>4. \A i \in 1 .. Len(its) : its[i] \in Ids
    BY <2>1
  <2>5. \A i \in 1 .. Len(its) : closes'[its[i]] = 0
    BY <1>7, <2>2, <2>3, <2>4
  <2> QED
    BY <1>4, <2>1, <2>3, <2>5 DEF Closing
<1>10. ASSUME NEW u \in Threads, u # t
       PROVE  ~Shared(t, u)' /\ ~Shared(u, t)'
  <2>1. Todo(u)' = Todo(u) /\ Todo(t)' = Tail(todo)
    BY <1>3, <1>10
  <2>2. \A i \in 1 .. Len(todo), j \in 1 .. Len(Todo(u)) : todo[i] # Todo(u)[j]
    BY <1>10 DEF Closes, Shared, todo
  <2>3. \A i \in 1 .. Len(Tail(todo)), j \in 1 .. Len(Todo(u)) : Tail(todo)[i] # Todo(u)[j]
    BY <1>5, <2>2
  <2>4. ~Shared(t, u)'
    BY <2>1, <2>3 DEF Shared
  <2>5. ~Shared(u, t)'
    BY <2>1, <2>3 DEF Shared
  <2> QED
    BY <2>4, <2>5
<1>11. ASSUME NEW u \in Threads, NEW v \in Threads, u # v, u # t, v # t
       PROVE  ~Shared(u, v)'
  <2>1. Todo(u)' = Todo(u) /\ Todo(v)' = Todo(v)
    BY <1>3, <1>11
  <2> QED
    BY <2>1, <1>11 DEF Closes, Shared
<1>12. \A i \in Ids : closes'[i] <= 1 /\ (closes'[i] > 0 => i <= Len(made'))
  BY <1>4, <1>6, <1>7 DEF Closes
<1>13. ASSUME NEW n \in Names, instances'[n] # None PROVE closes'[instances'[n]] = 0
  <2>1. instances[n] \in Ids /\ instances[n] # h /\ closes[instances[n]] = 0
    BY <1>4, <1>6, <1>13 DEF TypeInv, Closes
  <2> QED
    BY <1>4, <1>7, <2>1
<1> QED
  BY <1>8, <1>9, <1>10, <1>11, <1>12, <1>13 DEF Closes

LEMMA ClosesStep == TypeInv /\ Current /\ Closes /\ [RegistryNext]_registryVars => Closes'
<1> SUFFICES ASSUME TypeInv, Current, Closes, [RegistryNext]_registryVars PROVE Closes'
  OBVIOUS
<1>1. Len(made) \in Nat
  BY DEF TypeInv
<1>2. ASSUME closes' = closes, made' = made, \A u \in Threads : Todo(u)' = Todo(u),
             \A m \in Names : instances'[m] = None \/ instances'[m] = instances[m]
      PROVE  Closes'
  <2>1. Len(made') = Len(made) + 0
    BY <1>1, <1>2
  <2> QED
    BY <1>2, <2>1, NothingClosed
<1>3. ASSUME NEW t \in Threads, NEW n \in Names, NEW c \in Configs, Configure(t, n, c)
      PROVE  Closes'
  BY <1>2, <1>3 DEF Configure, TypeInv, Todo
<1>4. ASSUME NEW t \in Threads, NEW n \in Names, Enable(t, n) \/ Disable(t, n)
      PROVE  Closes'
  BY <1>2, <1>4 DEF Enable, Disable, TypeInv, Todo
<1>5. ASSUME NEW t \in Threads, NEW n, Obtains(t, n)
      PROVE  Closes'
  <2>1. closes' = closes /\ \A u \in Threads : Todo(u)' = Todo(u)
    BY <1>5, ObtainFacts DEF Obtains, Todo
  <2>2. CASE UNCHANGED <<instances, made>>
    BY <1>2, <2>1, <2>2
  <2>3. CASE n \in Names /\ Build(n)
    <3>1. /\ Len(made') = Len(made) + 1 /\ Len(made) + 1 \in Ids /\ instances'[n] = Len(made) + 1
          /\ \A m \in Names \ {n} : instances'[m] = instances[m]
      BY <2>3, BuildFacts
    <3> QED
      BY <2>1, <3>1, NothingClosed
  <2> QED
    BY <1>5, <2>2, <2>3, ObtainFacts DEF Obtains
<1>6. ASSUME NEW t \in Threads, GetAll(t)
      PROVE  Closes'
  <2>1. Moved(t, "getAll", SetToSeq(EnabledNames)) /\ thread[t].pc = "rest"
    BY <1>6, ThreadMoves, NamesListed DEF GetAll, Free
  <2>2. \A u \in Threads : Todo(u)' = Todo(u)
    BY <2>1 DEF Moved, Todo
  <2> QED
    BY <1>2, <1>6, <2>2 DEF GetAll
<1>7. ASSUME NEW t \in Threads, GetNext(t)
      PROVE  Closes'
  <2>1. CASE /\ thread[t].pc = "getAll" /\ Now(t, "rest")
             /\ UNCHANGED <<plugins, enabled, config, instances, made, closes>>
    <3>1. Moved(t, "rest", thread[t].names)
      BY <2>1, ThreadMoves
    <3>2. \A u \in Threads : Todo(u)' = Todo(u)
      BY <2>1, <3>1 DEF Moved, Todo
    <3> QED
      BY <1>2, <2>1, <3>2
  <2> QED
    BY <1>5, <1>7, <2>1, NextGets
<1>8. ASSUME NEW t \in Threads, CloseNext(t)
      PROVE  Closes'
  <2>1. CASE thread[t].names = <<>>
    <3>1. Now(t, "rest") /\ thread[t].pc = "closing" /\ UNCHANGED <<closes, instances, made>>
      BY <1>8, <2>1 DEF CloseNext
    <3>2. Moved(t, "rest", thread[t].names)
      BY <3>1, ThreadMoves
    <3>3. \A u \in Threads : Todo(u)' = Todo(u)
      BY <2>1, <3>1, <3>2 DEF Moved, Todo
    <3> QED
      BY <1>2, <3>1, <3>3
  <2> QED
    BY <1>8, <2>1, OneClosed
<1>9. ASSUME NEW t \in Threads, NEW n \in Names, Get(t, n)
      PROVE  Closes'
  <2>1. Obtains(t, n)
    BY <1>9 DEF Get, Obtains
  <2> QED
    BY <1>5, <2>1
<1>10. ASSUME UNCHANGED registryVars PROVE Closes'
  BY <1>2, <1>10 DEF registryVars, Todo
<1> QED
  BY <1>3, <1>4, <1>6, <1>7, <1>8, <1>9, <1>10, AllTaken, RegistryCases

----------------------------------------------------------------------------
RegistryInv == TypeInv /\ Current /\ Closes

(* The inductive invariant: what is kept was built from the configuration last given,
   and the threads that shut the registry down took disjoint sets of instances, none
   of them kept or closed already. *)
THEOREM RegistryInvariant == RegistrySpec => []RegistryInv
<1>1. RegistryInit => RegistryInv
  <2>1. RegistryInit => Current
    BY DEF RegistryInit, Current
  <2> QED
    BY <2>1, TypeInit, ClosesInit DEF RegistryInv
<1>2. RegistryInv /\ [RegistryNext]_registryVars => RegistryInv'
  BY RegistryTypeStep, CurrentStep, ClosesStep DEF RegistryInv
<1> QED
  BY <1>1, <1>2, PTL DEF RegistrySpec

(* Whoever gets a plugin gets the instance of its current configuration, and only
   while it is enabled (PluginRegistry.get, configure and disable). *)
THEOREM InstancesAreCurrent == RegistrySpec => []KeptIsCurrent
<1>1. RegistryInv => KeptIsCurrent
  BY DEF RegistryInv, Current, KeptIsCurrent
<1> QED
  BY <1>1, RegistryInvariant, PTL

(* However many threads shut the registry down, an instance is closed at most once
   and never handed out afterwards (PluginRegistry.aclose). *)
THEOREM ClosedOnce == RegistrySpec => []ClosedIsForgotten
<1>1. RegistryInv => ClosedIsForgotten
  BY DEF RegistryInv, Closes, ClosedIsForgotten
<1> QED
  BY <1>1, RegistryInvariant, PTL

(* An instance that is kept is replaced by nothing but None: a get that finds one
   never builds another (PluginRegistry.get builds under the lock). *)
THEOREM BuiltAtMostOnce == RegistrySpec => BuiltOnce
<1> DEFINE Kept == \A n \in Names : instances[n] # None /\ instances'[n] # instances[n]
                                    => instances'[n] = None
<1>1. TypeInv /\ [RegistryNext]_registryVars => Kept
  <2> SUFFICES ASSUME TypeInv, [RegistryNext]_registryVars PROVE Kept
    OBVIOUS
  <2>1. ASSUME NEW t \in Threads, NEW n \in Names, NEW c \in Configs, Configure(t, n, c)
        PROVE  Kept
    BY <2>1 DEF Configure, TypeInv
  <2>2. ASSUME NEW t \in Threads, NEW n \in Names, Enable(t, n) \/ Disable(t, n)
        PROVE  Kept
    BY <2>2 DEF Enable, Disable, TypeInv
  <2>3. ASSUME NEW t \in Threads, NEW n, Obtains(t, n)
        PROVE  Kept
    <3>1. \/ UNCHANGED <<instances, made>>
          \/ n \in Names /\ instances[n] = None /\ Build(n)
      BY <2>3, ObtainFacts DEF Obtains
    <3> QED
      BY <3>1, BuildFacts
  <2>4. ASSUME NEW t \in Threads, GetNext(t)
        PROVE  Kept
    BY <2>3, <2>4, NextGets
  <2>5. ASSUME NEW t \in Threads, NEW n \in Names, Get(t, n)
        PROVE  Kept
    <3>1. Obtains(t, n)
      BY <2>5 DEF Get, Obtains
    <3> QED
      BY <2>3, <3>1
  <2>6. ASSUME NEW t \in Threads, GetAll(t) \/ Close(t) \/ CloseNext(t)
        PROVE  Kept
    BY <2>6 DEF GetAll, Close, CloseNext
  <2>7. ASSUME UNCHANGED registryVars PROVE Kept
    BY <2>7 DEF registryVars
  <2> QED
    BY <2>1, <2>2, <2>4, <2>5, <2>6, <2>7, RegistryCases
<1>2. RegistryInv /\ [RegistryNext]_registryVars => Kept
  BY <1>1 DEF RegistryInv
<1> QED
  BY <1>2, RegistryInvariant, PTL DEF RegistrySpec, BuiltOnce

----------------------------------------------------------------------------
(* TokenVerification. *)
\* A request returns with a key, for a token or for an answer.
Signs(m, k) ==
  /\ Returns(m, k)
  /\ tokens' = tokens \cup {[kid |-> k, exp |-> now + TokenLife]}
  /\ UNCHANGED serviceVars

Answers(q, k) ==
  /\ Asking(q)
  /\ Returns(q, k)
  /\ fetch' = [fetch EXCEPT ![q].answer = Published']
  /\ UNCHANGED <<tokens, keys, fetchedAt>>

\* The steps of the system, by what they do.
LEMMA NextCases ==
  ASSUME [Next]_vars
  PROVE  \/ \E m \in Minters : (Find(m) \/ Miss(m)) /\ UNCHANGED serviceVars
         \/ \E q \in Readers : (Find(q) \/ Miss(q)) /\ Asking(q) /\ UNCHANGED serviceVars
         \/ \E m \in Minters, k \in Kids : Signs(m, k)
         \/ \E q \in Readers, k \in Kids : Answers(q, k)
         \/ \E q \in Readers, kid \in Presentable : Ask(q, kid)
         \/ \E q \in Readers : Apply(q)
         \/ \E q \in Readers : FetchFails(q)
         \/ RedeployWeb
         \/ Pass
         \/ UNCHANGED vars
<1>1. ASSUME NEW m \in Minters, Mint(m), UNCHANGED serviceVars
      PROVE  \/ (Find(m) \/ Miss(m)) /\ UNCHANGED serviceVars
             \/ \E k \in Kids : Signs(m, k)
  BY <1>1 DEF Mint, Signs
<1>2. ASSUME NEW q \in Readers, Publish(q)
      PROVE  \/ (Find(q) \/ Miss(q)) /\ Asking(q) /\ UNCHANGED serviceVars
             \/ \E k \in Kids : Answers(q, k)
  BY <1>2 DEF Publish, Answers, serviceVars
<1> QED
  BY <1>1, <1>2 DEF Next
-----------------------------------------------------------------------------
\* Looking for a key keeps the shape of the requests.
LEMMA WaitType ==
  ASSUME TypeOK, NEW c \in Callers, Find(c) \/ Miss(c)
  PROVE  /\ call' \in [Callers -> Call \cup {NoCall}]
         /\ \A d \in Callers \ {c} : call'[d] = call[d]
         /\ UNCHANGED <<now, secret, stored, created, sealed, active, tokens>>
<1>1. CASE Find(c)
  <2>1. PICK k \in stored :
          call' = [call EXCEPT ![c] = [step |-> "found", kid |-> k, began |-> now]]
    BY <1>1 DEF Find
  <2>2. [step |-> "found", kid |-> k, began |-> now] \in Call
    BY DEF TypeOK, Call
  <2> QED
    BY <1>1, <2>1, <2>2 DEF Find, TypeOK
<1>2. CASE Miss(c)
  <2>1. call' = [call EXCEPT ![c] = [step |-> "create", began |-> now]]
    BY <1>2 DEF Miss
  <2>2. [step |-> "create", began |-> now] \in Call
    BY DEF TypeOK, Call
  <2> QED
    BY <1>2, <2>1, <2>2 DEF Miss, TypeOK
<1> QED
  BY <1>1, <1>2

\* A request in activeSigningKey, by its step.
LEMMA CallShape ==
  ASSUME TypeOK, NEW c \in Callers
  PROVE  /\ call[c].step = "found" =>
              call[c].kid \in Kids /\ call[c].began \in Nat /\ call[c] # NoCall
         /\ call[c].step = "create" => call[c].began \in Nat /\ call[c] # NoCall
         /\ call[c] # NoCall =>
              call[c].step \in {"found", "create"} /\ call[c].began \in Nat
  BY DEF TypeOK, Call, NoCall

\* A returned key keeps the shape of the tables and the cache, and ends the call.
LEMMA ReturnsType ==
  ASSUME TypeOK, NEW c \in Callers, NEW k \in Kids, Returns(c, k)
  PROVE  /\ now' = now /\ secret' = secret
         /\ stored' \subseteq Kids
         /\ created' \in [Kids -> Nat \cup {-1}]
         /\ sealed' \in [Kids -> 1 .. Secrets]
         /\ active' \in [Processes -> Cached \cup {NoKey}]
         /\ call' \in [Callers -> Call \cup {NoCall}]
         /\ call'[c] = NoCall
         /\ \A d \in Callers \ {c} : call'[d] = call[d]
<1> USE SigningAssumption
<1>1. CASE Reuse(c, k)
  BY <1>1 DEF Reuse, TypeOK
<1>2. ASSUME Keep(c, k), call[c].step \in {"found", "create"}
      PROVE  /\ active' \in [Processes -> Cached \cup {NoKey}]
             /\ call' \in [Callers -> Call \cup {NoCall}]
             /\ call'[c] = NoCall
             /\ \A d \in Callers \ {c} : call'[d] = call[d]
  <2>1. call[c].began + CacheFor \in Nat
    BY <1>2, CallShape
  <2>2. [kid |-> k, until |-> call[c].began + CacheFor] \in Cached
    BY <2>1 DEF Cached
  <2> QED
    BY <1>2, <2>2 DEF Keep, TypeOK
<1>3. CASE Adopt(c, k)
  BY <1>2, <1>3 DEF Adopt, TypeOK
<1>4. CASE Create(c, k)
  <2>1. stored' \subseteq Kids
    BY <1>4 DEF Create, Undeleted, TypeOK
  <2> QED
    BY <1>2, <1>4, <2>1 DEF Create, TypeOK
<1> QED
  BY <1>1, <1>3, <1>4 DEF Returns

\* Every step keeps the shape of the state.
LEMMA TypeStep ==
  ASSUME TypeOK, [Next]_vars
  PROVE  TypeOK'
<1> USE SigningAssumption, VerificationAssumption DEF Callers
<1>1. CASE \E m \in Minters : (Find(m) \/ Miss(m)) /\ UNCHANGED serviceVars
  BY <1>1, WaitType DEF TypeOK, serviceVars, Asking
<1>2. CASE \E q \in Readers : (Find(q) \/ Miss(q)) /\ Asking(q) /\ UNCHANGED serviceVars
  BY <1>2, WaitType DEF TypeOK, serviceVars, Asking
<1>3. CASE \E m \in Minters, k \in Kids : Signs(m, k)
  <2>1. PICK m \in Minters, k \in Kids : Signs(m, k)
    BY <1>3
  <2>2. [kid |-> k, exp |-> now + TokenLife] \in Token
    BY DEF TypeOK, Token
  <2>3. tokens' \subseteq Token
    BY <2>1, <2>2 DEF Signs, TypeOK
  <2> QED
    BY <2>1, <2>3, ReturnsType DEF Signs, TypeOK, serviceVars, Asking
<1>4. CASE \E q \in Readers, k \in Kids : Answers(q, k)
  <2>1. PICK q \in Readers, k \in Kids : Answers(q, k)
    BY <1>4
  <2>2. Published' \in SUBSET Kids
    BY <2>1, ReturnsType DEF Answers, Published
  <2>3. fetch[q] \in Fetch
    BY <2>1 DEF Answers, Asking, TypeOK
  <2>4. fetch' \in [Readers -> Fetch \cup {NoFetch}]
    BY <2>1, <2>2, <2>3 DEF Answers, TypeOK, Fetch
  <2>5. \A r \in Readers : call'[r] # NoCall => Asking(r)'
    BY <2>1, ReturnsType DEF Answers, TypeOK, Asking
  <2> QED
    BY <2>1, <2>4, <2>5, ReturnsType DEF Answers, TypeOK
<1>5. CASE \E q \in Readers, kid \in Presentable : Ask(q, kid)
  <2>1. PICK q \in Readers, kid \in Presentable : Ask(q, kid)
    BY <1>5
  <2>2. kid \in Kids \cup Foreign
    BY DEF Presentable, TypeOK, Token
  <2>3. [kid |-> kid, asked |-> now, answer |-> NoAnswer] \in Fetch
    BY <2>2 DEF Fetch, TypeOK
  <2>4. fetch' \in [Readers -> Fetch \cup {NoFetch}]
    BY <2>1, <2>3 DEF Ask, TypeOK
  <2>5. \A r \in Readers : call'[r] # NoCall => Asking(r)'
    BY <2>1 DEF Ask, TypeOK, Asking, webVars
  <2> QED
    BY <2>1, <2>4, <2>5 DEF Ask, TypeOK, webVars
<1>6. CASE \E q \in Readers : Apply(q)
  <2>1. PICK q \in Readers : Apply(q)
    BY <1>6
  <2>2. fetch[q].answer \in SUBSET Kids
    BY <2>1 DEF Apply, Answered, TypeOK, Fetch
  <2>3. \A r \in Readers : call'[r] # NoCall => Asking(r)'
    BY <2>1 DEF Apply, TypeOK, Asking, Answered, webVars
  <2> QED
    BY <2>1, <2>2, <2>3 DEF Apply, TypeOK, webVars
<1>7. CASE \E q \in Readers : FetchFails(q)
  BY <1>7 DEF FetchFails, TypeOK, Asking
<1>8. CASE RedeployWeb
  BY <1>8 DEF RedeployWeb, Redeploy, TypeOK, Asking
<1>9. CASE Pass
  <2>1. now' \in Nat /\ tokens' \subseteq Token
    BY <1>9 DEF Pass, Tick, TypeOK
  <2>2. \A r \in Readers : call'[r] # NoCall => Asking(r)'
    BY <1>9 DEF Pass, Tick, TypeOK, Asking, serviceVars
  <2> QED
    BY <1>9, <2>1, <2>2 DEF Pass, Tick, TypeOK, serviceVars
<1>10. CASE UNCHANGED vars
  BY <1>10 DEF vars, webVars, serviceVars, TypeOK, Asking
<1> QED
  BY <1>1, <1>2, <1>3, <1>4, <1>5, <1>6, <1>7, <1>8, <1>9, <1>10, NextCases

\* The tables, the caches and the requests keep their shape.
THEOREM TypeCorrect == Spec => []TypeOK
<1> USE SigningAssumption, VerificationAssumption
<1>1. Init => TypeOK
  <2> SUFFICES ASSUME Init PROVE TypeOK
    OBVIOUS
  <2>1. fetchedAt \in Int
    BY DEF Init
  <2>2. now \in Nat /\ secret \in 1 .. Secrets /\ stored \subseteq Kids
    BY DEF Init, InitWeb
  <2>3. created \in [Kids -> Nat \cup {-1}] /\ sealed \in [Kids -> 1 .. Secrets]
    BY DEF Init, InitWeb
  <2>4. \A q \in Readers : call[q] = NoCall
    BY DEF Init, InitWeb, Callers
  <2> QED
    BY <2>1, <2>2, <2>3, <2>4 DEF Init, InitWeb, TypeOK
<1>2. TypeOK /\ [Next]_vars => TypeOK'
  BY TypeStep
<1> QED
  BY <1>1, <1>2, PTL DEF Spec
-----------------------------------------------------------------------------
\* A row is deleted only when it is no longer published.
RowsInv ==
  /\ \A k \in Kids : created[k] <= now
  /\ \A k \in stored : created[k] >= 0
  /\ \A k \in Kids : created[k] >= 0 => k \in stored \/ now - created[k] > DeleteAfter

\* A key stays in a cache a little longer than a rotation.
CacheInv ==
  \A p \in Processes :
    active[p] # NoKey =>
      /\ created[active[p].kid] >= 0
      /\ active[p].until <= created[active[p].kid] + RotateAfter + CacheFor

\* A request is soon over, and the key it found was young when it began.
CallInv ==
  \A c \in Callers :
    /\ call[c] # NoCall => call[c].began <= now /\ now <= call[c].began + Slow
    /\ call[c].step = "found" =>
         /\ created[call[c].kid] >= 0
         /\ call[c].began < created[call[c].kid] + RotateAfter

\* A valid token expires before its key is withdrawn.
TokenInv ==
  \A t \in tokens :
    /\ created[t.kid] >= 0
    /\ LiveAt(t, now)
    /\ t.exp + Leeway <= created[t.kid] + PublishFor

SigningInv == RowsInv /\ CacheInv /\ CallInv /\ TokenInv

\* A fetch is soon over; a token that asked for it was signed with a real key.
FetchInv ==
  /\ fetchedAt <= now
  /\ \A q \in Readers :
       fetch[q] # NoFetch =>
         /\ fetch[q].asked <= now /\ now <= fetch[q].asked + FetchTimeout
         /\ fetch[q].kid \in Kids => created[fetch[q].kid] >= 0

\* An answer has every published key that is not newer than its fetch, and the
\* key of the token that asked for it.
AnswerInv ==
  \A q \in Readers :
    Answered(q) =>
      /\ \A k \in Kids \ fetch[q].answer :
           created[k] >= 0 => \/ now - created[k] >= PublishFor
                              \/ fetch[q].asked <= created[k]
      /\ fetch[q].kid \in Kids \ fetch[q].answer =>
           now - created[fetch[q].kid] >= PublishFor

\* A published key the service does not know is not much older than the last
\* refresh.
KeysInv ==
  \A k \in Kids \ keys :
    created[k] >= 0 => \/ now - created[k] >= PublishFor
                       \/ fetchedAt <= created[k] + FetchTimeout

ServiceInv == FetchInv /\ AnswerInv /\ KeysInv
-----------------------------------------------------------------------------
\* Looking for a key: what the request finds is a young key.
LEMMA WaitSigning ==
  ASSUME TypeOK, SigningInv, NEW c \in Callers, Find(c) \/ Miss(c)
  PROVE  SigningInv'
<1> USE SigningAssumption
<1>1. UNCHANGED <<now, secret, stored, created, sealed, active, tokens>>
  BY WaitType
<1>2. RowsInv' /\ CacheInv' /\ TokenInv'
  BY <1>1 DEF SigningInv, RowsInv, CacheInv, TokenInv, LiveAt
<1>3. ASSUME Find(c) PROVE CallInv'
  <2>1. PICK k \in stored :
          /\ CanSign(k)
          /\ call' = [call EXCEPT ![c] = [step |-> "found", kid |-> k, began |-> now]]
    BY <1>3 DEF Find
  <2>2. created[k] \in Nat /\ now < created[k] + RotateAfter
    BY <2>1 DEF CanSign, TypeOK, SigningInv, RowsInv
  <2>3. /\ call'[c] = [step |-> "found", kid |-> k, began |-> now]
        /\ \A d \in Callers \ {c} : call'[d] = call[d]
    BY <2>1 DEF TypeOK
  <2> QED
    BY <1>1, <2>2, <2>3 DEF CallInv, SigningInv, TypeOK
<1>4. ASSUME Miss(c) PROVE CallInv'
  <2>1. /\ call'[c] = [step |-> "create", began |-> now]
        /\ \A d \in Callers \ {c} : call'[d] = call[d]
    BY <1>4 DEF Miss, TypeOK
  <2> QED
    BY <1>1, <2>1 DEF CallInv, SigningInv, TypeOK
<1> QED
  BY <1>2, <1>3, <1>4 DEF SigningInv

\* A returned key: a token signed with it now expires before it is withdrawn, and
\* the keys of before keep their age.
LEMMA ReturnsKey ==
  ASSUME TypeOK, SigningInv, NEW c \in Callers, NEW k \in Kids, Returns(c, k)
  PROVE  /\ created'[k] \in Nat
         /\ now + TokenLife + Leeway <= created'[k] + PublishFor
         /\ \A j \in Kids : created[j] >= 0 => created'[j] = created[j]
         /\ \A j \in Kids : created[j] < 0 => created'[j] = created[j] \/ created'[j] = now
<1> USE SigningAssumption
<1> ProcessOf[c] \in Processes
  OBVIOUS
<1>1. CASE Reuse(c, k)
  <2>1. active[ProcessOf[c]] \in Cached
    BY <1>1 DEF Reuse, InUse, TypeOK
  <2>2. /\ created[k] >= 0
        /\ active[ProcessOf[c]].until <= created[k] + RotateAfter + CacheFor
    BY <1>1 DEF Reuse, InUse, SigningInv, CacheInv
  <2> QED
    BY <1>1, <2>1, <2>2 DEF Reuse, InUse, Cached, TypeOK
<1>2. CASE Adopt(c, k)
  <2>1. call[c].began \in Nat /\ now <= call[c].began + Slow
    BY <1>2, CallShape DEF Adopt, SigningInv, CallInv
  <2>2. created[k] >= 0 /\ call[c].began < created[k] + RotateAfter
    BY <1>2 DEF Adopt, SigningInv, CallInv
  <2> QED
    BY <1>2, <2>1, <2>2 DEF Adopt, TypeOK
<1>3. CASE Create(c, k)
  BY <1>3 DEF Create, TypeOK
<1> QED
  BY <1>1, <1>2, <1>3 DEF Returns

\* A returned key keeps what is known of the rows, the caches and the requests.
LEMMA ReturnsSigning ==
  ASSUME TypeOK, SigningInv, NEW c \in Callers, NEW k \in Kids, Returns(c, k)
  PROVE  RowsInv' /\ CacheInv' /\ CallInv'
<1> USE SigningAssumption
<1> ProcessOf[c] \in Processes
  OBVIOUS
<1>1. RowsInv'
  <2>1. CASE Reuse(c, k) \/ Adopt(c, k)
    BY <2>1 DEF Reuse, Adopt, SigningInv, RowsInv
  <2>2. CASE Create(c, k)
    BY <2>2 DEF Create, Undeleted, SigningInv, RowsInv, TypeOK
  <2> QED
    BY <2>1, <2>2 DEF Returns
<1>2. CallInv'
  <2>1. call'[c] = NoCall /\ \A d \in Callers \ {c} : call'[d] = call[d]
    BY ReturnsType
  <2>2. ASSUME NEW d \in Callers \ {c}, call[d].step = "found"
        PROVE  created'[call[d].kid] = created[call[d].kid]
    BY <2>2, ReturnsKey, CallShape DEF SigningInv, CallInv
  <2> QED
    BY <2>1, <2>2, ReturnsType DEF SigningInv, CallInv, NoCall
<1>3. CacheInv'
  <2>1. ASSUME NEW p \in Processes, active[p] # NoKey
        PROVE  created'[active[p].kid] = created[active[p].kid]
    <3>1. active[p].kid \in Kids
      BY <2>1 DEF TypeOK, Cached
    <3> QED
      BY <2>1, <3>1, ReturnsKey DEF SigningInv, CacheInv
  <2>2. CASE Reuse(c, k)
    BY <2>2 DEF Reuse, SigningInv, CacheInv
  <2>3. ASSUME Keep(c, k), created'[k] \in Nat, call[c].began \in Nat,
               call[c].began < created'[k] + RotateAfter \/ call[c].began <= created'[k]
        PROVE  CacheInv'
    <3>1. /\ active'[ProcessOf[c]] = [kid |-> k, until |-> call[c].began + CacheFor]
          /\ \A p \in Processes \ {ProcessOf[c]} : active'[p] = active[p]
      BY <2>3 DEF Keep, TypeOK
    <3>2. call[c].began + CacheFor <= created'[k] + RotateAfter + CacheFor
      BY <2>3
    <3> QED
      BY <2>1, <2>3, <3>1, <3>2 DEF SigningInv, CacheInv
  <2>4. CASE Adopt(c, k)
    BY <2>3, <2>4, ReturnsKey, CallShape DEF Adopt, SigningInv, CallInv
  <2>5. CASE Create(c, k)
    <3>1. created'[k] = now /\ call[c].began <= now
      BY <2>5, CallShape DEF Create, SigningInv, CallInv, TypeOK
    <3> QED
      BY <2>3, <2>5, <3>1, ReturnsKey, CallShape DEF Create
  <2> QED
    BY <2>2, <2>4, <2>5 DEF Returns
<1> QED
  BY <1>1, <1>2, <1>3

\* Without a new token, a returned key leaves the valid tokens as they were.
LEMMA ReturnsTokens ==
  ASSUME TypeOK, SigningInv, NEW c \in Callers, NEW k \in Kids, Returns(c, k),
         NEW t \in tokens
  PROVE  /\ created'[t.kid] >= 0
         /\ LiveAt(t, now')
         /\ t.exp + Leeway <= created'[t.kid] + PublishFor
<1>1. t.kid \in Kids
  BY DEF TypeOK, Token
<1>2. created'[t.kid] = created[t.kid] /\ now' = now
  BY <1>1, ReturnsKey, ReturnsType DEF SigningInv, TokenInv
<1> QED
  BY <1>2 DEF SigningInv, TokenInv, LiveAt

\* Every step of the system keeps what the web app's clocks promise.
LEMMA SigningStep ==
  ASSUME TypeOK, SigningInv, [Next]_vars
  PROVE  SigningInv'
<1> USE SigningAssumption DEF Callers
<1>1. CASE \E m \in Minters : (Find(m) \/ Miss(m)) /\ UNCHANGED serviceVars
  BY <1>1, WaitSigning
<1>2. CASE \E q \in Readers : (Find(q) \/ Miss(q)) /\ Asking(q) /\ UNCHANGED serviceVars
  BY <1>2, WaitSigning
<1>3. CASE \E m \in Minters, k \in Kids : Signs(m, k)
  <2>1. PICK m \in Minters, k \in Kids : Signs(m, k)
    BY <1>3
  <2>2. Returns(m, k) /\ tokens' = tokens \cup {[kid |-> k, exp |-> now + TokenLife]}
    BY <2>1 DEF Signs
  <2>3. now' = now /\ now \in Nat
    BY <2>2, ReturnsType DEF TypeOK
  <2>4. /\ created'[k] \in Nat
        /\ now + TokenLife + Leeway <= created'[k] + PublishFor
        /\ now < now + TokenLife + Leeway
    BY <2>2, <2>3, ReturnsKey
  <2>5. TokenInv'
    BY <2>2, <2>3, <2>4, ReturnsTokens DEF TokenInv, LiveAt
  <2> QED
    BY <2>2, <2>5, ReturnsSigning DEF SigningInv
<1>4. CASE \E q \in Readers, k \in Kids : Answers(q, k)
  <2>1. PICK q \in Readers, k \in Kids : Returns(q, k) /\ tokens' = tokens
    BY <1>4 DEF Answers
  <2>2. TokenInv'
    BY <2>1, ReturnsTokens, ReturnsType DEF TokenInv, LiveAt
  <2> QED
    BY <2>1, <2>2, ReturnsSigning DEF SigningInv
<1>5. CASE UNCHANGED webVars
  BY <1>5 DEF webVars, SigningInv, RowsInv, CacheInv, CallInv, TokenInv, LiveAt
<1>6. CASE \E q \in Readers : FetchFails(q)
  <2>1. PICK q \in Readers : FetchFails(q)
    BY <1>6
  <2>2. UNCHANGED <<now, secret, stored, created, sealed, active, tokens>>
    BY <2>1 DEF FetchFails
  <2>3. \A c \in Callers : call'[c] \in {call[c], NoCall}
    BY <2>1 DEF FetchFails, TypeOK
  <2>4. CallInv'
    BY <2>2, <2>3 DEF SigningInv, CallInv, NoCall
  <2> QED
    BY <2>2, <2>4 DEF SigningInv, RowsInv, CacheInv, TokenInv, LiveAt
<1>7. CASE RedeployWeb
  BY <1>7 DEF RedeployWeb, Redeploy, SigningInv, RowsInv, CacheInv, CallInv, TokenInv,
              LiveAt, NoCall
<1>8. CASE Pass
  <2>1. /\ now' = now + 1
        /\ tokens' = {t \in tokens : LiveAt(t, now')}
        /\ UNCHANGED <<secret, stored, created, sealed, active, call>>
    BY <1>8 DEF Pass, Tick
  <2>2. \A c \in Callers : call[c] # NoCall => now < call[c].began + Slow
    BY <1>8 DEF Pass, Tick, OnTime
  <2>3. CallInv'
    <3>1. \A c \in Callers :
            call[c] # NoCall => call[c].began <= now + 1 /\ now + 1 <= call[c].began + Slow
      BY <2>2, CallShape DEF SigningInv, CallInv, TypeOK
    <3> QED
      BY <2>1, <3>1 DEF SigningInv, CallInv
  <2>4. RowsInv'
    BY <2>1 DEF SigningInv, RowsInv, TypeOK
  <2>5. CacheInv' /\ TokenInv'
    BY <2>1 DEF SigningInv, CacheInv, TokenInv, LiveAt
  <2> QED
    BY <2>3, <2>4, <2>5 DEF SigningInv
<1> QED
  BY <1>1, <1>2, <1>3, <1>4, <1>5, <1>6, <1>7, <1>8, NextCases DEF Ask, Apply, vars

LEMMA SigningInit == Init => SigningInv
<1> SUFFICES ASSUME Init PROVE SigningInv
  OBVIOUS
<1>1. now = 0 /\ stored = {} /\ tokens = {} /\ \A k \in Kids : created[k] = -1
  BY DEF Init, InitWeb
<1>2. (\A p \in Processes : active[p] = NoKey) /\ (\A c \in Callers : call[c] = NoCall)
  BY DEF Init, InitWeb
<1> QED
  BY <1>1, <1>2 DEF SigningInv, RowsInv, CacheInv, CallInv, TokenInv, NoCall

\* A valid token's key is young enough to be published.
LEMMA LiveKey ==
  ASSUME TypeOK, SigningInv, NEW t \in tokens
  PROVE  /\ t.kid \in Kids /\ created[t.kid] \in Nat
         /\ now - created[t.kid] < PublishFor
<1> USE SigningAssumption
<1>1. t.kid \in Kids /\ t.exp \in Nat
  BY DEF TypeOK, Token
<1>2. created[t.kid] \in Nat
  BY <1>1 DEF TypeOK, SigningInv, TokenInv
<1> QED
  BY <1>1, <1>2 DEF TypeOK, SigningInv, TokenInv, LiveAt

LEMMA LiveKeyPublished == TypeOK /\ SigningInv => KeysOutliveTokens
<1> SUFFICES ASSUME TypeOK, SigningInv, NEW t \in tokens PROVE t.kid \in Published
  BY DEF KeysOutliveTokens
<1>1. t.kid \in stored
  BY LiveKey, SigningAssumption DEF SigningInv, RowsInv, TypeOK
<1> QED
  BY <1>1, LiveKey DEF Published

\* The rotation and publication periods leave every valid token verifiable,
\* whichever requests find, create and cache keys at the same time.
THEOREM TokensStayVerifiable == Spec => []KeysOutliveTokens
<1>1. TypeOK /\ SigningInv /\ [Next]_vars => SigningInv'
  BY SigningStep
<1> QED
  BY <1>1, TypeCorrect, SigningInit, LiveKeyPublished, PTL DEF Spec
-----------------------------------------------------------------------------
\* The service's requests and set stay as they are while a key is looked for or
\* returned, at one moment: a key created meanwhile is new.
LEMMA ServiceKept ==
  ASSUME TypeOK, SigningInv, ServiceInv, [Next]_vars, now' = now,
         \A j \in Kids : created[j] >= 0 => created'[j] = created[j],
         \A j \in Kids : created[j] < 0 => created'[j] = created[j] \/ created'[j] = now
  PROVE  /\ keys' = keys /\ fetchedAt' = fetchedAt => KeysInv' /\ fetchedAt' <= now'
         /\ \A q \in Readers : fetch[q] # NoFetch =>
              /\ fetch[q].asked <= now' /\ now' <= fetch[q].asked + FetchTimeout
              /\ fetch[q].kid \in Kids => created'[fetch[q].kid] >= 0
         /\ \A q \in Readers : Answered(q) =>
              /\ \A k \in Kids \ fetch[q].answer :
                   created'[k] >= 0 => \/ now' - created'[k] >= PublishFor
                                       \/ fetch[q].asked <= created'[k]
              /\ fetch[q].kid \in Kids \ fetch[q].answer =>
                   now' - created'[fetch[q].kid] >= PublishFor
<1> USE SigningAssumption, VerificationAssumption
<1> TypeOK'
  BY TypeStep
<1>1. keys' = keys /\ fetchedAt' = fetchedAt => KeysInv' /\ fetchedAt' <= now'
  BY DEF ServiceInv, KeysInv, FetchInv, TypeOK
<1>2. ASSUME NEW q \in Readers, fetch[q] # NoFetch
      PROVE  /\ fetch[q].asked <= now' /\ now' <= fetch[q].asked + FetchTimeout
             /\ fetch[q].kid \in Kids => created'[fetch[q].kid] >= 0
  BY <1>2 DEF ServiceInv, FetchInv
<1>3. ASSUME NEW q \in Readers, Answered(q), NEW k \in Kids \ fetch[q].answer,
             created'[k] >= 0
      PROVE  now' - created'[k] >= PublishFor \/ fetch[q].asked <= created'[k]
  <2>1. CASE created[k] >= 0
    BY <1>3, <2>1 DEF ServiceInv, AnswerInv
  <2>2. CASE created[k] < 0
    <3>1. created'[k] = now'
      BY <1>3, <2>2 DEF TypeOK
    <3> QED
      BY <1>2, <1>3, <3>1 DEF Answered
  <2> QED
    BY <2>1, <2>2 DEF TypeOK
<1>4. ASSUME NEW q \in Readers, Answered(q), fetch[q].kid \in Kids \ fetch[q].answer
      PROVE  now' - created'[fetch[q].kid] >= PublishFor
  <2>1. created[fetch[q].kid] >= 0
    BY <1>4 DEF Answered, ServiceInv, FetchInv
  <2> QED
    BY <1>4, <2>1 DEF ServiceInv, AnswerInv
<1> QED
  BY <1>1, <1>2, <1>3, <1>4

\* An answer is complete when it is given.
LEMMA PublishedComplete ==
  ASSUME TypeOK, RowsInv, NEW k \in Kids \ Published, created[k] >= 0
  PROVE  now - created[k] >= PublishFor
BY SigningAssumption DEF RowsInv, Published, TypeOK

\* Every step of the system keeps what the service may rely on.
LEMMA ServiceStep ==
  ASSUME TypeOK, SigningInv, ServiceInv, [Next]_vars
  PROVE  ServiceInv'
<1> USE SigningAssumption, VerificationAssumption DEF Callers
<1> TypeOK' /\ SigningInv'
  BY TypeStep, SigningStep
<1>1. CASE /\ \E c \in Callers : Find(c) \/ Miss(c) \/ \E k \in Kids : Returns(c, k)
           /\ UNCHANGED serviceVars
  <2>1. /\ now' = now
        /\ \A j \in Kids : created[j] >= 0 => created'[j] = created[j]
        /\ \A j \in Kids : created[j] < 0 => created'[j] = created[j] \/ created'[j] = now
    BY <1>1, WaitType, ReturnsType, ReturnsKey
  <2>2. fetch' = fetch /\ keys' = keys /\ fetchedAt' = fetchedAt
    BY <1>1 DEF serviceVars
  <2>3. KeysInv' /\ FetchInv'
    BY <2>1, <2>2, ServiceKept DEF FetchInv
  <2>4. AnswerInv'
    BY <2>1, <2>2, ServiceKept DEF AnswerInv, Answered
  <2> QED
    BY <2>3, <2>4 DEF ServiceInv
<1>2. CASE \E q \in Readers, k \in Kids : Answers(q, k)
  <2>1. PICK q \in Readers, k \in Kids : Answers(q, k)
    BY <1>2
  <2>2. /\ now' = now
        /\ \A j \in Kids : created[j] >= 0 => created'[j] = created[j]
        /\ \A j \in Kids : created[j] < 0 => created'[j] = created[j] \/ created'[j] = now
    BY <2>1, ReturnsType, ReturnsKey DEF Answers
  <2>3. fetch[q] \in Fetch /\ fetch[q] # NoFetch
    BY <2>1 DEF Answers, Asking, TypeOK
  <2>4. /\ fetch'[q].kid = fetch[q].kid /\ fetch'[q].asked = fetch[q].asked
        /\ fetch'[q].answer = Published'
        /\ \A r \in Readers \ {q} : fetch'[r] = fetch[r]
    BY <2>1, <2>3 DEF Answers, TypeOK, Fetch
  <2>5. KeysInv' /\ FetchInv'
    BY <2>1, <2>2, <2>3, <2>4, ServiceKept DEF Answers, FetchInv
  <2>6. \A j \in Kids \ Published' : created'[j] >= 0 => now' - created'[j] >= PublishFor
    BY PublishedComplete DEF TypeOK, SigningInv, RowsInv, Published
  <2>7. fetch[q].kid \in Kids => created'[fetch[q].kid] >= 0
    BY <2>2, <2>3, ServiceKept
  <2>8. AnswerInv'
    BY <2>2, <2>4, <2>6, <2>7, ServiceKept DEF AnswerInv, Answered
  <2> QED
    BY <2>5, <2>8 DEF ServiceInv
<1>3. CASE \E q \in Readers, kid \in Presentable : Ask(q, kid)
  <2>1. PICK q \in Readers, kid \in Presentable : Ask(q, kid)
    BY <1>3
  <2>2. UNCHANGED <<now, created, keys, fetchedAt>>
    BY <2>1 DEF Ask, webVars
  <2>3. /\ fetch'[q] = [kid |-> kid, asked |-> now, answer |-> NoAnswer]
        /\ \A r \in Readers \ {q} : fetch'[r] = fetch[r]
    BY <2>1 DEF Ask, TypeOK
  <2>4. kid \in Kids => created[kid] >= 0
    BY DEF Presentable, SigningInv, TokenInv
  <2>5. FetchInv'
    BY <2>2, <2>3, <2>4 DEF ServiceInv, FetchInv, TypeOK
  <2>6. AnswerInv'
    BY <2>2, <2>3 DEF ServiceInv, AnswerInv, Answered
  <2> QED
    BY <2>2, <2>5, <2>6 DEF ServiceInv, KeysInv
<1>4. CASE \E q \in Readers : Apply(q)
  <2>1. PICK q \in Readers : Apply(q)
    BY <1>4
  <2>2. UNCHANGED <<now, created>> /\ keys' = fetch[q].answer /\ fetchedAt' = now
    BY <2>1 DEF Apply, webVars
  <2>3. fetch'[q] = NoFetch /\ \A r \in Readers \ {q} : fetch'[r] = fetch[r]
    BY <2>1 DEF Apply, TypeOK
  <2>4. /\ fetch[q].asked \in Nat /\ now <= fetch[q].asked + FetchTimeout
    BY <2>1 DEF Apply, Answered, ServiceInv, FetchInv, TypeOK, Fetch
  <2>5. KeysInv'
    BY <2>1, <2>2, <2>4 DEF Apply, ServiceInv, AnswerInv, KeysInv, TypeOK
  <2>6. FetchInv' /\ AnswerInv'
    BY <2>2, <2>3 DEF ServiceInv, FetchInv, AnswerInv, Answered, TypeOK
  <2> QED
    BY <2>5, <2>6 DEF ServiceInv
<1>5. CASE RedeployWeb \/ (\E q \in Readers : FetchFails(q)) \/ UNCHANGED vars
  <2>1. /\ UNCHANGED <<now, created, keys, fetchedAt>>
        /\ \A r \in Readers : fetch'[r] \in {fetch[r], NoFetch}
    BY <1>5 DEF RedeployWeb, Redeploy, FetchFails, vars, webVars, serviceVars, TypeOK
  <2> QED
    BY <2>1 DEF ServiceInv, FetchInv, AnswerInv, KeysInv, Answered
<1>6. CASE Pass
  <2>1. now' = now + 1 /\ UNCHANGED <<created, serviceVars>>
    BY <1>6 DEF Pass, Tick
  <2>2. \A q \in Readers : fetch[q] # NoFetch =>
          fetch[q].asked \in Nat /\ now < fetch[q].asked + FetchTimeout
    BY <1>6 DEF Pass, TypeOK, Fetch
  <2>3. FetchInv'
    BY <2>1, <2>2 DEF ServiceInv, FetchInv, TypeOK, serviceVars
  <2>4. AnswerInv' /\ KeysInv'
    BY <2>1 DEF ServiceInv, AnswerInv, KeysInv, Answered, TypeOK, serviceVars
  <2> QED
    BY <2>3, <2>4 DEF ServiceInv
<1> QED
  BY <1>1, <1>2, <1>3, <1>4, <1>5, <1>6, NextCases DEF Signs

LEMMA ServiceInit == Init => ServiceInv
<1> SUFFICES ASSUME Init PROVE ServiceInv
  OBVIOUS
<1>1. now = 0 /\ \A k \in Kids : created[k] = -1
  BY DEF Init, InitWeb
<1>2. \A q \in Readers : fetch[q] = NoFetch
  BY DEF Init
<1>3. fetchedAt <= 0
  BY VerificationAssumption DEF Init
<1> QED
  BY <1>1, <1>2, <1>3 DEF ServiceInv, FetchInv, AnswerInv, KeysInv, Answered

LEMMA PickedUp == TypeOK /\ SigningInv /\ ServiceInv => RotationIsPickedUp
<1> SUFFICES ASSUME TypeOK, SigningInv, ServiceInv PROVE RotationIsPickedUp
  OBVIOUS
<1> USE VerificationAssumption, SigningAssumption
<1>1. ASSUME NEW t \in tokens, RefusedAtOnce(t.kid)
      PROVE  now - created[t.kid] <= FetchTimeout + MinInterval
  <2>1. t.kid \notin keys /\ now - fetchedAt <= MinInterval
    BY <1>1 DEF RefusedAtOnce, NeedsFetch, TypeOK
  <2>2. fetchedAt <= created[t.kid] + FetchTimeout
    BY <2>1, LiveKey DEF ServiceInv, KeysInv, TypeOK
  <2> QED
    BY <2>1, <2>2, LiveKey DEF TypeOK
<1>2. ASSUME NEW q \in Readers, NEW t \in tokens, Answered(q), t.kid = fetch[q].kid
      PROVE  t.kid \in fetch[q].answer
  BY <1>2, LiveKey DEF ServiceInv, AnswerInv, TypeOK
<1> QED
  BY <1>1, <1>2 DEF RotationIsPickedUp

\* A valid token is not refused for an unknown key, except by a request that does
\* not ask, within a fetch and min_interval of the key's creation.
THEOREM RotationReachesTheService == Spec => []RotationIsPickedUp
<1>1. TypeOK /\ SigningInv /\ ServiceInv /\ [Next]_vars => SigningInv' /\ ServiceInv'
  BY SigningStep, ServiceStep
<1> QED
  BY <1>1, TypeCorrect, SigningInit, ServiceInit, PickedUp, PTL DEF Spec
=============================================================================
