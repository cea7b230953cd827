------------------------------ MODULE ListLemmas ------------------------------
(***************************************************************************)
(* Induction over the natural numbers, from the well-foundedness of their   *)
(* order, and what it says of recursive functions and of lists.             *)
(***************************************************************************)
EXTENDS Lists, FiniteSetsExt, SequenceTheorems, WellFoundedInduction, TLAPS

(* Induction over the natural numbers, for a set of them: that it is all of them. *)
LEMMA NatSets ==
  ASSUME NEW S \in SUBSET Nat, 0 \in S, \A n \in S : n + 1 \in S
  PROVE  S = Nat
<1> DEFINE R == OpToRel(<, Nat)
           T == Nat \ S
<1>1. \A a, b \in Nat : a < b => <<a, b>> \in R
  BY Zenon DEF OpToRel
<1>2. IsWellFoundedOn(R, Nat)
  BY NatLessThanWellFounded, Zenon
<1> HIDE DEF R
<1>3. SUFFICES ASSUME T # {} PROVE FALSE
  OBVIOUS
<1>4. \E x \in T : \A y \in T : ~(<<y, x>> \in R)
  <2>1. T \subseteq Nat
    OBVIOUS
  <2> HIDE DEF T
  <2> QED
    BY <1>2, <1>3, <2>1, WFMin, Zenon
<1>5. PICK x \in T : \A y \in T : ~(<<y, x>> \in R)
  BY <1>4
<1>6. x \in Nat /\ x # 0 /\ x - 1 \in Nat /\ x - 1 < x
  OBVIOUS
<1>7. x - 1 \notin T
  BY <1>1, <1>5, <1>6
<1> QED
  BY <1>6, <1>7

(* The same up to a bound. *)
LEMMA BoundedInduction ==
  ASSUME NEW m \in Nat, NEW S, 0 \in S, \A n \in 0 .. m - 1 : n \in S => n + 1 \in S
  PROVE  0 .. m \subseteq S
<1> DEFINE U == {n \in Nat : n \in S \/ n > m}
<1>1. 0 \in U /\ U \in SUBSET Nat
  OBVIOUS
<1>2. ASSUME NEW n \in U PROVE n + 1 \in U
  <2>1. CASE n < m
    BY <2>1
  <2>2. CASE ~(n < m)
    BY <2>2
  <2> QED
    BY <2>1, <2>2
<1> HIDE DEF U
<1>3. U = Nat
  BY <1>1, <1>2, NatSets
<1> QED
  BY <1>3 DEF U

(* The least and the greatest of a set of numbers. *)
LEMMA MinIn ==
  ASSUME NEW T \in SUBSET Nat, T # {}
  PROVE  Min(T) \in T /\ \A y \in T : Min(T) <= y
<1>1. \E x \in T : \A y \in T : x =< y
  <2> SUFFICES ASSUME \A x \in T : \E y \in T : y < x PROVE FALSE
    OBVIOUS
  <2> DEFINE S == {n \in Nat : \A x \in T : x > n}
  <2>1. 0 \in S
    OBVIOUS
  <2>2. ASSUME NEW n \in S PROVE n + 1 \in S
    <3>1. ASSUME NEW x \in T PROVE x > n + 1
      <4>1. PICK y \in T : y < x
        OBVIOUS
      <4> QED
        BY <2>2, <4>1
    <3> QED
      BY <2>2, <3>1
  <2>3. S = Nat
    <3>1. S \in SUBSET Nat
      OBVIOUS
    <3> HIDE DEF S
    <3> QED
      BY <2>1, <2>2, <3>1, NatSets
  <2>4. PICK x \in T : x \in Nat
    OBVIOUS
  <2>5. x \in S
    BY <2>3, <2>4
  <2> QED
    BY <2>4, <2>5
<1> QED
  BY <1>1 DEF Min

LEMMA MaxIn ==
  ASSUME NEW m \in Nat, NEW T \in SUBSET (0 .. m), T # {}
  PROVE  Max(T) \in T /\ \A y \in T : y <= Max(T)
<1> DEFINE U == {m - x : x \in T}
<1>1. U \in SUBSET Nat /\ U # {}
  <2>1. \A x \in T : m - x \in Nat
    OBVIOUS
  <2> QED
    BY <2>1
<1>2. Min(U) \in U /\ \A y \in U : Min(U) <= y
  <2> HIDE DEF U
  <2> QED
    BY <1>1, MinIn
<1>3. PICK x \in T : Min(U) = m - x
  BY <1>2
<1>4. ASSUME NEW y \in T PROVE x >= y
  <2>1. m - y \in U
    OBVIOUS
  <2>2. m - x <= m - y
    BY <1>2, <1>3, <2>1
  <2> QED
    BY <2>2
<1>5. \E z \in T : \A y \in T : z >= y
  BY <1>4
<1>6. Max(T) \in T /\ \A y \in T : Max(T) >= y
  BY <1>5 DEF Max
<1> QED
  BY <1>6

(* A function given by its first value and by the step from each value to the next
   exists: what the recursive functions of the models are built on. *)
Steps(m, V) == [1 .. m -> [V -> V]]
IsIteration(f, m, V, b, F) ==
  f \in [0 .. m -> V] /\ f[0] = b /\ \A i \in 1 .. m : f[i] = F[i][f[i - 1]]

LEMMA Iterates ==
  ASSUME NEW V, NEW b \in V, NEW m \in Nat, NEW F \in Steps(m, V)
  PROVE  \E f : IsIteration(f, m, V, b, F)
<1> DEFINE Upto(n) == \E f \in [0 .. n -> V] : f[0] = b /\ \A i \in 1 .. n : f[i] = F[i][f[i - 1]]
           S == {n \in Nat : Upto(n)}
<1>1. 0 \in S
  <2>1. [i \in 0 .. 0 |-> b] \in [0 .. 0 -> V]
    OBVIOUS
  <2>2. [i \in 0 .. 0 |-> b][0] = b /\ 1 .. 0 = {}
    OBVIOUS
  <2> QED
    BY <2>1, <2>2
<1>2. ASSUME NEW n \in 0 .. m - 1, n \in S PROVE n + 1 \in S
  <2>1. PICK f \in [0 .. n -> V] : f[0] = b /\ \A i \in 1 .. n : f[i] = F[i][f[i - 1]]
    BY <1>2
  <2> DEFINE g == [i \in 0 .. n + 1 |-> IF i = n + 1 THEN F[n + 1][f[n]] ELSE f[i]]
  <2>2. n \in 0 .. n /\ n + 1 \in 1 .. m /\ n + 1 \in Nat /\ n \in Nat
    OBVIOUS
  <2>3. g \in [0 .. n + 1 -> V]
    <3>1. F[n + 1][f[n]] \in V
      BY <2>2 DEF Steps
    <3> QED
      BY <3>1
  <2>4. g[0] = b
    BY <2>1
  <2>5. ASSUME NEW i \in 1 .. n + 1 PROVE g[i] = F[i][g[i - 1]]
    <3>1. CASE i = n + 1
      BY <3>1, <2>2
    <3>2. CASE i # n + 1
      <4>1. i \in 1 .. n /\ i \in 0 .. n + 1 /\ i - 1 \in 0 .. n + 1 /\ i - 1 # n + 1
        BY <3>2
      <4> QED
        BY <3>2, <4>1, <2>1
    <3> QED
      BY <3>1, <3>2
  <2> HIDE DEF g
  <2>6. Upto(n + 1)
    BY <2>3, <2>4, <2>5
  <2> QED
    BY <2>2, <2>6
<1> HIDE DEF S
<1>3. m \in S
  <2>1. 0 .. m \subseteq S
    BY <1>1, <1>2, BoundedInduction
  <2> QED
    BY <2>1
<1> QED
  BY <1>3 DEF S, IsIteration

(* Whatever takes these steps from a first value of its type is such a function. *)
LEMMA Computed ==
  ASSUME NEW V, NEW b \in V, NEW m \in Nat, NEW F \in Steps(m, V), NEW g,
         g = [i \in 0 .. m |-> g[i]], g[0] = b,
         \A i \in 1 .. m : g[i - 1] \in V => g[i] = F[i][g[i - 1]]
  PROVE  IsIteration(g, m, V, b, F)
<1> DEFINE S == {n \in Nat : n <= m => g[n] \in V}
<1>1. 0 \in S
  OBVIOUS
<1>2. ASSUME NEW n \in 0 .. m - 1, n \in S PROVE n + 1 \in S
  <2>1. n + 1 \in 1 .. m /\ (n + 1) - 1 = n /\ n <= m /\ n \in Nat
    OBVIOUS
  <2>2. g[n] \in V
    BY <1>2, <2>1
  <2>3. g[n + 1] = F[n + 1][g[n]] /\ F[n + 1] \in [V -> V]
    BY <2>1, <2>2 DEF Steps
  <2> QED
    BY <2>1, <2>2, <2>3
<1>3. 0 .. m \subseteq S
  <2> HIDE DEF S
  <2> QED
    BY <1>1, <1>2, BoundedInduction
<1>4. \A i \in 0 .. m : g[i] \in V
  BY <1>3
<1>5. \A i \in 1 .. m : i - 1 \in 0 .. m
  OBVIOUS
<1>6. g \in [0 .. m -> V]
  BY <1>4
<1> QED
  BY <1>4, <1>5, <1>6 DEF IsIteration

----------------------------------------------------------------------------
(* What the recursion of Kept says of each of its values. *)
Keeps(f, items, set) ==
  /\ f[0] = <<>>
  /\ \A i \in 1 .. Len(items) :
       f[i] = IF items[i] \in set THEN Append(f[i - 1], items[i]) ELSE f[i - 1]

(* Kept is the last value of a recursive function over the list. *)
LEMMA KeptUnfolds ==
  ASSUME NEW S, NEW items \in Seq(S), NEW set
  PROVE  \E f \in [0 .. Len(items) -> Seq(S)] :
           Keeps(f, items, set) /\ Kept(items, set) = f[Len(items)]
<1> DEFINE m == Len(items)
           Body(f) == [i \in 0 .. m |-> IF i = 0 THEN <<>>
                         ELSE IF items[i] \in set THEN Append(f[i - 1], items[i]) ELSE f[i - 1]]
           F == [i \in 1 .. m |-> [s \in Seq(S) |-> IF items[i] \in set THEN Append(s, items[i]) ELSE s]]
           kept == CHOOSE f : f = Body(f)
<1>1. m \in Nat /\ F \in [1 .. m -> [Seq(S) -> Seq(S)]] /\ <<>> \in Seq(S)
  OBVIOUS
<1>2. PICK f \in [0 .. m -> Seq(S)] : f[0] = <<>> /\ \A i \in 1 .. m : f[i] = F[i][f[i - 1]]
  <2>1. <<>> \in Seq(S) /\ m \in Nat /\ F \in Steps(m, Seq(S))
    BY <1>1 DEF Steps
  <2> HIDE DEF F, m
  <2>2. \E f : IsIteration(f, m, Seq(S), <<>>, F)
    BY <2>1, Iterates
  <2> QED
    BY <2>2 DEF IsIteration
<1>3. \A i \in 1 .. m : f[i - 1] \in Seq(S)
  BY <1>1
<1>4. \A i \in 1 .. m : f[i] = IF items[i] \in set THEN Append(f[i - 1], items[i]) ELSE f[i - 1]
  BY <1>2, <1>3
<1>5. f = Body(f)
  <2>1. \A i \in 0 .. m : i # 0 => i \in 1 .. m
    BY <1>1
  <2>2. \A i \in 0 .. m : f[i] = Body(f)[i]
    BY <1>2, <1>4, <2>1
  <2> QED
    BY <2>2
<1>6. kept = Body(kept)
  BY <1>5
<1>7. Kept(items, set) = kept[m]
  BY DEF Kept
<1> DEFINE same == {n \in Nat : n <= m => kept[n] = f[n]}
<1> HIDE DEF kept, F
<1>8. 0 \in same
  BY <1>1, <1>2, <1>6
<1>9. ASSUME NEW n \in 0 .. m - 1, n \in same PROVE n + 1 \in same
  <2>1. n + 1 \in 1 .. m /\ n + 1 \in 0 .. m /\ n + 1 # 0 /\ (n + 1) - 1 = n /\ n <= m /\ n \in Nat
    BY <1>1
  <2>2. kept[n + 1] = IF items[n + 1] \in set THEN Append(kept[n], items[n + 1]) ELSE kept[n]
    BY <1>6, <2>1
  <2>3. f[n + 1] = IF items[n + 1] \in set THEN Append(f[n], items[n + 1]) ELSE f[n]
    BY <1>4, <2>1
  <2> QED
    BY <1>9, <2>1, <2>2, <2>3
<1>10. m \in same
  <2> HIDE DEF same, m
  <2>1. 0 .. m \subseteq same
    BY <1>1, <1>8, <1>9, BoundedInduction
  <2> QED
    BY <1>1, <2>1
<1>11. kept[m] = f[m]
  BY <1>1, <1>10
<1> QED
  BY <1>2, <1>4, <1>7, <1>11 DEF Keeps

(* Kept keeps the items of the set and no others, and the first one stays the first. *)
LEMMA KeptProperties ==
  ASSUME NEW S, NEW items \in Seq(S), NEW set
  PROVE  /\ Kept(items, set) \in Seq(S)
         /\ Range(Kept(items, set)) = Range(items) \cap set
         /\ items # <<>> /\ items[1] \in set =>
              Kept(items, set) # <<>> /\ Kept(items, set)[1] = items[1]
<1> DEFINE m == Len(items)
<1>1. PICK f \in [0 .. m -> Seq(S)] : Keeps(f, items, set) /\ Kept(items, set) = f[m]
  BY KeptUnfolds
<1> DEFINE Right(n) ==
             /\ Range(f[n]) = {items[j] : j \in 1 .. n} \cap set
             /\ n > 0 /\ items[1] \in set => Len(f[n]) > 0 /\ f[n][1] = items[1]
           S2 == {n \in Nat : n <= m => Right(n)}
<1>2. m \in Nat /\ DOMAIN items = 1 .. m
  OBVIOUS
<1>3. 0 \in S2
  BY <1>1 DEF Keeps, Range
<1>4. ASSUME NEW n \in 0 .. m - 1, n \in S2 PROVE n + 1 \in S2
  <2>1. /\ n \in Nat /\ n <= m /\ n \in 0 .. m /\ n + 1 \in 1 .. m /\ (n + 1) - 1 = n
        /\ 1 .. n + 1 = (1 .. n) \cup {n + 1} /\ n + 1 > 0
    BY <1>2
  <2>2. Right(n) /\ f[n] \in Seq(S) /\ items[n + 1] \in S
    <3>1. Right(n)
      BY <1>4, <2>1
    <3>2. f[n] \in Seq(S) /\ items[n + 1] \in S
      BY <1>2, <2>1
    <3> QED
      BY <3>1, <3>2
  <2>3. f[n + 1] = IF items[n + 1] \in set THEN Append(f[n], items[n + 1]) ELSE f[n]
    BY <1>1, <2>1 DEF Keeps
  <2>4. {items[j] : j \in 1 .. n + 1} = {items[j] : j \in 1 .. n} \cup {items[n + 1]}
    BY <2>1
  <2>5. CASE items[n + 1] \in set
    <3> DEFINE s == f[n]
               x == items[n + 1]
    <3>1. f[n + 1] = Append(s, x) /\ s \in Seq(S) /\ x \in S
      BY <2>2, <2>3, <2>5
    <3> HIDE DEF s, x
    <3>2. /\ Len(Append(s, x)) = Len(s) + 1 /\ Len(s) \in Nat /\ Append(s, x)[Len(s) + 1] = x
          /\ \A j \in 1 .. Len(s) : Append(s, x)[j] = s[j]
          /\ DOMAIN Append(s, x) = 1 .. Len(s) + 1 /\ DOMAIN s = 1 .. Len(s)
      BY <3>1, AppendProperties, LenProperties
    <3>3. Range(Append(s, x)) = Range(s) \cup {x}
      <4>1. \A j \in 1 .. Len(s) + 1 : j = Len(s) + 1 \/ j \in 1 .. Len(s)
        BY <3>2
      <4> QED
        BY <3>2, <4>1 DEF Range
    <3>4. Len(s) > 0 => Append(s, x)[1] = s[1]
      BY <3>2
    <3>5. Len(s) = 0 => Append(s, x)[1] = x
      BY <3>2
    <3>6. n = 0 => Range(s) = {} /\ x = items[1]
      BY <1>1, <2>1 DEF s, x, Keeps, Range
    <3>7. Range(s) = {} => Len(s) = 0
      BY <3>2 DEF Range
    <3>8. Range(s) = {items[j] : j \in 1 .. n} \cap set
      BY <2>2 DEF s
    <3>9. items[1] \in set => Len(Append(s, x)) > 0 /\ Append(s, x)[1] = items[1]
      <4>1. CASE n = 0
        BY <3>2, <3>5, <3>6, <3>7, <4>1
      <4>2. CASE n > 0
        <5>1. items[1] \in set => Len(s) > 0 /\ s[1] = items[1]
          BY <2>2, <4>2 DEF s
        <5> QED
          BY <3>2, <3>4, <5>1
      <4> QED
        BY <2>1, <4>1, <4>2
    <3>10. {items[j] : j \in 1 .. n + 1} \cap set = Range(s) \cup {x}
      BY <2>4, <2>5, <3>8 DEF x
    <3>11. Right(n + 1)
      BY <3>1, <3>3, <3>9, <3>10
    <3> QED
      BY <2>1, <3>11
  <2>6. CASE items[n + 1] \notin set
    <3>1. f[n + 1] = f[n]
      BY <2>3, <2>6
    <3>2. {items[j] : j \in 1 .. n + 1} \cap set = {items[j] : j \in 1 .. n} \cap set
      BY <2>4, <2>6
    <3>3. n = 0 => items[1] \notin set
      BY <2>6
    <3> QED
      BY <2>1, <2>2, <3>1, <3>2, <3>3
  <2> QED
    BY <2>5, <2>6
<1>5. Right(m)
  <2> HIDE DEF Right, m
  <2>1. 0 .. m \subseteq S2
    BY <1>2, <1>3, <1>4, BoundedInduction
  <2> QED
    BY <1>2, <2>1
<1>6. f[m] \in Seq(S)
  BY <1>1, <1>2
<1>7. items # <<>> => m > 0
  OBVIOUS
<1>8. Range(items) = {items[j] : j \in 1 .. m}
  BY <1>2 DEF Range
<1>9. Len(f[m]) > 0 => f[m] # <<>>
  OBVIOUS
<1> QED
  BY <1>1, <1>2, <1>5, <1>6, <1>7, <1>8, <1>9

----------------------------------------------------------------------------
LEMMA ListOf ==
  ASSUME NEW S, NEW n \in Nat, NEW s \in [1 .. n -> S]
  PROVE  s \in Seq(S) /\ Len(s) = n
<1>1. s \in Seq(S)
  BY SeqDef
<1>2. Len(s) \in Nat /\ DOMAIN s = 1 .. Len(s) /\ DOMAIN s = 1 .. n
  BY <1>1, LenProperties
<1> QED
  BY <1>1, <1>2

(* FlattenSeq, one list more at a time. *)
LEMMA FlattenUnfolds ==
  ASSUME NEW S, NEW ss \in Seq(Seq(S)), ss # <<>>
  PROVE  \E f \in [1 .. Len(ss) -> Seq(S)] :
           /\ f[1] = ss[1] /\ \A i \in 2 .. Len(ss) : f[i] = f[i - 1] \o ss[i]
           /\ FlattenSeq(ss) = f[Len(ss)]
<1> DEFINE m == Len(ss)
           Body(f) == [i \in 1 .. m |-> IF i = 1 THEN ss[i] ELSE f[i - 1] \o ss[i]]
           F == [i \in 1 .. m - 1 |-> [s \in Seq(S) |-> s \o ss[i + 1]]]
           flat == CHOOSE f : f = Body(f)
<1>1. /\ m \in Nat /\ m > 0 /\ m - 1 \in Nat /\ m # 0 /\ \A i \in 1 .. m : ss[i] \in Seq(S)
      /\ F \in Steps(m - 1, Seq(S))
  <2>1. m \in Nat /\ m > 0 /\ \A i \in 1 .. m : ss[i] \in Seq(S)
    OBVIOUS
  <2>2. m - 1 \in Nat /\ m # 0 /\ \A i \in 1 .. m - 1 : i + 1 \in 1 .. m
    BY <2>1
  <2>3. \A i \in 1 .. m - 1 : ss[i + 1] \in Seq(S)
    BY <2>1, <2>2
  <2>4. \A s, t \in Seq(S) : s \o t \in Seq(S)
    OBVIOUS
  <2> HIDE DEF m
  <2> QED
    BY <2>1, <2>2, <2>3, <2>4 DEF Steps
<1>2. FlattenSeq(ss) = flat[m]
  BY <1>1 DEF FlattenSeq
<1> HIDE DEF m, F
<1>3. PICK g : IsIteration(g, m - 1, Seq(S), ss[1], F)
  <2>1. ss[1] \in Seq(S)
    BY <1>1
  <2> QED
    BY <1>1, <2>1, Iterates
<1> DEFINE h == [i \in 1 .. m |-> g[i - 1]]
<1>4. /\ h \in [1 .. m -> Seq(S)] /\ h[1] = ss[1]
      /\ \A i \in 2 .. m : h[i] = h[i - 1] \o ss[i]
  <2>1. \A i \in 1 .. m : i - 1 \in 0 .. m - 1
    BY <1>1
  <2>2. h \in [1 .. m -> Seq(S)]
    BY <1>3, <2>1 DEF IsIteration
  <2>3. h[1] = ss[1]
    BY <1>1, <1>3 DEF IsIteration
  <2>4. ASSUME NEW i \in 2 .. m PROVE h[i] = h[i - 1] \o ss[i]
    <3>1. /\ i - 1 \in 1 .. m - 1 /\ (i - 1) + 1 = i /\ i \in 1 .. m /\ i - 1 \in 1 .. m
          /\ (i - 1) - 1 \in 0 .. m - 1
      BY <1>1
    <3>2. h[i] = g[i - 1] /\ h[i - 1] = g[(i - 1) - 1] /\ g[(i - 1) - 1] \in Seq(S)
      BY <1>3, <3>1 DEF IsIteration
    <3>3. g[i - 1] = F[i - 1][g[(i - 1) - 1]]
      BY <1>3, <3>1 DEF IsIteration
    <3>4. F[i - 1][g[(i - 1) - 1]] = g[(i - 1) - 1] \o ss[(i - 1) + 1]
      BY <3>1, <3>2 DEF F
    <3> QED
      BY <3>1, <3>2, <3>3, <3>4
  <2> QED
    BY <2>2, <2>3, <2>4
<1> HIDE DEF h
<1>5. h = Body(h)
  <2>1. \A i \in 1 .. m : i = 1 \/ i \in 2 .. m
    BY <1>1
  <2>2. \A i \in 1 .. m : h[i] = IF i = 1 THEN ss[i] ELSE h[i - 1] \o ss[i]
    BY <1>4, <2>1
  <2> QED
    BY <1>4, <2>2
<1>6. flat = Body(flat)
  BY <1>5
<1> HIDE DEF flat
<1> DEFINE same == {n \in Nat : n + 1 <= m => flat[n + 1] = h[n + 1]}
<1>7. 0 \in same
  BY <1>1, <1>4, <1>6
<1>8. ASSUME NEW n \in 0 .. (m - 1) - 1, n \in same PROVE n + 1 \in same
  <2>1. /\ n \in Nat /\ n + 1 <= m /\ (n + 1) + 1 \in 2 .. m /\ (n + 1) + 1 \in 1 .. m
        /\ ((n + 1) + 1) - 1 = n + 1 /\ (n + 1) + 1 # 1 /\ n + 1 \in Nat
    BY <1>1
  <2>2. flat[(n + 1) + 1] = flat[n + 1] \o ss[(n + 1) + 1]
    BY <1>6, <2>1
  <2>3. h[(n + 1) + 1] = h[n + 1] \o ss[(n + 1) + 1]
    BY <1>4, <2>1
  <2>4. flat[n + 1] = h[n + 1]
    BY <1>8, <2>1
  <2> QED
    BY <2>1, <2>2, <2>3, <2>4
<1>9. m - 1 \in same
  <2> HIDE DEF same
  <2>1. 0 .. m - 1 \subseteq same
    BY <1>1, <1>7, <1>8, BoundedInduction
  <2> QED
    BY <1>1, <2>1
<1>10. flat[m] = h[m]
  BY <1>1, <1>9
<1> QED
  BY <1>2, <1>4, <1>10 DEF m

LEMMA FlattenAppend ==
  ASSUME NEW S, NEW ss \in Seq(Seq(S)), NEW s \in Seq(S)
  PROVE  FlattenSeq(ss) \in Seq(S) /\ FlattenSeq(Append(ss, s)) = FlattenSeq(ss) \o s
<1> DEFINE more == Append(ss, s)
           m == Len(ss)
<1>1. /\ m \in Nat /\ more \in Seq(Seq(S)) /\ Len(more) = m + 1 /\ more # <<>> /\ more[m + 1] = s
      /\ \A i \in 1 .. m : more[i] = ss[i]
  <2> DEFINE T == Seq(S)
  <2>1. ss \in Seq(T) /\ s \in T
    OBVIOUS
  <2> HIDE DEF T
  <2>2. /\ more \in Seq(T) /\ Len(more) = m + 1 /\ more[m + 1] = s
        /\ \A i \in 1 .. m : more[i] = ss[i]
    BY <2>1, AppendProperties
  <2>3. m \in Nat /\ more # <<>>
    BY <2>1, <2>2
  <2> QED
    BY <2>2, <2>3 DEF T
<1> HIDE DEF more
<1>2. PICK g \in [1 .. m + 1 -> Seq(S)] :
        /\ g[1] = more[1] /\ \A i \in 2 .. m + 1 : g[i] = g[i - 1] \o more[i]
        /\ FlattenSeq(more) = g[m + 1]
  <2>1. \E g \in [1 .. Len(more) -> Seq(S)] :
          /\ g[1] = more[1] /\ \A i \in 2 .. Len(more) : g[i] = g[i - 1] \o more[i]
          /\ FlattenSeq(more) = g[Len(more)]
    BY <1>1, FlattenUnfolds
  <2> QED
    BY <1>1, <2>1
<1>3. CASE ss = <<>>
  <2>1. FlattenSeq(ss) = <<>> /\ m = 0
    BY <1>3 DEF FlattenSeq
  <2>2. <<>> \o s = s /\ <<>> \in Seq(S)
    OBVIOUS
  <2>3. FlattenSeq(more) = s
    BY <1>1, <1>2, <2>1
  <2> QED
    BY <2>1, <2>2, <2>3 DEF more
<1>4. CASE ss # <<>>
  <2>1. PICK f \in [1 .. m -> Seq(S)] :
          /\ f[1] = ss[1] /\ \A i \in 2 .. m : f[i] = f[i - 1] \o ss[i]
          /\ FlattenSeq(ss) = f[m]
    <3> HIDE DEF m
    <3> QED
      BY <1>4, FlattenUnfolds DEF m
  <2>2. m > 0 /\ m - 1 \in Nat /\ m \in 1 .. m
    BY <1>4
  <2> DEFINE same == {n \in Nat : n + 1 <= m => g[n + 1] = f[n + 1]}
  <2> HIDE DEF m
  <2>3. 0 \in same
    <3>1. 1 \in 1 .. m
      BY <1>1, <2>2
    <3> QED
      BY <1>1, <1>2, <2>1, <3>1
  <2>4. ASSUME NEW n \in 0 .. (m - 1) - 1, n \in same PROVE n + 1 \in same
    <3>1. /\ n \in Nat /\ n + 1 <= m /\ (n + 1) + 1 \in 2 .. m /\ (n + 1) + 1 \in 2 .. m + 1
          /\ (n + 1) + 1 \in 1 .. m /\ ((n + 1) + 1) - 1 = n + 1 /\ n + 1 \in Nat
      BY <1>1, <2>2
    <3>2. g[(n + 1) + 1] = g[n + 1] \o more[(n + 1) + 1] /\ more[(n + 1) + 1] = ss[(n + 1) + 1]
      BY <1>1, <1>2, <3>1
    <3>3. f[(n + 1) + 1] = f[n + 1] \o ss[(n + 1) + 1]
      BY <2>1, <3>1
    <3>4. g[n + 1] = f[n + 1]
      BY <2>4, <3>1
    <3> QED
      BY <3>1, <3>2, <3>3, <3>4
  <2>5. m - 1 \in same
    <3> HIDE DEF same
    <3>1. 0 .. m - 1 \subseteq same
      BY <2>2, <2>3, <2>4, BoundedInduction
    <3> QED
      BY <2>2, <3>1
  <2>6. g[m] = f[m]
    BY <1>1, <2>2, <2>5
  <2>7. g[m + 1] = g[m] \o s
    <3>1. m + 1 \in 2 .. m + 1 /\ (m + 1) - 1 = m
      BY <1>1, <2>2
    <3> QED
      BY <1>1, <1>2, <3>1
  <2> QED
    BY <1>2, <2>1, <2>2, <2>6, <2>7 DEF more
<1> QED
  BY <1>3, <1>4
===============================================================================
