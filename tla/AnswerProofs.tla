---------------------------- MODULE AnswerProofs ----------------------------
(***************************************************************************)
(* Proofs about the two ways an answer is made: ChatTurns, the web's, for  *)
(* any requests, window and usages; and ModelAccess, core-api's, for any   *)
(* chats, jobs, models, prefixes and lengths of an answer.                 *)
(***************************************************************************)
EXTENDS ChatTurns, ModelAccess, ListLemmas, FiniteSetTheorems, FunctionTheorems, NaturalsInduction

\* The step of each action, by name, for the case splits below.
LEMMA TurnsCases ==
  ASSUME [TurnsNext]_turnsVars
  PROVE  \/ \E r \in Requests : Read(r)
         \/ \E r \in Requests : Send(r)
         \/ \E r \in Requests : \E i \in DOMAIN snapshot[r] : Edit(r, i)
         \/ \E r \in Requests : \E i, u \in DOMAIN snapshot[r] : Regenerate(r, i, u)
         \/ \E r \in Requests : Refuse(r)
         \/ \E r \in Requests : Credential(r)
         \/ \E r \in Requests : CredentialFails(r)
         \/ \E r \in Requests : Delta(r)
         \/ \E r \in Requests : Finish(r)
         \/ \E r \in Requests : Crash(r)
         \/ \E i \in Ids : DeleteMessage(i)
         \/ DeleteChat
         \/ UNCHANGED turnsVars
  BY DEF TurnsNext, RequestStep

\* A non-empty set of naturals with an upper bound has a greatest element.
LEMMA Greatest ==
  ASSUME NEW S \in SUBSET Nat, S # {}, NEW b \in Nat, \A p \in S : p <= b
  PROVE  \E p \in S : \A q \in S : q <= p
<1> DEFINE B == {n \in Nat : \A p \in S : p <= n}
<1>1. PICK n \in B : \A m \in B : ~(<<m, n>> \in OpToRel(<, Nat))
  BY NatLessThanWellFounded, WFMin
<1>2. \A m \in B : ~(m < n)
  BY <1>1 DEF OpToRel
<1>3. n \in S
  <2>1. SUFFICES ASSUME n \notin S PROVE FALSE
    OBVIOUS
  <2>2. \A p \in S : p < n
    BY <2>1
  <2>3. PICK p \in S : p < n
    BY <2>2
  <2>4. n - 1 \in B
    BY <2>2, <2>3
  <2> QED
    BY <1>2, <2>4
<1> QED
  BY <1>3

\* The next position is a natural number above all positions.
LEMMA NextPositionIsNew ==
  ASSUME NEW rows, IsTable(rows), NEW b \in Nat,
         \A i \in DOMAIN rows : rows[i].position <= b
  PROVE  /\ NextPosition(rows) \in Nat
         /\ \A i \in DOMAIN rows : rows[i].position < NextPosition(rows)
         /\ NextPosition(rows) <= b + 1
<1>1. Positions(rows) \in SUBSET Nat /\ \A p \in Positions(rows) : p <= b
  BY DEF Positions, IsTable, Row
<1>2. CASE DOMAIN rows = {}
  BY <1>2 DEF NextPosition
<1>3. CASE DOMAIN rows # {}
  <2>1. Positions(rows) # {}
    BY <1>3 DEF Positions
  <2>2. \E p \in Positions(rows) : \A q \in Positions(rows) : q <= p
    BY <1>1, <2>1, Greatest
  <2>3. PICK p \in Positions(rows) :
          /\ \A q \in Positions(rows) : q <= p
          /\ NextPosition(rows) = 1 + p
    BY <1>3, <2>2 DEF NextPosition
  <2>4. p \in Nat /\ p <= b
    BY <1>1
  <2>5. \A i \in DOMAIN rows : rows[i].position \in Positions(rows)
    BY DEF Positions
  <2> QED
    BY <1>1, <2>3, <2>4, <2>5
<1> QED
  BY <1>2, <1>3

-----------------------------------------------------------------------------
\* Rows with positions below a bound: what NextPosition needs to find the last
\* one.  The bound is not fixed, each send may raise it.
Bounded(rows) == \E b \in Nat : \A i \in DOMAIN rows : rows[i].position <= b

\* The parts of TypeOK about the requests and about the chat.
RequestsOK ==
  /\ usage \in Usages
  /\ chatExists \in BOOLEAN
  /\ phase \in [Requests -> {"new", "read", "prepared", "streaming", "over"}]
  /\ snapshot = [r \in Requests |-> snapshot[r]]
  /\ turn \in [Requests -> Turn \cup {NoTurn}]
  /\ answer \in [Requests -> Texts]
  /\ \A r \in Requests :
       /\ IsTable(snapshot[r]) /\ Bounded(snapshot[r])
       /\ phase[r] # "read" => snapshot[r] = NoRows
       /\ phase[r] \in {"prepared", "streaming"} <=> turn[r] \in Turn

RowsOK == IsTable(messages) /\ Bounded(messages)

PairsOK ==
  /\ versions \subseteq (DOMAIN messages) \X Requests
  /\ shown \subseteq (DOMAIN messages) \X Requests

TypeInv == RequestsOK /\ RowsOK /\ PairsOK

LEMMA NoTurnIsNoTurn == NoTurn \notin Turn
<1>1. SUFFICES ASSUME NoTurn \in Turn PROVE FALSE
  OBVIOUS
<1>2. DOMAIN NoTurn = {"question"}
  BY DEF NoTurn
<1>3. DOMAIN NoTurn = {"question", "answer", "prompt"}
  BY <1>1 DEF Turn
<1> QED
  BY <1>2, <1>3

LEMMA NoRowsOK == IsTable(NoRows) /\ Bounded(NoRows) /\ DOMAIN NoRows = {}
BY DEF IsTable, Bounded, NoRows

\* A committed transaction keeps the requests well-formed.
LEMMA CommitRequests ==
  ASSUME RequestsOK, NEW r \in Requests, NEW rows, NEW q \in Ids, NEW a \in Ids, NEW end,
         IsTable(rows), Commit(r, rows, q, a, end)
  PROVE  RequestsOK'
<1>1. PICK P \in SUBSET DOMAIN rows :
        turn' = [turn EXCEPT ![r] = [question |-> q, answer |-> a, prompt |-> P]]
  BY DEF Commit
<1>2. [question |-> q, answer |-> a, prompt |-> P] \in Turn
  BY DEF Turn, IsTable
<1>3. /\ phase' = [phase EXCEPT ![r] = "prepared"]
      /\ snapshot' = [snapshot EXCEPT ![r] = NoRows]
      /\ UNCHANGED <<usage, chatExists, answer>>
  BY DEF Commit
<1>4. ASSUME NEW s \in Requests
      PROVE  /\ IsTable(snapshot'[s]) /\ Bounded(snapshot'[s])
             /\ phase'[s] # "read" => snapshot'[s] = NoRows
             /\ phase'[s] \in {"prepared", "streaming"} <=> turn'[s] \in Turn
  <2>1. CASE s = r
    BY <1>1, <1>2, <1>3, <2>1, NoRowsOK DEF RequestsOK
  <2>2. CASE s # r
    <3>1. snapshot'[s] = snapshot[s] /\ phase'[s] = phase[s] /\ turn'[s] = turn[s]
      BY <1>1, <1>3, <2>2 DEF RequestsOK
    <3> QED
      BY <3>1 DEF RequestsOK
  <2> QED
    BY <2>1, <2>2
<1>5. /\ turn' \in [Requests -> Turn \cup {NoTurn}]
      /\ phase' \in [Requests -> {"new", "read", "prepared", "streaming", "over"}]
      /\ snapshot' = [s \in Requests |-> snapshot'[s]]
  BY <1>1, <1>2, <1>3 DEF RequestsOK
<1> QED
  BY <1>3, <1>4, <1>5 DEF RequestsOK

\* So does the end of a request.
LEMMA OverRequests ==
  ASSUME RequestsOK, NEW r \in Requests, Over(r)
  PROVE  RequestsOK'
<1>1. ASSUME NEW s \in Requests
      PROVE  /\ IsTable(snapshot'[s]) /\ Bounded(snapshot'[s])
             /\ phase'[s] # "read" => snapshot'[s] = NoRows
             /\ phase'[s] \in {"prepared", "streaming"} <=> turn'[s] \in Turn
  <2>1. CASE s = r
    BY <2>1, NoRowsOK, NoTurnIsNoTurn DEF RequestsOK, Over
  <2>2. CASE s # r
    <3>1. snapshot'[s] = snapshot[s] /\ phase'[s] = phase[s] /\ turn'[s] = turn[s]
      BY <2>2 DEF RequestsOK, Over
    <3> QED
      BY <3>1 DEF RequestsOK
  <2> QED
    BY <2>1, <2>2
<1> QED
  BY <1>1 DEF RequestsOK, Over, Texts

LEMMA NewIds ==
  ASSUME NEW r \in Requests
  PROVE  Question(r) \in Ids /\ Answer(r) \in Ids /\ Question(r) # Answer(r)
BY DEF Question, Answer, Ids

\* Rows that are old ones, new ones with a known position, or old ones with
\* another text, form a table again.
LEMMA NewTable ==
  ASSUME RowsOK, NEW rows, NEW b \in Nat, DOMAIN rows \subseteq Ids,
         rows = [i \in DOMAIN rows |-> rows[i]],
         \A i \in DOMAIN rows :
           \/ i \in DOMAIN messages /\ rows[i] = messages[i]
           \/ rows[i] \in Row /\ rows[i].position <= b
  PROVE  IsTable(rows) /\ Bounded(rows)
<1>1. PICK c \in Nat : \A i \in DOMAIN messages : messages[i].position <= c
  BY DEF RowsOK, Bounded
<1>2. \A i \in DOMAIN rows : rows[i] \in Row
  BY DEF RowsOK, IsTable
<1>3. b + c \in Nat /\ b <= b + c /\ c <= b + c
  BY <1>1
<1>4. ASSUME NEW i \in DOMAIN rows PROVE rows[i].position <= b + c
  <2>1. rows[i].position \in Nat
    BY <1>2 DEF Row
  <2>2. CASE i \in DOMAIN messages /\ rows[i] = messages[i]
    BY <1>1, <2>1, <2>2
  <2>3. CASE rows[i].position <= b
    BY <1>1, <2>1, <2>3
  <2> QED
    BY <2>2, <2>3
<1>5. Bounded(rows)
  BY <1>3, <1>4 DEF Bounded
<1> QED
  BY <1>2, <1>5 DEF IsTable

LEMMA WrittenType ==
  ASSUME NEW p \in Nat, NEW t \in Texts
  PROVE  Written(p, t) \in Row /\ Written(p, t).position = p /\ Written(p, t).text = t
BY DEF Written, Row

\* What a text that was read can leave behind.
LEMMA ArchiveType ==
  ASSUME RequestsOK, NEW r \in Requests, NEW i \in DOMAIN snapshot[r]
  PROVE  /\ snapshot[r][i].position \in Nat
         /\ Archive(r, i) \subseteq {i} \X Requests
<1>1. snapshot[r][i] \in Row
  BY DEF RequestsOK, IsTable
<1>2. /\ snapshot[r][i].position \in Nat
      /\ snapshot[r][i].text \in Requests \cup {Empty}
  BY <1>1 DEF Row, Texts
<1> QED
  BY <1>2 DEF Archive

-----------------------------------------------------------------------------
\* The three ways a turn can rewrite the chat.
LEMMA SendType == ASSUME TypeInv, NEW r \in Requests, Send(r) PROVE TypeInv'
<1> DEFINE p == NextPosition(snapshot[r])
           q == Question(r)
           a == Answer(r)
           rows == [i \in DOMAIN messages \cup {q, a} |->
                      IF i = q THEN Written(p, r)
                      ELSE IF i = a THEN Written(p + 1, Empty) ELSE messages[i]]
<1>1. /\ Commit(r, rows, q, a, p) /\ versions' = versions
      /\ shown' = shown \cup {<<q, r>>} /\ messages' = rows
  BY DEF Send, Commit
<1>2. p \in Nat
  <2>1. IsTable(snapshot[r]) /\ Bounded(snapshot[r])
    BY DEF TypeInv, RequestsOK
  <2> QED
    BY <2>1, NextPositionIsNew DEF Bounded
<1>3. q \in Ids /\ a \in Ids /\ q # a
  BY NewIds
<1>4. Written(p, r) \in Row /\ Written(p + 1, Empty) \in Row
      /\ Written(p, r).position = p /\ Written(p + 1, Empty).position = p + 1
  BY <1>2, WrittenType DEF Texts
<1>5. IsTable(rows) /\ Bounded(rows)
  <2>1. DOMAIN rows \subseteq Ids /\ rows = [i \in DOMAIN rows |-> rows[i]]
    BY <1>3 DEF TypeInv, RowsOK, IsTable
  <2>2. \A i \in DOMAIN rows :
           \/ i \in DOMAIN messages /\ rows[i] = messages[i]
           \/ rows[i] \in Row /\ rows[i].position <= p + 1
    BY <1>2, <1>4
  <2>3. p + 1 \in Nat /\ RowsOK
    BY <1>2 DEF TypeInv
  <2> HIDE DEF rows, p
  <2> QED
    BY <2>1, <2>2, <2>3, NewTable
<1>6. RequestsOK'
  <2> HIDE DEF rows, p
  <2> QED
    BY <1>1, <1>3, <1>5, CommitRequests DEF TypeInv
<1>7. PairsOK'
  BY <1>1 DEF TypeInv, PairsOK
<1> QED
  BY <1>1, <1>5, <1>6, <1>7 DEF TypeInv, RowsOK

LEMMA EditType ==
  ASSUME TypeInv, NEW r \in Requests, NEW i \in DOMAIN snapshot[r], Edit(r, i)
  PROVE  TypeInv'
<1> DEFINE p == snapshot[r][i].position
           kept == UpTo(messages, p)
           a == Answer(r)
           rows == [j \in kept \cup {a} |->
                      IF j = i THEN Written(p, r)
                      ELSE IF j = a THEN Written(p + 1, Empty) ELSE messages[j]]
<1>1. /\ Commit(r, rows, i, a, p) /\ messages' = rows /\ i \in DOMAIN messages
      /\ versions' = Of(versions \cup Archive(r, i), kept)
      /\ shown' = Of(shown \cup {<<i, r>>}, kept)
  BY DEF Edit, Commit
<1>2. p \in Nat /\ Archive(r, i) \subseteq {i} \X Requests
  BY ArchiveType DEF TypeInv
<1>3. a \in Ids /\ i \in Ids /\ kept \subseteq DOMAIN messages
  BY <1>1, NewIds DEF TypeInv, RowsOK, IsTable, UpTo
<1>4. Written(p, r) \in Row /\ Written(p + 1, Empty) \in Row
      /\ Written(p, r).position = p /\ Written(p + 1, Empty).position = p + 1
  BY <1>2, WrittenType DEF Texts
<1>5. IsTable(rows) /\ Bounded(rows)
  <2>1. DOMAIN rows \subseteq Ids /\ rows = [j \in DOMAIN rows |-> rows[j]]
    BY <1>3 DEF TypeInv, RowsOK, IsTable
  <2>2. \A j \in DOMAIN rows :
           \/ j \in DOMAIN messages /\ rows[j] = messages[j]
           \/ rows[j] \in Row /\ rows[j].position <= p + 1
    BY <1>2, <1>3, <1>4
  <2> HIDE DEF rows, p
  <2> QED
    BY <1>2, <2>1, <2>2, NewTable DEF TypeInv
<1>6. RequestsOK'
  <2> HIDE DEF rows, p
  <2> QED
    BY <1>1, <1>3, <1>5, CommitRequests DEF TypeInv
<1>7. PairsOK'
  <2>1. kept \subseteq DOMAIN messages'
    BY <1>1
  <2>2. versions' \subseteq kept \X Requests /\ shown' \subseteq kept \X Requests
    BY <1>1, <1>2 DEF TypeInv, PairsOK, Of
  <2> QED
    BY <2>1, <2>2 DEF PairsOK
<1> QED
  BY <1>1, <1>5, <1>6, <1>7 DEF TypeInv, RowsOK

LEMMA RegenerateType ==
  ASSUME TypeInv, NEW r \in Requests, NEW i \in DOMAIN snapshot[r],
         NEW u \in DOMAIN snapshot[r], Regenerate(r, i, u)
  PROVE  TypeInv'
<1> DEFINE p == snapshot[r][i].position
           kept == UpTo(messages, p)
           rows == [j \in kept |-> IF j = i THEN Written(p, Empty) ELSE messages[j]]
<1>1. /\ Commit(r, rows, u, i, p - 1) /\ messages' = rows
      /\ i \in DOMAIN messages /\ u \in DOMAIN messages
      /\ versions' = Of(versions \cup Archive(r, i), kept)
      /\ shown' = Of(shown, kept)
  BY DEF Regenerate, Commit
<1>2. p \in Nat /\ Archive(r, i) \subseteq {i} \X Requests
  BY ArchiveType DEF TypeInv
<1>3. u \in Ids /\ i \in Ids /\ kept \subseteq DOMAIN messages
  BY <1>1 DEF TypeInv, RowsOK, IsTable, UpTo
<1>4. Written(p, Empty) \in Row /\ Written(p, Empty).position = p
  BY <1>2, WrittenType DEF Texts
<1>5. IsTable(rows) /\ Bounded(rows)
  <2>1. DOMAIN rows \subseteq Ids /\ rows = [j \in DOMAIN rows |-> rows[j]]
    BY <1>3 DEF TypeInv, RowsOK, IsTable
  <2>2. \A j \in DOMAIN rows :
           \/ j \in DOMAIN messages /\ rows[j] = messages[j]
           \/ rows[j] \in Row /\ rows[j].position <= p
    BY <1>2, <1>3, <1>4
  <2> HIDE DEF rows, p
  <2> QED
    BY <1>2, <2>1, <2>2, NewTable DEF TypeInv
<1>6. RequestsOK'
  <2> HIDE DEF rows, p
  <2> QED
    BY <1>1, <1>3, <1>5, CommitRequests DEF TypeInv
<1>7. PairsOK'
  <2>1. kept \subseteq DOMAIN messages'
    BY <1>1
  <2>2. versions' \subseteq kept \X Requests /\ shown' \subseteq kept \X Requests
    BY <1>1, <1>2 DEF TypeInv, PairsOK, Of
  <2> QED
    BY <2>1, <2>2 DEF PairsOK
<1> QED
  BY <1>1, <1>5, <1>6, <1>7 DEF TypeInv, RowsOK

\* A request that ends without touching the chat.
LEMMA OverType ==
  ASSUME TypeInv, NEW r \in Requests, Over(r), UNCHANGED <<messages, versions, shown>>
  PROVE  TypeInv'
<1>1. RequestsOK'
  BY OverRequests DEF TypeInv
<1> QED
  BY <1>1 DEF TypeInv, RowsOK, PairsOK, Bounded

\* finalizeAssistantMessage changes texts and flags, never which rows there are
\* or where they are.
LEMMA FinalizedRows ==
  ASSUME RequestsOK, IsTable(messages), NEW r \in Requests, NEW truncated \in BOOLEAN,
         phase[r] = "streaming"
  PROVE  /\ IsTable(Finalized(r, truncated))
         /\ DOMAIN Finalized(r, truncated) = DOMAIN messages
         /\ \A i \in DOMAIN messages :
              /\ Finalized(r, truncated)[i].position = messages[i].position
              /\ i # turn[r].answer => Finalized(r, truncated)[i] = messages[i]
              /\ i = turn[r].answer => Finalized(r, truncated)[i].text = answer[r]
<1>1. answer[r] \in Texts /\ \A i \in DOMAIN messages : messages[i] \in Row
  BY DEF RequestsOK, IsTable
<1>2. ASSUME NEW i \in DOMAIN messages
      PROVE  /\ Finalized(r, truncated)[i] \in Row
             /\ Finalized(r, truncated)[i].position = messages[i].position
             /\ i # turn[r].answer => Finalized(r, truncated)[i] = messages[i]
             /\ i = turn[r].answer => Finalized(r, truncated)[i].text = answer[r]
  BY <1>1 DEF Finalized, Row
<1> QED
  BY <1>2 DEF Finalized, IsTable

LEMMA FinishType == ASSUME TypeInv, NEW r \in Requests, Finish(r) PROVE TypeInv'
<1>1. PICK truncated \in BOOLEAN : messages' = Finalized(r, truncated)
  BY DEF Finish
<1>2. phase[r] = "streaming" /\ Over(r) /\ versions' = versions
  BY DEF Finish
<1>3. /\ IsTable(messages') /\ DOMAIN messages' = DOMAIN messages
      /\ \A i \in DOMAIN messages : messages'[i].position = messages[i].position
  BY <1>1, <1>2, FinalizedRows DEF TypeInv, RowsOK
<1>4. RowsOK'
  BY <1>3 DEF TypeInv, RowsOK, Bounded
<1>5. PairsOK'
  <2>1. answer[r] \in Requests \cup {Empty}
    BY DEF TypeInv, RequestsOK, Texts
  <2>2. shown' \subseteq (DOMAIN messages) \X Requests
    BY <2>1 DEF Finish, TypeInv, PairsOK
  <2> QED
    BY <1>2, <1>3, <2>2 DEF TypeInv, PairsOK
<1>6. RequestsOK'
  BY <1>2, OverRequests DEF TypeInv
<1> QED
  BY <1>4, <1>5, <1>6 DEF TypeInv

LEMMA TypeStep == TypeInv /\ [TurnsNext]_turnsVars => TypeInv'
<1> SUFFICES ASSUME TypeInv, [TurnsNext]_turnsVars PROVE TypeInv'
  OBVIOUS
<1> USE DEF TypeInv
<1>1. ASSUME NEW r \in Requests, Read(r) PROVE TypeInv'
  <2>1. \A s \in Requests :
          /\ IsTable(snapshot'[s]) /\ Bounded(snapshot'[s])
          /\ phase'[s] # "read" => snapshot'[s] = NoRows
          /\ phase'[s] \in {"prepared", "streaming"} <=> turn'[s] \in Turn
    BY <1>1 DEF Read, RequestsOK, RowsOK
  <2>2. RequestsOK'
    BY <1>1, <2>1 DEF Read, RequestsOK
  <2> QED
    BY <1>1, <2>2 DEF Read, RowsOK, PairsOK, Bounded
<1>2. ASSUME NEW r \in Requests, Send(r) PROVE TypeInv'
  BY <1>2, SendType
<1>3. ASSUME NEW r \in Requests, NEW i \in DOMAIN snapshot[r], Edit(r, i) PROVE TypeInv'
  BY <1>3, EditType
<1>4. ASSUME NEW r \in Requests, NEW i \in DOMAIN snapshot[r], NEW u \in DOMAIN snapshot[r],
             Regenerate(r, i, u)
      PROVE  TypeInv'
  BY <1>4, RegenerateType
<1>5. ASSUME NEW r \in Requests, Refuse(r) \/ CredentialFails(r) \/ Crash(r) PROVE TypeInv'
  BY <1>5, OverType DEF Refuse, CredentialFails, Crash
<1>6. ASSUME NEW r \in Requests, Credential(r) PROVE TypeInv'
  <2>1. RequestsOK'
    BY <1>6 DEF Credential, RequestsOK, Bounded
  <2> QED
    BY <1>6, <2>1 DEF Credential, RowsOK, PairsOK, Bounded
<1>7. ASSUME NEW r \in Requests, Delta(r) PROVE TypeInv'
  <2>1. RequestsOK'
    BY <1>7 DEF Delta, RequestsOK, Texts, Bounded
  <2> QED
    BY <1>7, <2>1 DEF Delta, RowsOK, PairsOK, Bounded
<1>8. ASSUME NEW r \in Requests, Finish(r) PROVE TypeInv'
  BY <1>8, FinishType
<1>9. ASSUME NEW i \in Ids, DeleteMessage(i) PROVE TypeInv'
  <2>1. RequestsOK'
    BY <1>9 DEF DeleteMessage, RequestsOK, Bounded
  <2>2. RowsOK'
    BY <1>9 DEF DeleteMessage, RowsOK, IsTable, Bounded
  <2> QED
    BY <1>9, <2>1, <2>2 DEF DeleteMessage, PairsOK, Of
<1>10. ASSUME DeleteChat PROVE TypeInv'
  <2>1. RequestsOK'
    BY <1>10 DEF DeleteChat, RequestsOK, Bounded
  <2> QED
    BY <1>10, <2>1, NoRowsOK DEF DeleteChat, RowsOK, PairsOK, Bounded
<1>11. CASE UNCHANGED turnsVars
  BY <1>11 DEF turnsVars, RequestsOK, RowsOK, PairsOK, Bounded
<1> QED
  BY <1>1, <1>2, <1>3, <1>4, <1>5, <1>6, <1>7, <1>8, <1>9, <1>10, <1>11, TurnsCases

\* Requests, rows and pairs are well-formed: what the invariants below rest on.
THEOREM TypeInvariant == TurnsSpec => []TypeInv
<1>1. TurnsInit => TypeInv
  <2> SUFFICES ASSUME TurnsInit PROVE TypeInv
    OBVIOUS
  <2>1. \A r \in Requests : turn[r] \notin Turn
    BY NoTurnIsNoTurn DEF TurnsInit
  <2>2. RequestsOK
    BY <2>1, NoRowsOK DEF TurnsInit, RequestsOK, Texts
  <2>3. RowsOK /\ PairsOK
    BY NoRowsOK DEF TurnsInit, RowsOK, PairsOK
  <2> QED
    BY <2>2, <2>3 DEF TypeInv
<1> QED
  BY <1>1, TypeStep, PTL DEF TurnsSpec

\* Type correctness of Spec.
THEOREM TypeCorrect == TurnsSpec => []TypeOK
<1>1. TypeInv => TypeOK
  BY DEF TypeInv, RequestsOK, RowsOK, PairsOK, TypeOK
<1> QED
  BY <1>1, TypeInvariant, PTL

-----------------------------------------------------------------------------
\* The order of the messages.  Under "turns" and "preparations" what a request
\* has read stays true until it commits, as far as ids and positions go; that is
\* what makes its next position, or its rewind point, a good one.
SameOrder(rows) ==
  /\ DOMAIN rows = DOMAIN messages
  /\ \A i \in DOMAIN messages : rows[i].position = messages[i].position

Fresh ==
  \A r \in Requests :
    phase[r] = "read" =>
      /\ \A s \in Requests : phase[s] = "read" => s = r
      /\ SameOrder(snapshot[r])

OrderInv == usage # "free" => UniquePositions /\ Fresh

\* Under "turns" and "preparations", Alone excludes every preparation.
LEMMA AloneMeansAlone ==
  ASSUME TypeInv, usage # "free", Alone, NEW r \in Requests
  PROVE  phase[r] # "read"
<1>1. usage = "turns" \/ usage = "preparations"
  BY ChatAssumption DEF TypeInv, RequestsOK
<1> QED
  BY <1>1 DEF Alone, Active, Preparing

\* After a commit nobody is preparing any more.
LEMMA CommitFresh ==
  ASSUME TypeInv, Fresh, NEW r \in Requests, phase[r] = "read",
         NEW rows, NEW q, NEW a, NEW end, Commit(r, rows, q, a, end)
  PROVE  Fresh'
<1>1. phase' = [phase EXCEPT ![r] = "prepared"]
  BY DEF Commit
<1>2. \A s \in Requests : phase'[s] # "read"
  BY <1>1 DEF Fresh, TypeInv, RequestsOK
<1> QED
  BY <1>2 DEF Fresh

\* A step that keeps the order of the rows and starts no preparation.
LEMMA SameRowsOrder ==
  ASSUME TypeInv, UniquePositions, Fresh,
         \A s \in Requests : phase'[s] = "read" => phase[s] = "read" /\ snapshot'[s] = snapshot[s],
         DOMAIN messages' = DOMAIN messages,
         \A i \in DOMAIN messages : messages'[i].position = messages[i].position
  PROVE  UniquePositions' /\ Fresh'
BY DEF UniquePositions, Fresh, SameOrder

LEMMA OverKeepsReaders ==
  ASSUME TypeInv, NEW r \in Requests, Over(r)
  PROVE  \A s \in Requests : phase'[s] = "read" => phase[s] = "read" /\ snapshot'[s] = snapshot[s]
BY DEF Over, TypeInv, RequestsOK

LEMMA OrderStep == TypeInv /\ OrderInv /\ [TurnsNext]_turnsVars => OrderInv'
<1>1. SUFFICES ASSUME TypeInv, OrderInv, [TurnsNext]_turnsVars, usage' # "free"
               PROVE  UniquePositions' /\ Fresh'
  BY DEF OrderInv
<1>2. usage' = usage
  BY <1>1, TurnsCases DEF Read, Send, Edit, Regenerate, Commit, Refuse, Over, Credential,
     CredentialFails, Delta, Finish, Crash, DeleteMessage, DeleteChat, turnsVars
<1>3. UniquePositions /\ Fresh /\ usage # "free"
  BY <1>1, <1>2 DEF OrderInv
<1>4. \A i \in DOMAIN messages : messages[i].position \in Nat
  BY <1>1 DEF TypeInv, RowsOK, IsTable, Row
<1>a. ASSUME NEW r \in Requests, Read(r) PROVE UniquePositions' /\ Fresh'
  <2>1. \A s \in Requests : phase[s] # "read"
    BY <1>1, <1>3, <1>a, AloneMeansAlone DEF Read
  <2>2. /\ \A s \in Requests : phase'[s] = "read" => s = r
        /\ snapshot'[r] = messages /\ messages' = messages
    BY <1>1, <1>a, <2>1 DEF Read, TypeInv, RequestsOK
  <2> QED
    BY <1>3, <2>2 DEF UniquePositions, Fresh, SameOrder
<1>b. ASSUME NEW r \in Requests, Send(r) PROVE UniquePositions' /\ Fresh'
  <2> DEFINE p == NextPosition(snapshot[r])
             rows == [i \in DOMAIN messages \cup {Question(r), Answer(r)} |->
                        IF i = Question(r) THEN Written(p, r)
                        ELSE IF i = Answer(r) THEN Written(p + 1, Empty) ELSE messages[i]]
  <2>1. /\ phase[r] = "read" /\ messages' = rows
        /\ Commit(r, rows, Question(r), Answer(r), p)
    BY <1>b DEF Send, Commit
  <2>2. p \in Nat /\ \A i \in DOMAIN messages : messages[i].position < p
    <3>1. IsTable(snapshot[r]) /\ Bounded(snapshot[r])
      BY <1>1 DEF TypeInv, RequestsOK
    <3>2. SameOrder(snapshot[r])
      BY <1>3, <2>1 DEF Fresh
    <3> QED
      BY <3>1, <3>2, NextPositionIsNew DEF Bounded, SameOrder
  <2>3. \A i \in DOMAIN rows :
          rows[i].position = IF i = Question(r) THEN p
                             ELSE IF i = Answer(r) THEN p + 1 ELSE messages[i].position
    BY DEF Written
  <2>4. UniquePositions'
    <3>1. SUFFICES ASSUME NEW j \in DOMAIN rows, NEW k \in DOMAIN rows,
                          rows[j].position = rows[k].position
                   PROVE  j = k
      BY <2>1 DEF UniquePositions
    <3>2. \A i \in DOMAIN rows :
            i \in {Question(r), Answer(r)} \/ i \in DOMAIN messages
      OBVIOUS
    <3>3. Question(r) # Answer(r)
      BY NewIds
    <3> HIDE DEF rows, p
    <3> QED
      BY <1>3, <1>4, <2>2, <2>3, <3>1, <3>2, <3>3 DEF UniquePositions
  <2> HIDE DEF rows, p
  <2> QED
    BY <1>1, <1>3, <2>1, <2>4, CommitFresh
<1>c. ASSUME NEW r \in Requests, NEW i \in DOMAIN snapshot[r], Edit(r, i)
      PROVE  UniquePositions' /\ Fresh'
  <2> DEFINE p == snapshot[r][i].position
             kept == UpTo(messages, p)
             rows == [j \in kept \cup {Answer(r)} |->
                        IF j = i THEN Written(p, r)
                        ELSE IF j = Answer(r) THEN Written(p + 1, Empty) ELSE messages[j]]
  <2>1. /\ phase[r] = "read" /\ messages' = rows /\ i \in DOMAIN messages
        /\ Commit(r, rows, i, Answer(r), p)
    BY <1>c DEF Edit, Commit
  <2>2. p = messages[i].position /\ p \in Nat
    BY <1>3, <1>4, <2>1 DEF Fresh, SameOrder
  <2>3. \A j \in kept : j \in DOMAIN messages /\ messages[j].position <= p
    BY DEF UpTo
  <2>4. \A j \in DOMAIN rows :
          \/ j = Answer(r) /\ j # i /\ rows[j].position = p + 1
          \/ j \in DOMAIN messages /\ rows[j].position = messages[j].position
                                   /\ rows[j].position <= p
    BY <2>1, <2>2, <2>3 DEF Written
  <2>5. UniquePositions'
    <3>1. SUFFICES ASSUME NEW j \in DOMAIN rows, NEW k \in DOMAIN rows,
                          rows[j].position = rows[k].position
                   PROVE  j = k
      BY <2>1 DEF UniquePositions
    <3> HIDE DEF rows, p
    <3>2. CASE j = Answer(r) /\ rows[j].position = p + 1 /\ k # j
      <4>1. rows[k].position <= p /\ p \in Nat /\ rows[k].position = p + 1
        BY <2>2, <2>4, <3>1, <3>2
      <4> QED
        BY <4>1
    <3>3. CASE k = Answer(r) /\ rows[k].position = p + 1 /\ k # j
      <4>1. rows[j].position <= p /\ p \in Nat /\ rows[j].position = p + 1
        BY <2>2, <2>4, <3>1, <3>3
      <4> QED
        BY <4>1
    <3> QED
      BY <1>3, <2>4, <3>1, <3>2, <3>3 DEF UniquePositions
  <2> HIDE DEF rows, p
  <2> QED
    BY <1>1, <1>3, <2>1, <2>5, CommitFresh
<1>d. ASSUME NEW r \in Requests, NEW i \in DOMAIN snapshot[r], NEW u \in DOMAIN snapshot[r],
             Regenerate(r, i, u)
      PROVE  UniquePositions' /\ Fresh'
  <2> DEFINE p == snapshot[r][i].position
             kept == UpTo(messages, p)
             rows == [j \in kept |-> IF j = i THEN Written(p, Empty) ELSE messages[j]]
  <2>1. /\ phase[r] = "read" /\ messages' = rows /\ i \in DOMAIN messages
        /\ Commit(r, rows, u, i, p - 1)
    BY <1>d DEF Regenerate, Commit
  <2>2. p = messages[i].position
    BY <1>3, <2>1 DEF Fresh, SameOrder
  <2>3. \A j \in DOMAIN rows :
          j \in DOMAIN messages /\ rows[j].position = messages[j].position
    BY <2>2 DEF Written, UpTo
  <2>4. UniquePositions'
    BY <1>3, <2>1, <2>3 DEF UniquePositions
  <2> HIDE DEF rows, p
  <2> QED
    BY <1>1, <1>3, <2>1, <2>4, CommitFresh
<1>e. ASSUME NEW r \in Requests, Refuse(r) \/ CredentialFails(r) \/ Crash(r)
      PROVE  UniquePositions' /\ Fresh'
  BY <1>1, <1>3, <1>e, OverKeepsReaders, SameRowsOrder DEF Refuse, CredentialFails, Crash
<1>f. ASSUME NEW r \in Requests, Credential(r) \/ Delta(r) PROVE UniquePositions' /\ Fresh'
  <2>1. \A s \in Requests : phase'[s] = "read" => phase[s] = "read" /\ snapshot'[s] = snapshot[s]
    BY <1>1, <1>f DEF Credential, Delta, TypeInv, RequestsOK
  <2> QED
    BY <1>1, <1>3, <1>f, <2>1, SameRowsOrder DEF Credential, Delta
<1>g. ASSUME NEW r \in Requests, Finish(r) PROVE UniquePositions' /\ Fresh'
  <2>1. PICK truncated \in BOOLEAN : messages' = Finalized(r, truncated)
    BY <1>g DEF Finish
  <2>2. phase[r] = "streaming" /\ Over(r)
    BY <1>g DEF Finish
  <2>3. /\ DOMAIN messages' = DOMAIN messages
        /\ \A i \in DOMAIN messages : messages'[i].position = messages[i].position
    BY <1>1, <2>1, <2>2, FinalizedRows DEF TypeInv, RowsOK
  <2> QED
    BY <1>1, <1>3, <2>2, <2>3, OverKeepsReaders, SameRowsOrder
<1>h. ASSUME NEW i \in Ids, DeleteMessage(i) PROVE UniquePositions' /\ Fresh'
  <2>1. \A s \in Requests : phase'[s] # "read"
    BY <1>1, <1>3, <1>h, AloneMeansAlone DEF DeleteMessage
  <2> QED
    BY <1>3, <1>h, <2>1 DEF DeleteMessage, UniquePositions, Fresh
<1>i. ASSUME DeleteChat PROVE UniquePositions' /\ Fresh'
  <2>1. \A s \in Requests : phase'[s] # "read"
    BY <1>1, <1>3, <1>i, AloneMeansAlone DEF DeleteChat
  <2> QED
    BY <1>i, <2>1, NoRowsOK DEF DeleteChat, UniquePositions, Fresh
<1>j. CASE UNCHANGED turnsVars
  BY <1>3, <1>j DEF turnsVars, UniquePositions, Fresh, SameOrder
<1> QED
  BY <1>1, <1>a, <1>b, <1>c, <1>d, <1>e, <1>f, <1>g, <1>h, <1>i, <1>j, TurnsCases

\* As long as no two turns are prepared at once, positions are unique.
THEOREM OrderIsTotal == TurnsSpec => []PositionsUnique
<1>1. TurnsInit => OrderInv
  BY NoRowsOK DEF TurnsInit, OrderInv, UniquePositions, Fresh
<1>2. OrderInv => PositionsUnique
  BY DEF OrderInv, PositionsUnique
<1> QED
  BY <1>1, <1>2, OrderStep, TypeInvariant, PTL DEF TurnsSpec

-----------------------------------------------------------------------------
\* The texts of the messages.  Ids are not used before their request commits,
\* streams write to answer rows only, and what a request has read of the texts
\* it may archive is still what the rows hold.
Unused ==
  \A r \in Requests :
    phase[r] \in {"new", "read"} =>
      Question(r) \notin DOMAIN messages /\ Answer(r) \notin DOMAIN messages

AnswersGoToAnswers ==
  \A r \in Requests : turn[r] \in Turn => turn[r].answer.role = "assistant"

SameTexts(roles) ==
  \A r \in Requests : phase[r] = "read" =>
    \A i \in DOMAIN messages : i.role \in roles => snapshot[r][i].text = messages[i].text

\* Under "turns" there is one request at work, and the row it streams for is
\* still empty.
OneAtWork == \A r, s \in Active : r = s
EmptyRow ==
  \A r \in Requests :
    turn[r] \in Turn /\ turn[r].answer \in DOMAIN messages
      => messages[turn[r].answer].text = Empty

TextInv ==
  /\ Unused
  /\ AnswersGoToAnswers
  /\ usage # "free" => SameTexts({"user"}) /\ Shown({"user"})
  /\ usage = "turns" =>
       OneAtWork /\ EmptyRow /\ SameTexts({"assistant"}) /\ Shown({"assistant"})

\* A commit changes the phase and the turn of its request only.
LEMMA CommitTurn ==
  ASSUME TypeInv, NEW r \in Requests,
         NEW rows, NEW q \in Ids, NEW a \in Ids, NEW end, Commit(r, rows, q, a, end)
  PROVE  /\ \A s \in Requests : s # r => phase'[s] = phase[s] /\ turn'[s] = turn[s]
         /\ phase'[r] = "prepared" /\ turn'[r].answer = a
BY DEF Commit, TypeInv, RequestsOK

LEMMA OwnIds ==
  ASSUME NEW r \in Requests, NEW s \in Requests, r # s
  PROVE  {Question(r), Answer(r)} \cap {Question(s), Answer(s)} = {}
BY DEF Question, Answer

\* Ids stay unused, and turns keep their answer rows.
LEMMA UnusedStep ==
  TypeInv /\ Unused /\ AnswersGoToAnswers /\ [TurnsNext]_turnsVars => Unused' /\ AnswersGoToAnswers'
<1> SUFFICES ASSUME TypeInv, Unused, AnswersGoToAnswers, [TurnsNext]_turnsVars
             PROVE  Unused' /\ AnswersGoToAnswers'
  OBVIOUS
<1> USE DEF Unused, AnswersGoToAnswers
<1>1. ASSUME NEW r \in Requests, Read(r) PROVE Unused' /\ AnswersGoToAnswers'
  BY <1>1 DEF Read, TypeInv, RequestsOK
<1>2. ASSUME NEW r \in Requests, NEW rows, NEW q \in Ids, NEW a \in Ids, NEW end,
             Commit(r, rows, q, a, end), a.role = "assistant",
             DOMAIN rows \subseteq DOMAIN messages \cup {Question(r), Answer(r)}
      PROVE  Unused' /\ AnswersGoToAnswers'
  <2>1. /\ \A s \in Requests : s # r => phase'[s] = phase[s] /\ turn'[s] = turn[s]
        /\ phase'[r] = "prepared" /\ turn'[r].answer = a
    BY <1>2, CommitTurn
  <2>2. messages' = rows
    BY <1>2 DEF Commit
  <2>3. AnswersGoToAnswers'
    BY <1>2, <2>1
  <2>4. ASSUME NEW s \in Requests, phase'[s] \in {"new", "read"}
        PROVE  Question(s) \notin DOMAIN messages' /\ Answer(s) \notin DOMAIN messages'
    <3>1. s # r /\ phase[s] \in {"new", "read"}
      BY <2>1, <2>4
    <3> QED
      BY <1>2, <2>2, <3>1, OwnIds
  <2> QED
    BY <2>3, <2>4
<1>3. ASSUME NEW r \in Requests, Send(r) PROVE Unused' /\ AnswersGoToAnswers'
  <2>1. Question(r) \in Ids /\ Answer(r) \in Ids /\ Answer(r).role = "assistant"
    BY NewIds DEF Answer
  <2> QED
    BY <1>2, <1>3, <2>1 DEF Send
<1>4. ASSUME NEW r \in Requests, NEW i \in DOMAIN snapshot[r], Edit(r, i)
      PROVE  Unused' /\ AnswersGoToAnswers'
  <2>1. i \in Ids /\ Answer(r) \in Ids /\ Answer(r).role = "assistant"
    BY <1>4, NewIds DEF Answer, Edit, TypeInv, RowsOK, IsTable
  <2>2. UpTo(messages, snapshot[r][i].position) \subseteq DOMAIN messages
    BY DEF UpTo
  <2> QED
    BY <1>2, <1>4, <2>1, <2>2 DEF Edit
<1>5. ASSUME NEW r \in Requests, NEW i \in DOMAIN snapshot[r], NEW u \in DOMAIN snapshot[r],
             Regenerate(r, i, u)
      PROVE  Unused' /\ AnswersGoToAnswers'
  <2>1. i \in Ids /\ u \in Ids /\ i.role = "assistant"
    BY <1>5 DEF Regenerate, TypeInv, RowsOK, IsTable
  <2>2. UpTo(messages, snapshot[r][i].position) \subseteq DOMAIN messages
    BY DEF UpTo
  <2> QED
    BY <1>2, <1>5, <2>1, <2>2 DEF Regenerate
<1>6. ASSUME NEW r \in Requests, Over(r), DOMAIN messages' \subseteq DOMAIN messages
      PROVE  Unused' /\ AnswersGoToAnswers'
  BY <1>6, NoTurnIsNoTurn DEF Over, TypeInv, RequestsOK
<1>7. ASSUME NEW r \in Requests, Refuse(r) \/ CredentialFails(r) \/ Crash(r)
      PROVE  Unused' /\ AnswersGoToAnswers'
  BY <1>6, <1>7 DEF Refuse, CredentialFails, Crash
<1>8. ASSUME NEW r \in Requests, Credential(r) \/ Delta(r) PROVE Unused' /\ AnswersGoToAnswers'
  BY <1>8 DEF Credential, Delta, TypeInv, RequestsOK
<1>9. ASSUME NEW r \in Requests, Finish(r) PROVE Unused' /\ AnswersGoToAnswers'
  BY <1>6, <1>9 DEF Finish, Finalized
<1>10. ASSUME NEW i \in Ids, DeleteMessage(i) PROVE Unused' /\ AnswersGoToAnswers'
  BY <1>10 DEF DeleteMessage
<1>11. ASSUME DeleteChat PROVE Unused' /\ AnswersGoToAnswers'
  BY <1>11, NoRowsOK DEF DeleteChat
<1>12. CASE UNCHANGED turnsVars
  BY <1>12 DEF turnsVars
<1> QED
  BY <1>1, <1>3, <1>4, <1>5, <1>7, <1>8, <1>9, <1>10, <1>11, <1>12, TurnsCases

\* Every step keeps the shown texts of the given roles, if what is archived is
\* what the rows hold and streams overwrite empty rows only.
LEMMA ShownStep ==
  ASSUME TypeInv, Unused, Fresh, AnswersGoToAnswers, NEW roles,
         SameTexts(roles), Shown(roles), "assistant" \in roles => EmptyRow, [TurnsNext]_turnsVars
  PROVE  Shown(roles)'
<1>1. \A v \in shown : v[1] \in DOMAIN messages /\ v[2] \in Requests /\ v = <<v[1], v[2]>>
  BY DEF TypeInv, PairsOK
<1>2. \A v \in shown : v[1].role \in roles => messages[v[1]].text = v[2] \/ v \in versions
  BY DEF Shown
<1>3. SUFFICES ASSUME NEW v \in shown', v[1].role \in roles
               PROVE  messages'[v[1]].text = v[2] \/ v \in versions'
  BY DEF Shown
<1>4. ASSUME NEW r \in Requests, NEW i \in DOMAIN snapshot[r], phase[r] = "read",
             i \in DOMAIN messages, v \in shown, v[1] = i
      PROVE  v \in versions \cup Archive(r, i)
  <2>1. snapshot[r][i].text = messages[i].text
    BY <1>3, <1>4 DEF SameTexts
  <2>2. CASE messages[i].text = v[2]
    <3>1. v = <<i, snapshot[r][i].text>> /\ v[2] # Empty
      BY <1>1, <1>4, <2>1, <2>2, ChatAssumption
    <3> QED
      BY <3>1 DEF Archive
  <2> QED
    BY <1>2, <1>3, <1>4, <2>2
<1>a. ASSUME UNCHANGED <<messages, versions, shown>>
      PROVE  messages'[v[1]].text = v[2] \/ v \in versions'
  BY <1>2, <1>3, <1>a
<1>b. ASSUME NEW r \in Requests, Send(r)
      PROVE  messages'[v[1]].text = v[2] \/ v \in versions'
  <2>1. /\ phase[r] = "read" /\ versions' = versions
        /\ shown' = shown \cup {<<Question(r), r>>}
        /\ \A i \in DOMAIN messages \ {Question(r), Answer(r)} : messages'[i] = messages[i]
        /\ messages'[Question(r)].text = r
    BY <1>b DEF Send, Commit, Written
  <2>2. CASE v = <<Question(r), r>>
    BY <2>1, <2>2
  <2>3. CASE v \in shown
    <3>1. v[1] \in DOMAIN messages \ {Question(r), Answer(r)}
      BY <1>1, <2>1, <2>3 DEF Unused
    <3> QED
      BY <1>2, <1>3, <2>1, <2>3, <3>1
  <2> QED
    BY <2>1, <2>2, <2>3
<1>c. ASSUME NEW r \in Requests, NEW i \in DOMAIN snapshot[r], Edit(r, i)
      PROVE  messages'[v[1]].text = v[2] \/ v \in versions'
  <2> DEFINE kept == UpTo(messages, snapshot[r][i].position)
  <2>1. /\ phase[r] = "read" /\ i \in DOMAIN messages
        /\ versions' = Of(versions \cup Archive(r, i), kept)
        /\ shown' = Of(shown \cup {<<i, r>>}, kept)
        /\ \A j \in kept \ {i, Answer(r)} : messages'[j] = messages[j]
        /\ i \in kept => messages'[i].text = r
    BY <1>c DEF Edit, Commit, Written
  <2>2. v[1] \in kept
    BY <2>1 DEF Of
  <2>3. CASE v = <<i, r>>
    BY <2>1, <2>2, <2>3
  <2>4. CASE v \in shown /\ v[1] = i
    BY <1>4, <2>1, <2>2, <2>4 DEF Of
  <2>5. CASE v \in shown /\ v[1] # i
    <3>1. v[1] \in kept \ {i, Answer(r)}
      BY <1>1, <2>1, <2>2, <2>5 DEF Unused
    <3> QED
      BY <1>2, <1>3, <2>1, <2>2, <2>5, <3>1 DEF Of
  <2> QED
    BY <2>1, <2>3, <2>4, <2>5 DEF Of
<1>d. ASSUME NEW r \in Requests, NEW i \in DOMAIN snapshot[r], NEW u \in DOMAIN snapshot[r],
             Regenerate(r, i, u)
      PROVE  messages'[v[1]].text = v[2] \/ v \in versions'
  <2> DEFINE kept == UpTo(messages, snapshot[r][i].position)
  <2>1. /\ phase[r] = "read" /\ i \in DOMAIN messages
        /\ versions' = Of(versions \cup Archive(r, i), kept)
        /\ shown' = Of(shown, kept)
        /\ \A j \in kept \ {i} : messages'[j] = messages[j]
    BY <1>d DEF Regenerate, Commit
  <2>2. v[1] \in kept /\ v \in shown
    BY <2>1 DEF Of
  <2>3. CASE v[1] = i
    BY <1>4, <2>1, <2>2, <2>3 DEF Of
  <2>4. CASE v[1] # i
    BY <1>2, <1>3, <2>1, <2>2, <2>4 DEF Of
  <2> QED
    BY <2>3, <2>4
<1>e. ASSUME NEW r \in Requests, Finish(r)
      PROVE  messages'[v[1]].text = v[2] \/ v \in versions'
  <2> DEFINE a == turn[r].answer
  <2>1. PICK truncated \in BOOLEAN : messages' = Finalized(r, truncated)
    BY <1>e DEF Finish
  <2>2. /\ phase[r] = "streaming" /\ versions' = versions
        /\ shown' = IF a \in DOMAIN messages /\ answer[r] # Empty
                      THEN shown \cup {<<a, answer[r]>>} ELSE shown
    BY <1>e DEF Finish
  <2>3. \A i \in DOMAIN messages :
          /\ i # a => messages'[i] = messages[i]
          /\ i = a => messages'[i].text = answer[r]
    BY <2>1, <2>2, FinalizedRows DEF TypeInv, RowsOK
  <2>4. turn[r] \in Turn /\ a.role = "assistant"
    BY <2>2 DEF TypeInv, RequestsOK, AnswersGoToAnswers
  <2>5. CASE v \notin shown
    <3>1. v = <<a, answer[r]>> /\ a \in DOMAIN messages
      BY <2>2, <2>5
    <3> QED
      BY <2>3, <3>1
  <2>6. CASE v \in shown /\ v[1] = a
    <3>1. messages[a].text = Empty
      BY <1>1, <1>3, <2>4, <2>6 DEF EmptyRow
    <3>2. messages[v[1]].text # v[2]
      BY <1>1, <2>6, <3>1, ChatAssumption
    <3> QED
      BY <1>2, <1>3, <2>2, <2>6, <3>2
  <2>7. CASE v \in shown /\ v[1] # a
    BY <1>1, <1>2, <1>3, <2>2, <2>3, <2>7
  <2> QED
    BY <2>5, <2>6, <2>7
<1>f. ASSUME NEW i \in Ids, DeleteMessage(i)
      PROVE  messages'[v[1]].text = v[2] \/ v \in versions'
  <2>1. v \in shown /\ v[1] \in DOMAIN messages \ {i}
    BY <1>f DEF DeleteMessage, Of
  <2> QED
    BY <1>2, <1>3, <1>f, <2>1 DEF DeleteMessage, Of
<1>g. ASSUME DeleteChat PROVE messages'[v[1]].text = v[2] \/ v \in versions'
  BY <1>3, <1>g DEF DeleteChat
<1> QED
  BY <1>a, <1>b, <1>c, <1>d, <1>e, <1>f, <1>g, TurnsCases
     DEF Read, Refuse, Credential, CredentialFails, Delta, Crash, turnsVars

\* Where the readers of the next state come from.
LEMMA Readers ==
  ASSUME TypeInv, Fresh, usage # "free", [TurnsNext]_turnsVars
  PROVE  \/ \E r \in Requests : Read(r)
         \/ \A s \in Requests : phase'[s] # "read"
         \/ /\ UNCHANGED messages \/ \E r \in Requests : Finish(r)
            /\ \A s \in Requests :
                 phase'[s] = "read" => phase[s] = "read" /\ snapshot'[s] = snapshot[s]
<1>1. ASSUME NEW r \in Requests, phase[r] = "read",
             NEW rows, NEW q, NEW a, NEW end, Commit(r, rows, q, a, end)
      PROVE  \A s \in Requests : phase'[s] # "read"
  BY <1>1 DEF Commit, Fresh, TypeInv, RequestsOK
<1>2. ASSUME NEW r \in Requests, Send(r) PROVE \A s \in Requests : phase'[s] # "read"
  BY <1>1, <1>2 DEF Send
<1>3. ASSUME NEW r \in Requests, NEW i \in DOMAIN snapshot[r], Edit(r, i)
      PROVE  \A s \in Requests : phase'[s] # "read"
  BY <1>1, <1>3 DEF Edit
<1>4. ASSUME NEW r \in Requests, NEW i \in DOMAIN snapshot[r], NEW u \in DOMAIN snapshot[r],
             Regenerate(r, i, u)
      PROVE  \A s \in Requests : phase'[s] # "read"
  BY <1>1, <1>4 DEF Regenerate
<1>5. ASSUME NEW r \in Requests, Over(r)
      PROVE  \A s \in Requests :
               phase'[s] = "read" => phase[s] = "read" /\ snapshot'[s] = snapshot[s]
  BY <1>5, OverKeepsReaders
<1>6. ASSUME NEW r \in Requests, Credential(r) \/ Delta(r)
      PROVE  /\ UNCHANGED messages
             /\ \A s \in Requests :
                  phase'[s] = "read" => phase[s] = "read" /\ snapshot'[s] = snapshot[s]
  BY <1>6 DEF Credential, Delta, TypeInv, RequestsOK
<1>7. ASSUME NEW i \in Ids, DeleteMessage(i) PROVE \A s \in Requests : phase'[s] # "read"
  BY <1>7, AloneMeansAlone DEF DeleteMessage
<1>8. ASSUME DeleteChat PROVE \A s \in Requests : phase'[s] # "read"
  BY <1>8, AloneMeansAlone DEF DeleteChat
<1> QED
  BY <1>2, <1>3, <1>4, <1>5, <1>6, <1>7, <1>8, TurnsCases
     DEF Refuse, CredentialFails, Finish, Crash, turnsVars

\* Snapshots stay true about the texts of user rows, and under "turns" about all.
LEMMA SameTextsStep ==
  ASSUME TypeInv, Fresh, AnswersGoToAnswers, usage # "free", [TurnsNext]_turnsVars,
         NEW roles, SameTexts(roles), "assistant" \in roles => OneAtWork
  PROVE  SameTexts(roles)'
<1>1. ASSUME NEW r \in Requests, Read(r) PROVE SameTexts(roles)'
  <2>1. \A s \in Requests : phase[s] # "read"
    BY <1>1, AloneMeansAlone DEF Read
  <2>2. /\ \A s \in Requests : phase'[s] = "read" => s = r
        /\ snapshot'[r] = messages /\ messages' = messages
    BY <1>1, <2>1 DEF Read, TypeInv, RequestsOK
  <2> QED
    BY <2>2 DEF SameTexts
<1>2. CASE \A s \in Requests : phase'[s] # "read"
  BY <1>2 DEF SameTexts
<1>3. CASE /\ UNCHANGED messages
           /\ \A s \in Requests :
                phase'[s] = "read" => phase[s] = "read" /\ snapshot'[s] = snapshot[s]
  BY <1>3 DEF SameTexts
<1>4. ASSUME NEW r \in Requests, Finish(r),
             \A s \in Requests :
               phase'[s] = "read" => phase[s] = "read" /\ snapshot'[s] = snapshot[s]
      PROVE  SameTexts(roles)'
  <2>1. PICK truncated \in BOOLEAN : messages' = Finalized(r, truncated)
    BY <1>4 DEF Finish
  <2>2. phase[r] = "streaming"
    BY <1>4 DEF Finish
  <2>3. /\ DOMAIN messages' = DOMAIN messages
        /\ \A i \in DOMAIN messages : i # turn[r].answer => messages'[i] = messages[i]
    BY <2>1, <2>2, FinalizedRows DEF TypeInv, RowsOK
  <2>4. turn[r].answer.role = "assistant"
    BY <2>2 DEF AnswersGoToAnswers, TypeInv, RequestsOK
  <2>5. CASE "assistant" \in roles
    <3>1. \A s \in Requests : phase[s] # "read"
      BY <2>2, <2>5 DEF OneAtWork, Active
    <3> QED
      BY <1>4, <3>1 DEF SameTexts
  <2>6. CASE "assistant" \notin roles
    BY <1>4, <2>3, <2>4, <2>6 DEF SameTexts
  <2> QED
    BY <2>5, <2>6
<1> QED
  BY <1>1, <1>2, <1>3, <1>4, Readers

\* Under "turns" the one request at work streams for an empty row.
LEMMA AtWorkStep ==
  ASSUME TypeInv, usage = "turns", OneAtWork, EmptyRow, [TurnsNext]_turnsVars
  PROVE  OneAtWork' /\ EmptyRow'
<1>0. \A r \in Requests : turn[r] \in Turn => r \in Active
  BY DEF Active, TypeInv, RequestsOK
<1>1. ASSUME NEW r \in Requests, Read(r) PROVE OneAtWork' /\ EmptyRow'
  <2>1. Active = {}
    BY <1>1 DEF Read, Alone
  <2>2. Active' \subseteq {r} /\ turn' = turn
    BY <1>1, <2>1 DEF Read, Active, TypeInv, RequestsOK
  <2> QED
    BY <1>0, <2>1, <2>2 DEF OneAtWork, EmptyRow
<1>2. ASSUME NEW r \in Requests, phase[r] = "read",
             NEW rows, NEW q \in Ids, NEW a \in Ids, NEW end, Commit(r, rows, q, a, end),
             rows[a].text = Empty
      PROVE  OneAtWork' /\ EmptyRow'
  <2>1. /\ \A s \in Requests : s # r => phase'[s] = phase[s] /\ turn'[s] = turn[s]
        /\ phase'[r] = "prepared" /\ turn'[r].answer = a
    BY <1>2, CommitTurn
  <2>2. messages' = rows
    BY <1>2 DEF Commit
  <2>3. \A s \in Requests : s # r => s \notin Active
    BY <1>2 DEF OneAtWork, Active
  <2>4. Active' \subseteq {r}
    BY <2>1, <2>3 DEF Active
  <2> QED
    BY <1>0, <1>2, <2>1, <2>2, <2>3, <2>4 DEF OneAtWork, EmptyRow
<1>3. ASSUME NEW r \in Requests, Send(r) PROVE OneAtWork' /\ EmptyRow'
  BY <1>2, <1>3, NewIds DEF Send, Written
<1>4. ASSUME NEW r \in Requests, NEW i \in DOMAIN snapshot[r], Edit(r, i)
      PROVE  OneAtWork' /\ EmptyRow'
  <2>1. i \in Ids /\ Answer(r) \in Ids /\ i # Answer(r)
    BY <1>4, NewIds DEF Edit, Answer, TypeInv, RowsOK, IsTable
  <2> QED
    BY <1>2, <1>4, <2>1 DEF Edit, Written
<1>5. ASSUME NEW r \in Requests, NEW i \in DOMAIN snapshot[r], NEW u \in DOMAIN snapshot[r],
             Regenerate(r, i, u)
      PROVE  OneAtWork' /\ EmptyRow'
  <2>1. PICK rows :
          /\ rows = [j \in UpTo(messages, snapshot[r][i].position) |->
                       IF j = i THEN Written(snapshot[r][i].position, Empty) ELSE messages[j]]
          /\ Commit(r, rows, u, i, snapshot[r][i].position - 1)
    BY <1>5 DEF Regenerate
  <2>2. phase[r] = "read" /\ i \in Ids /\ u \in Ids /\ messages' = rows
    BY <1>5, <2>1 DEF Regenerate, Commit, TypeInv, RowsOK, IsTable
  <2>3. i \in DOMAIN rows => rows[i].text = Empty
    BY <2>1 DEF Written
  <2>4. /\ \A s \in Requests : s # r => phase'[s] = phase[s] /\ turn'[s] = turn[s]
        /\ phase'[r] = "prepared" /\ turn'[r].answer = i
    BY <2>1, <2>2, CommitTurn
  <2>5. \A s \in Requests : s # r => s \notin Active
    BY <2>2 DEF OneAtWork, Active
  <2>6. Active' \subseteq {r}
    BY <2>4, <2>5 DEF Active
  <2> QED
    BY <1>0, <2>2, <2>3, <2>4, <2>5, <2>6 DEF OneAtWork, EmptyRow
<1>6. ASSUME NEW r \in Requests, r \in Active, Over(r) PROVE OneAtWork' /\ EmptyRow'
  <2>1. Active' = {} /\ \A s \in Requests : turn'[s] \notin Turn
    BY <1>0, <1>6, NoTurnIsNoTurn DEF OneAtWork, Active, Over, TypeInv, RequestsOK
  <2> QED
    BY <2>1 DEF OneAtWork, EmptyRow
<1>7. ASSUME NEW r \in Requests,
             Refuse(r) \/ CredentialFails(r) \/ Crash(r) \/ Finish(r)
      PROVE  OneAtWork' /\ EmptyRow'
  BY <1>6, <1>7 DEF Refuse, CredentialFails, Crash, Finish, Active
<1>8. ASSUME NEW r \in Requests, Credential(r) \/ Delta(r) PROVE OneAtWork' /\ EmptyRow'
  <2>1. Active' = Active /\ messages' = messages /\ turn' = turn
    BY <1>8 DEF Credential, Delta, Active, TypeInv, RequestsOK
  <2> QED
    BY <2>1 DEF OneAtWork, EmptyRow
<1>9. ASSUME DeleteChat \/ \E i \in Ids : DeleteMessage(i) PROVE OneAtWork' /\ EmptyRow'
  <2>1. Active = {} /\ Active' = Active /\ turn' = turn
    BY <1>9 DEF DeleteChat, DeleteMessage, Alone, Active
  <2> QED
    BY <1>0, <2>1 DEF OneAtWork, EmptyRow
<1>10. CASE UNCHANGED turnsVars
  BY <1>10 DEF turnsVars, OneAtWork, EmptyRow, Active
<1> QED
  BY <1>1, <1>3, <1>4, <1>5, <1>7, <1>8, <1>9, <1>10, TurnsCases

LEMMA TextStep == TypeInv /\ OrderInv /\ TextInv /\ [TurnsNext]_turnsVars => TextInv'
<1> SUFFICES ASSUME TypeInv, OrderInv, TextInv, [TurnsNext]_turnsVars PROVE TextInv'
  OBVIOUS
<1>1. usage' = usage
  BY TurnsCases DEF Read, Send, Edit, Regenerate, Commit, Refuse, Over, Credential,
     CredentialFails, Delta, Finish, Crash, DeleteMessage, DeleteChat, turnsVars
<1>2. Unused' /\ AnswersGoToAnswers'
  BY UnusedStep DEF TextInv
<1>3. ASSUME usage # "free" PROVE SameTexts({"user"})' /\ Shown({"user"})'
  <2>1. Fresh /\ SameTexts({"user"}) /\ Shown({"user"}) /\ Unused /\ AnswersGoToAnswers
    BY <1>3 DEF OrderInv, TextInv
  <2>2. "assistant" \notin {"user"}
    OBVIOUS
  <2>3. SameTexts({"user"})'
    BY <1>3, <2>1, <2>2, SameTextsStep
  <2>4. Shown({"user"})'
    BY <2>1, <2>2, ShownStep
  <2> QED
    BY <2>3, <2>4
<1>4. ASSUME usage = "turns"
      PROVE  OneAtWork' /\ EmptyRow' /\ SameTexts({"assistant"})' /\ Shown({"assistant"})'
  <2>1. /\ Fresh /\ SameTexts({"assistant"}) /\ Shown({"assistant"}) /\ Unused
        /\ AnswersGoToAnswers /\ OneAtWork /\ EmptyRow /\ usage # "free"
    BY <1>4 DEF OrderInv, TextInv
  <2>2. OneAtWork' /\ EmptyRow'
    BY <1>4, <2>1, AtWorkStep
  <2>3. SameTexts({"assistant"})'
    BY <2>1, SameTextsStep
  <2>4. Shown({"assistant"})'
    BY <2>1, ShownStep
  <2> QED
    BY <2>2, <2>3, <2>4
<1> QED
  BY <1>1, <1>2, <1>3, <1>4 DEF TextInv

\* Both invariants hold of an empty chat.
LEMMA TurnsBegin == TurnsInit => OrderInv /\ TextInv
<1> SUFFICES ASSUME TurnsInit PROVE OrderInv /\ TextInv
  OBVIOUS
<1>1. \A r \in Requests : turn[r] \notin Turn /\ phase[r] = "new"
  BY NoTurnIsNoTurn DEF TurnsInit
<1>2. DOMAIN messages = {} /\ shown = {} /\ Active = {}
  BY NoRowsOK, <1>1 DEF TurnsInit, Active
<1> QED
  BY <1>1, <1>2 DEF OrderInv, UniquePositions, Fresh,
     TextInv, Unused, AnswersGoToAnswers, SameTexts, OneAtWork, EmptyRow, Shown

\* No text that a message has shown is lost while the message is there.
THEOREM NothingIsUnarchived == TurnsSpec => []NothingUnarchived
<1>1. TextInv => NothingUnarchived
  BY DEF TextInv, NothingUnarchived
<1> QED
  BY <1>1, TurnsBegin, OrderStep, TextStep, TypeInvariant, PTL DEF TurnsSpec

-----------------------------------------------------------------------------
\* Of the messages up to a question, the prompt has the question as its last one.
LEMMA PromptEndsThere ==
  ASSUME NEW rows, IsTable(rows), NEW p \in Nat, NEW P \in SUBSET DOMAIN rows, IsPrompt(rows, p, P),
         \A i, j \in DOMAIN rows : rows[i].position = rows[j].position => i = j,
         NEW q \in DOMAIN rows, rows[q].position = p, rows[q].text # Empty
  PROVE  IsLast(q, [i \in P |-> rows[i]])
<1> DEFINE H == {i \in UpTo(rows, p) : rows[i].text # Empty}
           place == [i \in H |-> rows[i].position]
<1>1. \A i \in DOMAIN rows : rows[i].position \in Nat
  BY DEF IsTable, Row
<1>2. q \in H /\ \A i \in H \ {q} : rows[i].position < p
  BY <1>1 DEF UpTo
<1>3. /\ P \subseteq H
      /\ Cardinality(P) = IF Cardinality(H) < Window THEN Cardinality(H) ELSE Window
      /\ \A i \in P, j \in H \ P : rows[j].position <= rows[i].position
  BY DEF IsPrompt
<1>4. IsFiniteSet(H)
  <2>1. \A i \in H : rows[i].position \in 0 .. p
    BY <1>1 DEF UpTo
  <2>2. \A i, j \in H : rows[i].position = rows[j].position => i = j
    BY DEF UpTo
  <2>3. place \in Injection(H, 0 .. p)
    BY <2>1, <2>2 DEF Injection, IsInjective
  <2>4. IsFiniteSet(0 .. p)
    <3>1. 0 \in Int /\ p \in Int
      OBVIOUS
    <3> QED
      BY ONLY <3>1, FS_Interval
  <2> HIDE DEF H, place
  <2> QED
    BY <2>3, <2>4, FS_Injection
<1> HIDE DEF H
<1>5. Cardinality(H) \in Nat /\ Cardinality(H) # 0
  BY <1>2, <1>4, FS_CardinalityType, FS_EmptySet
<1>6. Cardinality(P) # 0
  BY <1>3, <1>5, ChatAssumption
<1>7. PICK i \in P : TRUE
  BY <1>6, FS_EmptySet
<1>8. q \in P
  <2>1. SUFFICES ASSUME q \notin P PROVE FALSE
    OBVIOUS
  <2>2. i \in H \ {q} /\ rows[q].position <= rows[i].position
    BY <1>2, <1>3, <1>7, <2>1
  <2> QED
    BY <1>1, <1>2, <2>2
<1> QED
  BY <1>2, <1>3, <1>8 DEF IsLast

\* A request that is being prepared commits its own transaction.
LEMMA PreparesItself ==
  ASSUME TypeInv, [TurnsNext]_turnsVars, NEW r \in Requests, Prepares(r)
  PROVE  \/ Send(r)
         \/ \E i \in DOMAIN snapshot[r] : Edit(r, i)
         \/ \E i, u \in DOMAIN snapshot[r] : Regenerate(r, i, u)
<1>1. phase \in [Requests -> {"new", "read", "prepared", "streaming", "over"}]
  BY DEF TypeInv, RequestsOK
<1>2. ASSUME NEW s \in Requests, NEW rows, NEW q, NEW a, NEW end, Commit(s, rows, q, a, end)
      PROVE  s = r
  BY <1>1, <1>2 DEF Commit, Prepares
<1>3. ASSUME NEW s \in Requests
      PROVE  ~Read(s) /\ ~Refuse(s) /\ ~Credential(s) /\ ~CredentialFails(s) /\ ~Delta(s)
             /\ ~Finish(s) /\ ~Crash(s)
  BY <1>1 DEF Read, Refuse, Credential, CredentialFails, Delta, Finish, Crash, Over, Prepares
<1>4. (\A i \in Ids : ~DeleteMessage(i)) /\ ~DeleteChat /\ ~UNCHANGED turnsVars
  BY DEF DeleteMessage, DeleteChat, turnsVars, Prepares
<1>5. \A s \in Requests : Send(s) => s = r
  BY <1>2 DEF Send
<1>6. \A s \in Requests : \A i : Edit(s, i) => s = r
  BY <1>2 DEF Edit
<1>7. \A s \in Requests : \A i, u : Regenerate(s, i, u) => s = r
  BY <1>2 DEF Regenerate
<1> QED
  BY <1>3, <1>4, <1>5, <1>6, <1>7, TurnsCases, Zenon

\* In each intent, the prepared turn comes last; see TurnsComeLast.
LEMMA PreparedComesLast ==
  ASSUME TypeInv, TypeInv', OrderInv, OrderInv', Unused, [TurnsNext]_turnsVars, usage # "free",
         NEW r \in Requests, Prepares(r)
  PROVE  EndsWithTurn(r, messages', turn'[r])
<1>1. /\ Fresh /\ usage' = usage /\ UniquePositions' /\ phase[r] = "read"
      /\ IsTable(messages) /\ IsTable(messages')
  <2>1. usage' = usage
    BY PreparesItself DEF Send, Edit, Regenerate, Commit
  <2> QED
    BY <2>1 DEF OrderInv, Prepares, TypeInv, RowsOK
<1>2. SameOrder(snapshot[r])
  BY <1>1 DEF Fresh
<1>3. \A i \in DOMAIN messages : messages[i].position \in Nat
  BY <1>1 DEF IsTable, Row
<1>4. \A i \in DOMAIN messages' : messages'[i].position \in Nat
  BY <1>1 DEF IsTable, Row
<1>5. \A i, j \in DOMAIN messages' : messages'[i].position = messages'[j].position => i = j
  BY <1>1 DEF UniquePositions
<1>6. Question(r) \notin DOMAIN messages /\ Answer(r) \notin DOMAIN messages /\ r # Empty
  BY <1>1, ChatAssumption DEF Unused
<1>7. ASSUME NEW q, NEW a, NEW end, NEW rows, Commit(r, rows, q, a, end)
      PROVE  /\ messages' = rows
             /\ \E P \in SUBSET DOMAIN rows :
                  IsPrompt(rows, end, P) /\ turn'[r] = [question |-> q, answer |-> a, prompt |-> P]
  BY <1>7 DEF Commit, TypeInv, RequestsOK
<1> DEFINE Ends(q, a, p) ==
      /\ turn'[r].question = q /\ turn'[r].answer = a
      /\ IsPrompt(messages', p, turn'[r].prompt) /\ turn'[r].prompt \in SUBSET DOMAIN messages'
<1>8. ASSUME NEW p \in Nat, NEW q, Ends(q, Answer(r), p), q # Answer(r),
             q \in DOMAIN messages', Answer(r) \in DOMAIN messages',
             messages'[q] = Written(p, r), messages'[Answer(r)] = Written(p + 1, Empty),
             \A j \in DOMAIN messages' : j # Answer(r) => messages'[j].position <= p
      PROVE  EndsWithTurn(r, messages', turn'[r])
  <2>1. /\ messages'[q].position = p /\ messages'[q].text = r
        /\ messages'[Answer(r)].position = p + 1 /\ messages'[Answer(r)].text = Empty
    BY <1>8 DEF Written
  <2>2. IsLast(Answer(r), messages')
    BY <1>4, <1>8, <2>1 DEF IsLast
  <2>3. \A j \in DOMAIN messages' \ {q, Answer(r)} : messages'[j].position < p
    BY <1>4, <1>5, <1>8, <2>1
  <2>4. IsLast(q, [j \in DOMAIN messages' \ {Answer(r)} |-> messages'[j]])
    BY <1>8, <2>1, <2>3 DEF IsLast
  <2>5. IsLast(q, [j \in turn'[r].prompt |-> messages'[j]])
    BY <1>1, <1>5, <1>6, <1>8, <2>1, PromptEndsThere
  <2> QED
    BY <1>8, <2>1, <2>2, <2>4, <2>5 DEF EndsWithTurn
<1>a. CASE Send(r)
  <2> DEFINE p == NextPosition(snapshot[r])
             rows == [i \in DOMAIN messages \cup {Question(r), Answer(r)} |->
                        IF i = Question(r) THEN Written(p, r)
                        ELSE IF i = Answer(r) THEN Written(p + 1, Empty) ELSE messages[i]]
  <2>1. Commit(r, rows, Question(r), Answer(r), p)
    BY <1>a DEF Send
  <2>2. p \in Nat /\ \A i \in DOMAIN messages : messages[i].position < p
    <3>1. IsTable(snapshot[r]) /\ Bounded(snapshot[r])
      BY DEF TypeInv, RequestsOK
    <3> QED
      BY <1>2, <3>1, NextPositionIsNew DEF Bounded, SameOrder
  <2> HIDE DEF p, rows
  <2>3. messages' = rows /\ Ends(Question(r), Answer(r), p)
    <3> HIDE DEF Ends
    <3>1. /\ messages' = rows
          /\ \E P \in SUBSET DOMAIN rows :
               /\ IsPrompt(rows, p, P)
               /\ turn'[r] = [question |-> Question(r), answer |-> Answer(r), prompt |-> P]
      BY <1>7, <2>1
    <3> QED
      BY <3>1 DEF Ends
  <2>4. Question(r) # Answer(r)
    BY NewIds
  <2>5. /\ DOMAIN messages' = DOMAIN messages \cup {Question(r), Answer(r)}
        /\ messages'[Question(r)] = Written(p, r)
        /\ messages'[Answer(r)] = Written(p + 1, Empty)
        /\ \A j \in DOMAIN messages : messages'[j] = messages[j]
    BY <1>6, <2>3, <2>4 DEF rows
  <2>6. \A j \in DOMAIN messages' : j # Answer(r) => messages'[j].position <= p
    BY <1>3, <2>2, <2>5 DEF Written
  <2> QED
    BY <1>8, <2>2, <2>3, <2>4, <2>5, <2>6
<1>b. ASSUME NEW i \in DOMAIN snapshot[r], Edit(r, i)
      PROVE  EndsWithTurn(r, messages', turn'[r])
  <2> DEFINE p == snapshot[r][i].position
             kept == UpTo(messages, p)
             rows == [j \in kept \cup {Answer(r)} |->
                        IF j = i THEN Written(p, r)
                        ELSE IF j = Answer(r) THEN Written(p + 1, Empty) ELSE messages[j]]
  <2>1. Commit(r, rows, i, Answer(r), p) /\ i \in DOMAIN messages
    BY <1>b DEF Edit
  <2>2. p = messages[i].position /\ p \in Nat
    BY <1>2, <1>3, <2>1 DEF SameOrder
  <2>3. i \in kept /\ \A j \in kept : j \in DOMAIN messages /\ messages[j].position <= p
    BY <2>1, <2>2 DEF UpTo
  <2> HIDE DEF p, kept, rows
  <2>4. messages' = rows /\ Ends(i, Answer(r), p)
    <3> HIDE DEF Ends
    <3>1. /\ messages' = rows
          /\ \E P \in SUBSET DOMAIN rows :
               /\ IsPrompt(rows, p, P)
               /\ turn'[r] = [question |-> i, answer |-> Answer(r), prompt |-> P]
      BY <1>7, <2>1
    <3> QED
      BY <3>1 DEF Ends
  <2>5. i # Answer(r)
    BY <1>6, <2>1
  <2>6. /\ DOMAIN messages' = kept \cup {Answer(r)}
        /\ messages'[i] = Written(p, r)
        /\ messages'[Answer(r)] = Written(p + 1, Empty)
        /\ \A j \in kept \ {i} : messages'[j] = messages[j]
    BY <1>6, <2>3, <2>4, <2>5 DEF rows
  <2>7. \A j \in DOMAIN messages' : j # Answer(r) => messages'[j].position <= p
    BY <2>2, <2>3, <2>6 DEF Written
  <2> QED
    BY <1>8, <2>2, <2>3, <2>4, <2>5, <2>6, <2>7
<1>c. ASSUME NEW i \in DOMAIN snapshot[r], NEW u \in DOMAIN snapshot[r], Regenerate(r, i, u)
      PROVE  EndsWithTurn(r, messages', turn'[r])
  <2> DEFINE p == snapshot[r][i].position
             kept == UpTo(messages, p)
             rows == [j \in kept |-> IF j = i THEN Written(p, Empty) ELSE messages[j]]
  <2>1. Commit(r, rows, u, i, p - 1) /\ i \in DOMAIN messages
    BY <1>c DEF Regenerate
  <2>2. p = messages[i].position /\ p \in Nat
    BY <1>2, <1>3, <2>1 DEF SameOrder
  <2>3. i \in kept /\ \A j \in kept : j \in DOMAIN messages /\ messages[j].position <= p
    BY <2>1, <2>2 DEF UpTo
  <2> HIDE DEF p, kept, rows
  <2>4. messages' = rows /\ turn'[r].answer = i
    <3> HIDE DEF Ends
    <3>1. /\ messages' = rows
          /\ \E P \in SUBSET DOMAIN rows :
               /\ IsPrompt(rows, p - 1, P)
               /\ turn'[r] = [question |-> u, answer |-> i, prompt |-> P]
      BY <1>7, <2>1
    <3> QED
      BY <3>1 DEF Ends
  <2>5. /\ DOMAIN messages' = kept /\ messages'[i] = Written(p, Empty)
        /\ \A j \in kept \ {i} : messages'[j] = messages[j]
    BY <2>3, <2>4 DEF rows
  <2>6. messages'[i].position = p /\ messages'[i].text = Empty
    BY <2>5 DEF Written
  <2>7. IsLast(i, messages')
    BY <1>3, <1>4, <1>5, <2>2, <2>3, <2>5, <2>6 DEF IsLast
  <2>8. i # Answer(r)
    BY <1>6, <2>1
  <2> QED
    BY <2>4, <2>6, <2>7, <2>8 DEF EndsWithTurn
<1> QED
  BY <1>a, <1>b, <1>c, PreparesItself

\* A turn that is prepared alone ends the chat with its empty answer, and its prompt with
\* its question.
THEOREM TurnsComeLast == TurnsSpec => TurnsEndTheChat
<1>1. TypeInv /\ TypeInv' /\ OrderInv /\ OrderInv' /\ TextInv /\ [TurnsNext]_turnsVars =>
        [usage # "free" =>
           \A r \in Requests : Prepares(r) => EndsWithTurn(r, messages', turn'[r])]_turnsVars
  BY PreparedComesLast DEF TextInv
<1>2. TurnsSpec => [](TypeInv /\ OrderInv /\ TextInv)
  BY TurnsBegin, OrderStep, TextStep, TypeInvariant, PTL DEF TurnsSpec
<1> QED
  BY <1>1, <1>2, PTL DEF TurnsSpec, TurnsEndTheChat

-----------------------------------------------------------------------------
\* In every usage: the only steps that add rows are those that commit a turn, and
\* they add the ids of a request that had none.
LEMMA NewRows ==
  ASSUME TypeInv, [TurnsNext]_turnsVars, NEW i \in DOMAIN messages', i \notin DOMAIN messages
  PROVE  \E r \in Requests : phase[r] = "read" /\ i \in {Question(r), Answer(r)}
<1>1. ASSUME NEW r \in Requests, Send(r)
      PROVE  phase[r] = "read" /\ i \in {Question(r), Answer(r)}
  BY <1>1 DEF Send, Commit
<1>2. ASSUME NEW r \in Requests, NEW j \in DOMAIN snapshot[r], Edit(r, j)
      PROVE  phase[r] = "read" /\ i \in {Question(r), Answer(r)}
  BY <1>2 DEF Edit, Commit, UpTo
<1>3. ASSUME NEW r \in Requests, NEW j \in DOMAIN snapshot[r], NEW u \in DOMAIN snapshot[r]
      PROVE  ~Regenerate(r, j, u)
  BY <1>3 DEF Regenerate, Commit, UpTo
<1>4. ASSUME NEW r \in Requests PROVE ~Finish(r)
  BY <1>4 DEF Finish, Finalized
<1>5. ASSUME NEW j \in Ids PROVE ~DeleteMessage(j)
  BY <1>5 DEF DeleteMessage
<1>6. ~DeleteChat
  BY NoRowsOK DEF DeleteChat
<1> QED
  BY <1>1, <1>2, <1>3, <1>4, <1>5, <1>6, TurnsCases
     DEF Read, Refuse, Credential, CredentialFails, Delta, Crash, turnsVars

\* No late stream and no stale turn brings a message back.
THEOREM NothingReturns == TurnsSpec => NothingComesBack
<1>1. TypeInv /\ [TurnsNext]_turnsVars =>
        [\A i \in Ids : Came(i) /\ i \notin DOMAIN messages => i \notin DOMAIN messages']_turnsVars
  <2> SUFFICES ASSUME TypeInv, [TurnsNext]_turnsVars, NEW i \in Ids, Came(i), i \notin DOMAIN messages
               PROVE  i \notin DOMAIN messages'
    OBVIOUS
  <2>1. SUFFICES ASSUME i \in DOMAIN messages' PROVE FALSE
    OBVIOUS
  <2>2. PICK r \in Requests : phase[r] = "read" /\ i \in {Question(r), Answer(r)}
    BY <2>1, NewRows
  <2> QED
    BY <2>2 DEF Came, Question, Answer
<1> QED
  BY <1>1, TypeInvariant, PTL DEF TurnsSpec, NothingComesBack

----------------------------------------------------------------------------
(* ModelAccess: a chat's handler in core-api and its call of the gateway. *)

Final == {"answered", "failed", "left"}
Handlers == {"new", "embedding", "relaying", "recording"} \cup Final
Handler == [pc : Handlers, model : Models \cup {EmbedModel}, streamed : BOOLEAN]
CallStates == Underway \cup {"none", "embedded", "refused", "cancelled", "ended", "broken"}

AccessTypes ==
  /\ chat \in [Chats -> Handler]
  /\ call \in [Calls -> CallStates]
  /\ wire \in [Chats -> Seq({"delta", "done", "error"})]
  /\ said \in [Chats -> 0 .. MaxPieces]
  /\ heard \in [Chats -> Nat]
  /\ stored \in [Chats -> Nat]

(* How far the gateway's handler of a chat can be at each point of core-api's. *)
Paired(c) ==
  /\ chat[c].pc = "new" => call[c] = "none"
  /\ chat[c].pc = "embedding" => call[c] \in {"embed", "embedAudited", "embedded", "refused"}
  /\ chat[c].pc = "relaying" =>
       call[c] \in {"chat", "admitted", "streaming", "ended", "broken", "refused"}
  /\ chat[c].pc = "recording" => call[c] = "ended"
  /\ chat[c].pc \in Final => call[c] \notin Underway
  /\ call[c] \in {"chat", "admitted", "streaming"} => chat[c].pc = "relaying"

Pairing == \A c \in Chats : Paired(c)

(* What was said is what was heard and what is still on the wire, whose last event
   alone is an end. *)
OnlyDeltas(c, n) == \A i \in 1 .. n : wire[c][i] = "delta"

Flowing(c) ==
  LET n == Len(wire[c])
  IN CASE call[c] = "streaming" -> OnlyDeltas(c, n) /\ said[c] = heard[c] + n
       [] call[c] = "ended" ->
            /\ n > 0 /\ wire[c][n] = "done"
            /\ OnlyDeltas(c, n - 1) /\ said[c] = heard[c] + n - 1
       [] call[c] = "broken" -> n > 0 /\ wire[c][n] = "error" /\ OnlyDeltas(c, n - 1)
       [] OTHER -> n = 0 /\ said[c] = heard[c]

Whole(c) ==
  /\ chat[c].pc \in {"new", "embedding", "relaying"} => Flowing(c)
  /\ chat[c].pc = "recording" => said[c] = heard[c]
  /\ chat[c].pc \in {"new", "embedding", "relaying", "recording"} => stored[c] = Unrecorded
  /\ stored[c] # Unrecorded => stored[c] = said[c] /\ call[c] = "ended"
  /\ chat[c].pc = "answered" => stored[c] # Unrecorded

Flow == \A c \in Chats : Whole(c)

----------------------------------------------------------------------------
(* The step of each action, by name, for the case splits below. *)
LEMMA AccessCases ==
  ASSUME [Next]_vars
  PROVE  \/ \E c \in Chats : \E m \in Models, s \in BOOLEAN : Ask(c, m, s)
         \/ \E c \in Chats : Prepare(c)
         \/ \E c \in Chats : Relay(c)
         \/ \E c \in Chats : Refused(c)
         \/ \E c \in Chats : Record(c)
         \/ \E c \in Chats : Break(c)
         \/ \E c \in Chats : Leave(c)
         \/ \E c \in Chats : AdmitChat(c)
         \/ \E c \in Chats : Open(c)
         \/ \E c \in Chats : Piece(c)
         \/ \E c \in Chats : End(c)
         \/ \E x \in Calls : AdmitEmbed(x)
         \/ \E x \in Calls : Embed(x)
         \/ UNCHANGED vars
  BY DEF Next, Client, Done

(* What changes when the handler of one chat moves on. *)
LEMMA AtOnly ==
  ASSUME chat \in [Chats -> Handler], NEW c \in Chats, NEW pc \in Handlers, At(c, pc)
  PROVE  /\ chat' \in [Chats -> Handler]
         /\ chat'[c].pc = pc /\ chat'[c].model = chat[c].model
         /\ \A d \in Chats \ {c} : chat'[d] = chat[d]
  BY DEF Handler, At

(* What the first event on the wire says about the gateway's handler. *)
LEMMA HeadTells ==
  ASSUME AccessTypes, Flow, NEW c \in Chats, chat[c].pc = "relaying", wire[c] # <<>>
  PROVE  /\ Head(wire[c]) \in {"delta", "done", "error"} /\ Len(wire[c]) \in Nat \ {0}
         /\ Tail(wire[c]) \in Seq({"delta", "done", "error"})
         /\ Head(wire[c]) = "done" => call[c] = "ended" /\ Len(wire[c]) = 1
         /\ Head(wire[c]) = "error" => call[c] = "broken" /\ Len(wire[c]) = 1
<1>1. wire[c] \in Seq({"delta", "done", "error"}) /\ Len(wire[c]) \in Nat \ {0} /\ Flowing(c)
  BY DEF AccessTypes, Flow, Whole
<1>2. Head(wire[c]) = wire[c][1]
  BY <1>1
<1>3. wire[c][1] \in {"delta", "done", "error"} /\ Tail(wire[c]) \in Seq({"delta", "done", "error"})
  BY <1>1
<1>4. CASE call[c] = "streaming"
  <2>1. wire[c][1] = "delta"
    BY <1>1, <1>4 DEF Flowing, OnlyDeltas
  <2> QED
    BY <1>1, <1>2, <1>3, <2>1
<1>5. CASE call[c] \in {"ended", "broken"}
  <2>1. CASE Len(wire[c]) = 1
    BY <1>1, <1>2, <1>3, <1>5, <2>1 DEF Flowing
  <2>2. CASE Len(wire[c]) > 1
    <3>1. wire[c][1] = "delta"
      BY <1>1, <1>5, <2>2 DEF Flowing, OnlyDeltas
    <3> QED
      BY <1>1, <1>2, <1>3, <3>1
  <2>3. Len(wire[c]) = 1 \/ Len(wire[c]) > 1
    <3>1. PICK n \in Nat \ {0} : n = Len(wire[c])
      BY <1>1
    <3>2. n = 1 \/ n > 1
      OBVIOUS
    <3> QED
      BY <3>1, <3>2
  <2> QED
    BY <2>1, <2>2, <2>3
<1>6. CASE call[c] \notin {"streaming", "ended", "broken"}
  BY <1>1, <1>6 DEF Flowing
<1> QED
  BY <1>4, <1>5, <1>6

LEMMA ShapeInit == Init => AccessTypes /\ Pairing
<1> SUFFICES ASSUME Init PROVE AccessTypes /\ Pairing
  OBVIOUS
<1> USE BoundAssumption DEF Init, Calls
<1>1. AccessTypes
  BY DEF AccessTypes, Handler, Handlers, Final, CallStates, Underway, Unrecorded
<1>2. Pairing
  BY DEF Pairing, Paired, Final, Underway
<1> QED
  BY <1>1, <1>2

LEMMA ShapeStep ==
  ASSUME AccessTypes, Pairing, Flow, [Next]_vars
  PROVE  AccessTypes' /\ Pairing'
<1> USE BoundAssumption
<1>0. /\ {"relaying", "recording", "answered", "failed", "left"} \subseteq Handlers
      /\ chat \in [Chats -> Handler]
  BY DEF Handlers, Final, AccessTypes
<1>1. ASSUME NEW c \in Chats, NEW m \in Models, NEW s \in BOOLEAN, Ask(c, m, s)
      PROVE  AccessTypes' /\ Pairing'
  <2>1. chat' \in [Chats -> Handler]
    BY <1>1, <1>0 DEF Ask, Handler, Handlers
  <2>2. AccessTypes'
    BY <1>1, <2>1 DEF Ask, AccessTypes, CallStates, Underway, Calls
  <2>3. Pairing'
    BY <1>1 DEF Ask, AccessTypes, Calls, Pairing, Paired, Final, Underway
  <2> QED
    BY <2>2, <2>3
<1>2. ASSUME NEW c \in Chats, Prepare(c) PROVE AccessTypes' /\ Pairing'
  <2>1. /\ chat' \in [Chats -> Handler]
        /\ \A d \in Chats : chat'[d] # chat[d] => d = c
        /\ chat'[c].pc = IF call[c] = "embedded" THEN "relaying" ELSE "failed"
    BY <1>2, <1>0, AtOnly DEF Prepare, Embedded
  <2>2. AccessTypes'
    BY <1>2, <2>1 DEF Prepare, Embedded, AccessTypes, CallStates, Underway, Calls
  <2>3. Pairing'
    BY <1>2, <2>1 DEF Prepare, Embedded, AccessTypes, CallStates, Calls, Pairing, Paired, Final, Underway
  <2> QED
    BY <2>2, <2>3
<1>3. ASSUME NEW c \in Chats, Relay(c) PROVE AccessTypes' /\ Pairing'
  <2>1. /\ chat' \in [Chats -> Handler]
        /\ \A d \in Chats : chat'[d] # chat[d] => d = c
        /\ chat'[c].pc \in IF Head(wire[c]) = "delta" THEN {chat[c].pc}
                           ELSE IF Head(wire[c]) = "error" THEN {"failed"} ELSE {"recording"}
    BY <1>3, <1>0, AtOnly DEF Relay
  <2>0. /\ wire' \in [Chats -> Seq({"delta", "done", "error"})]
        /\ heard' \in [Chats -> Nat]
    <3>1. wire' = [wire EXCEPT ![c] = Tail(wire[c])] /\ Tail(wire[c]) \in Seq({"delta", "done", "error"})
      BY <1>3, HeadTells DEF Relay
    <3>2. heard' = heard \/ heard' = [heard EXCEPT ![c] = heard[c] + 1]
      BY <1>3 DEF Relay
    <3>3. wire' \in [Chats -> Seq({"delta", "done", "error"})]
      BY <3>1 DEF AccessTypes
    <3>4. heard[c] + 1 \in Nat
      BY DEF AccessTypes
    <3>5. heard' \in [Chats -> Nat]
      BY <3>2, <3>4 DEF AccessTypes
    <3> QED
      BY <3>3, <3>5
  <2>2. AccessTypes'
    BY <1>3, <2>0, <2>1 DEF Relay, AccessTypes
  <2>3. \A d \in Chats \ {c} : Paired(d)'
    BY <1>3, <2>1 DEF Relay, Pairing, Paired
  <2>4. Paired(c)'
    BY <1>3, <2>1, HeadTells DEF Relay, AccessTypes, Pairing, Paired, Final, Underway
  <2> QED
    BY <2>2, <2>3, <2>4 DEF Pairing
<1>4. ASSUME NEW c \in Chats, Refused(c) PROVE AccessTypes' /\ Pairing'
  <2>1. /\ chat' \in [Chats -> Handler]
        /\ \A d \in Chats : chat'[d] # chat[d] => d = c
        /\ chat'[c].pc = "failed"
    BY <1>4, <1>0, AtOnly DEF Refused
  <2>2. AccessTypes'
    BY <1>4, <2>1 DEF Refused, AccessTypes, CallStates, Underway, Calls
  <2>3. Pairing'
    BY <1>4, <2>1 DEF Refused, AccessTypes, CallStates, Calls, Pairing, Paired, Final, Underway
  <2> QED
    BY <2>2, <2>3
<1>5. ASSUME NEW c \in Chats, Record(c) PROVE AccessTypes' /\ Pairing'
  <2>1. /\ chat' \in [Chats -> Handler]
        /\ \A d \in Chats : chat'[d] # chat[d] => d = c
        /\ chat'[c].pc \in {"answered", "failed"}
    BY <1>5, <1>0, AtOnly DEF Record, At
  <2>2. AccessTypes'
    BY <1>5, <2>1 DEF Record, AccessTypes
  <2>3. Pairing'
    BY <1>5, <2>1 DEF Record, AccessTypes, CallStates, Calls, Pairing, Paired, Final, Underway
  <2> QED
    BY <2>2, <2>3
<1>6. ASSUME NEW c \in Chats, Break(c) PROVE AccessTypes' /\ Pairing'
  <2>1. /\ chat' \in [Chats -> Handler]
        /\ \A d \in Chats : chat'[d] # chat[d] => d = c
        /\ chat'[c].pc = "failed"
    BY <1>6, <1>0, AtOnly DEF Break, Cancelled
  <2>0. wire' \in [Chats -> Seq({"delta", "done", "error"})]
    <3>1. <<>> \in Seq({"delta", "done", "error"})
      OBVIOUS
    <3> QED
      BY <1>6, <3>1 DEF Break, AccessTypes
  <2>2. AccessTypes'
    BY <1>6, <2>0, <2>1 DEF Break, Cancelled, AccessTypes, CallStates, Underway, Calls
  <2>3. Pairing'
    BY <1>6, <2>1 DEF Break, Cancelled, AccessTypes, CallStates, Calls, Pairing, Paired, Final, Underway
  <2> QED
    BY <2>2, <2>3
<1>7. ASSUME NEW c \in Chats, Leave(c) PROVE AccessTypes' /\ Pairing'
  <2>0. stored' \in [Chats -> Nat]
    BY <1>7 DEF Leave, AccessTypes
  <2>1. /\ chat' \in [Chats -> Handler]
        /\ \A d \in Chats : chat'[d] # chat[d] => d = c
        /\ chat'[c].pc = "left"
    BY <1>7, <1>0, AtOnly DEF Leave, Cancelled
  <2>2. AccessTypes'
    BY <1>7, <2>1, <2>0 DEF Leave, Cancelled, AccessTypes, CallStates, Underway, Calls
  <2>3. Pairing'
    BY <1>7, <2>1 DEF Leave, Cancelled, AccessTypes, CallStates, Calls, Pairing, Paired, Final, Underway
  <2> QED
    BY <2>2, <2>3
<1>8. ASSUME NEW c \in Chats, AdmitChat(c) PROVE AccessTypes' /\ Pairing'
  <2>1. chat' = chat
    BY <1>8 DEF AdmitChat, Asks
  <2>2. AccessTypes'
    BY <1>8, <2>1 DEF AdmitChat, Asks, AccessTypes, CallStates, Underway, Calls
  <2>3. Pairing'
    BY <1>8, <2>1 DEF AdmitChat, Asks, AccessTypes, CallStates, Calls, Pairing, Paired, Final, Underway
  <2> QED
    BY <2>2, <2>3
<1>9. ASSUME NEW c \in Chats, Open(c) PROVE AccessTypes' /\ Pairing'
  <2>1. chat' = chat
    BY <1>9 DEF Open
  <2>2. AccessTypes'
    BY <1>9, <2>1 DEF Open, AccessTypes, CallStates, Underway, Calls
  <2>3. Pairing'
    BY <1>9, <2>1 DEF Open, AccessTypes, CallStates, Calls, Pairing, Paired, Final, Underway
  <2> QED
    BY <2>2, <2>3
<1>10. ASSUME NEW c \in Chats, Piece(c) PROVE AccessTypes' /\ Pairing'
  <2>1. chat' = chat
    BY <1>10 DEF Piece, Emit
  <2>2. AccessTypes'
    BY <1>10, <2>1 DEF Piece, Emit, AccessTypes, CallStates, Underway, Calls
  <2>3. Pairing'
    BY <1>10, <2>1 DEF Piece, Emit, AccessTypes, CallStates, Calls, Pairing, Paired, Final, Underway
  <2> QED
    BY <2>2, <2>3
<1>11. ASSUME NEW c \in Chats, End(c) PROVE AccessTypes' /\ Pairing'
  <2>1. chat' = chat
    BY <1>11 DEF End, Emit
  <2>2. AccessTypes'
    BY <1>11, <2>1 DEF End, Emit, AccessTypes, CallStates, Underway, Calls
  <2>3. Pairing'
    BY <1>11, <2>1 DEF End, Emit, AccessTypes, CallStates, Calls, Pairing, Paired, Final, Underway
  <2> QED
    BY <2>2, <2>3
<1>12. ASSUME NEW x \in Calls, AdmitEmbed(x) PROVE AccessTypes' /\ Pairing'
  BY <1>12 DEF AdmitEmbed, Asks, AccessTypes, CallStates, Calls, Pairing, Paired, Final, Underway
<1>13. ASSUME NEW x \in Calls, Embed(x) PROVE AccessTypes' /\ Pairing'
  BY <1>13 DEF Embed, AccessTypes, CallStates, Calls, Pairing, Paired, Final, Underway
<1>14. ASSUME UNCHANGED vars PROVE AccessTypes' /\ Pairing'
  BY <1>14 DEF vars, AccessTypes, Pairing, Paired
<1> QED
  BY AccessCases, <1>1, <1>2, <1>3, <1>4, <1>5, <1>6, <1>7, <1>8, <1>9, <1>10, <1>11, <1>12,
     <1>13, <1>14

----------------------------------------------------------------------------
(* The audit log. *)
Told(x, action, m) == Event(x, action, m, Egress(action, m)) \in audit

(* A call past its check has its event, and may be made. *)
Admitted ==
  /\ \A x \in Calls : call[x] = "embedAudited" => Told(x, "embed", EmbedModel)
  /\ \A c \in Chats : call[c] = "admitted" =>
       Told(c, "chat", chat[c].model) /\ ~(sovereign /\ Route(chat[c].model).egress)

Contacted ==
  \A x \in contacted :
    /\ x = [of |-> x.of, action |-> x.action, model |-> x.model]
    /\ Told(x.of, x.action, x.model)
    /\ \/ x.action = "embed" /\ x.model = EmbedModel
       \/ /\ x.action = "chat" /\ x.of \in Chats
          /\ ~(sovereign /\ Route(x.model).egress)
          /\ chat[x.of].pc \notin {"new", "embedding"}
          /\ call[x.of] \in {"streaming", "ended", "broken", "cancelled"}

(* A call that was denied stays refused. *)
Denials ==
  \A e \in audit : e.action = "denied" =>
    /\ sovereign /\ Route(e.model).egress
    /\ e.of \in Chats /\ call[e.of] = "refused"
    /\ chat[e.of].pc \notin {"new", "embedding"}

AuditInv == AccessTypes /\ Pairing /\ SettingsOK /\ Admitted /\ Contacted /\ Denials

RecordInv == AccessTypes /\ Pairing /\ Flow

LEMMA RecordInit == Init => RecordInv
<1> SUFFICES ASSUME Init, NEW c \in Chats PROVE Whole(c)
  BY ShapeInit DEF RecordInv, Flow
<1> QED
  BY BoundAssumption DEF Init, Calls, Whole, Flowing, Final, Unrecorded

(* A chat whose own state stays. *)
LEMMA WholeStays ==
  ASSUME NEW d \in Chats, Whole(d), chat'[d].pc = chat[d].pc, call'[d] = call[d],
         wire'[d] = wire[d], said'[d] = said[d], heard'[d] = heard[d], stored'[d] = stored[d]
  PROVE  Whole(d)'
  BY DEF Whole, Flowing, OnlyDeltas

(* A step of one chat's handlers leaves the others alone. *)
LEMMA OthersStay ==
  ASSUME AccessTypes, Flow, NEW c \in Chats, NEW d \in Chats \ {c},
         \/ Prepare(c) \/ Relay(c) \/ Refused(c) \/ Record(c) \/ Break(c) \/ Leave(c)
         \/ AdmitChat(c) \/ Open(c) \/ Piece(c) \/ End(c)
         \/ \E m \in Models, s \in BOOLEAN : Ask(c, m, s)
  PROVE  Whole(d)'
<1>1. /\ chat'[d].pc = chat[d].pc /\ call'[d] = call[d] /\ wire'[d] = wire[d]
      /\ said'[d] = said[d] /\ heard'[d] = heard[d] /\ stored'[d] = stored[d]
  <2>0. /\ c \in Calls /\ d \in Calls /\ c # d
        /\ call \in [Calls -> CallStates] /\ chat \in [Chats -> Handler]
        /\ wire \in [Chats -> Seq({"delta", "done", "error"})]
        /\ said \in [Chats -> 0 .. MaxPieces]
    BY DEF Calls, AccessTypes
  <2> USE DEF AccessTypes, At, Cancelled, Emit
  <2>1. CASE Prepare(c)
    <3>1. /\ call' = call \/ call' = [call EXCEPT ![c] = "chat"]
          /\ UNCHANGED <<wire, said, heard, stored>>
      BY <2>1 DEF Prepare
    <3>2. chat'[d] = chat[d]
      BY <2>1, <2>0, AtOnly DEF Prepare, Handlers, Final
    <3> QED
      BY <2>0, <3>1, <3>2
  <2>2. CASE Relay(c) BY <2>2 DEF Relay
  <2>3. CASE Refused(c) BY <2>3 DEF Refused
  <2>4. CASE Record(c) BY <2>4 DEF Record
  <2>5. CASE Break(c) BY <2>5 DEF Break
  <2>6. CASE Leave(c) BY <2>6 DEF Leave
  <2>7. CASE AdmitChat(c)
    <3>1. /\ \E s \in {"refused", "admitted"} : call' = [call EXCEPT ![c] = s]
          /\ UNCHANGED <<chat, wire, said, heard, stored>>
      BY <2>7 DEF AdmitChat
    <3> QED
      BY <2>0, <3>1
  <2>8. CASE Open(c) \/ Piece(c) \/ End(c)
    <3>1. CASE Open(c) BY <2>0, <3>1 DEF Open
    <3>2. CASE Piece(c) BY <2>0, <3>2 DEF Piece
    <3>3. CASE End(c) BY <2>0, <3>3 DEF End
    <3> QED BY <2>8, <3>1, <3>2, <3>3
  <2>9. CASE \E m \in Models, s \in BOOLEAN : Ask(c, m, s) BY <2>9 DEF Ask
  <2> QED
    BY <2>1, <2>2, <2>3, <2>4, <2>5, <2>6, <2>7, <2>8, <2>9
<1> QED
  BY <1>1, WholeStays DEF Flow

(* What is left of a sequence without its first element. *)
LEMMA TailFacts ==
  ASSUME NEW S, NEW w \in Seq(S), w # <<>>
  PROVE  /\ Len(w) \in Nat \ {0} /\ Head(w) = w[1] /\ Len(Tail(w)) = Len(w) - 1
         /\ \A i \in 1 .. Len(w) - 1 : Tail(w)[i] = w[i + 1]
  OBVIOUS

(* The step of the chat itself. *)
LEMMA RelayWhole ==
  ASSUME AccessTypes, Pairing, Flow, NEW c \in Chats, Relay(c)
  PROVE  Whole(c)'
<1>0. chat[c].pc = "relaying" /\ wire[c] # <<>> /\ Flowing(c) /\ stored[c] = Unrecorded
  BY DEF Relay, Flow, Whole
<1>1. PICK w \in Seq({"delta", "done", "error"}), n \in Nat \ {0} :
        w = wire[c] /\ n = Len(w) /\ wire'[c] = Tail(w) /\ Len(Tail(w)) = n - 1
        /\ Head(w) = w[1] /\ \A i \in 1 .. n - 1 : Tail(w)[i] = w[i + 1]
  <2>1. wire[c] \in Seq({"delta", "done", "error"}) /\ wire'[c] = Tail(wire[c])
    BY <1>0 DEF Relay, AccessTypes
  <2> QED
    BY <1>0, <2>1, TailFacts
<1>2. /\ said' = said /\ stored' = stored /\ call' = call
      /\ chat[c] \in Handler /\ said[c] \in Nat /\ heard[c] \in Nat
  BY BoundAssumption DEF Relay, AccessTypes
<1>3. CASE w[1] = "delta"
  <2>1. chat' = chat /\ heard'[c] = heard[c] + 1
    BY <1>0, <1>1, <1>3 DEF Relay, AccessTypes
  <2>2. call[c] \in {"streaming", "ended", "broken"}
    BY <1>0, <1>1 DEF Flowing
  <2>3. n = 1 => call[c] = "streaming"
    BY <1>0, <1>1, <1>3, <2>2 DEF Flowing
  <2>4. Flowing(c)'
    <3>1. CASE call[c] = "streaming"
      <4>1. /\ \A i \in 1 .. n : w[i] = "delta"
            /\ said[c] = heard[c] + n
        BY <1>0, <1>1, <3>1 DEF Flowing, OnlyDeltas
      <4>2. /\ \A i \in 1 .. n - 1 : wire'[c][i] = "delta"
            /\ Len(wire'[c]) = n - 1
            /\ said'[c] = heard'[c] + (n - 1)
        BY <1>1, <1>2, <2>1, <4>1
      <4> QED
        BY <1>2, <3>1, <4>2 DEF Flowing, OnlyDeltas
    <3>2. CASE call[c] # "streaming"
      <4>1. /\ n > 1 /\ w[n] = (IF call[c] = "ended" THEN "done" ELSE "error")
            /\ \A i \in 1 .. n - 1 : w[i] = "delta"
            /\ call[c] = "ended" => said[c] = heard[c] + n - 1
        <5>0. n > 1
          BY <2>3, <3>2
        <5>1. CASE call[c] = "ended"
          BY <1>0, <1>1, <5>0, <5>1 DEF Flowing, OnlyDeltas
        <5>2. CASE call[c] = "broken"
          BY <1>0, <1>1, <5>0, <5>2 DEF Flowing, OnlyDeltas
        <5> QED
          BY <2>2, <3>2, <5>1, <5>2
      <4>2. Tail(w)[n - 1] = w[n] /\ \A i \in 1 .. n - 2 : Tail(w)[i] = "delta"
        BY <1>1, <4>1
      <4>3. /\ Len(wire'[c]) = n - 1 /\ n - 1 > 0 /\ (n - 1) - 1 = n - 2
            /\ wire'[c][n - 1] = (IF call[c] = "ended" THEN "done" ELSE "error")
            /\ \A i \in 1 .. n - 2 : wire'[c][i] = "delta"
            /\ call[c] = "ended" => said'[c] = heard'[c] + (n - 1) - 1
        <5>1. Len(wire'[c]) = n - 1 /\ n - 1 > 0 /\ (n - 1) - 1 = n - 2
          BY <1>1, <4>1
        <5>2. /\ wire'[c][n - 1] = (IF call[c] = "ended" THEN "done" ELSE "error")
              /\ \A i \in 1 .. n - 2 : wire'[c][i] = "delta"
          BY <1>1, <4>1, <4>2
        <5>3. call[c] = "ended" => said'[c] = heard'[c] + (n - 1) - 1
          <6>1. PICK p \in Nat, q \in Nat : said[c] = p /\ heard[c] = q
            BY <1>2
          <6> QED
            BY <1>2, <2>1, <4>1, <6>1
        <5> QED
          BY <5>1, <5>2, <5>3
      <4> QED
        BY <1>2, <2>2, <3>2, <4>3 DEF Flowing, OnlyDeltas
    <3> QED
      BY <3>1, <3>2
  <2> QED
    BY <1>0, <1>2, <2>1, <2>4 DEF Whole, Unrecorded
<1>4. CASE w[1] = "error"
  <2>1. chat'[c].pc = "failed"
    BY <1>0, <1>1, <1>4, <1>2 DEF Relay, AccessTypes, At, Handler
  <2> QED
    BY <1>0, <1>2, <2>1 DEF Whole, Unrecorded
<1>5. CASE w[1] \notin {"delta", "error"}
  <2>1. chat'[c].pc = "recording" /\ heard' = heard
    BY <1>0, <1>1, <1>5, <1>2 DEF Relay, AccessTypes, At, Handler
  <2>2. call[c] = "ended" /\ n = 1
    BY <1>0, <1>1, <1>5, HeadTells
  <2>3. said[c] = heard[c]
    BY <1>0, <1>1, <1>2, <2>2 DEF Flowing
  <2> QED
    BY <1>0, <1>2, <2>1, <2>3 DEF Whole, Unrecorded
<1> QED
  BY <1>3, <1>4, <1>5

LEMMA RecordStep ==
  ASSUME RecordInv, [Next]_vars
  PROVE  RecordInv'
<1> USE BoundAssumption DEF RecordInv
<1>0. AccessTypes' /\ Pairing' /\ AccessTypes /\ Pairing /\ Flow
  BY ShapeStep
<1> SUFFICES ASSUME NEW c \in Chats PROVE Whole(c)'
  BY <1>0 DEF Flow
<1>1. /\ Whole(c) /\ Paired(c) /\ call[c] \in CallStates /\ chat[c] \in Handler
      /\ wire[c] \in Seq({"delta", "done", "error"}) /\ Len(wire[c]) \in Nat
      /\ said[c] \in 0 .. MaxPieces /\ heard[c] \in Nat /\ stored[c] \in Nat
  BY <1>0 DEF AccessTypes, Pairing, Flow, Calls
<1>a. ASSUME NEW m \in Models, NEW s \in BOOLEAN, Ask(c, m, s) PROVE Whole(c)'
  <2>1. chat'[c].pc = "embedding" /\ call'[c] = "embed" /\ UNCHANGED <<wire, said, heard, stored>>
    BY <1>0, <1>a DEF Ask, AccessTypes, Calls
  <2>2. chat[c].pc = "new" /\ call[c] = "none"
    BY <1>1, <1>a DEF Ask, Paired
  <2> QED
    BY <1>1, <2>1, <2>2 DEF Whole, Flowing
<1>b. ASSUME Prepare(c) PROVE Whole(c)'
  <2>1. /\ chat'[c].pc = (IF call[c] = "embedded" THEN "relaying" ELSE "failed")
        /\ call'[c] = (IF call[c] = "embedded" THEN "chat" ELSE call[c])
        /\ UNCHANGED <<wire, said, heard, stored>>
    BY <1>0, <1>b DEF Prepare, AccessTypes, Calls, At, Handler
  <2>2. chat[c].pc = "embedding" /\ call[c] \in {"embedded", "refused"}
    BY <1>b DEF Prepare, Embedded
  <2> QED
    BY <1>1, <2>1, <2>2 DEF Whole, Flowing, Unrecorded
<1>c. ASSUME Relay(c) PROVE Whole(c)'
  BY <1>0, <1>c, RelayWhole
<1>d. ASSUME Refused(c) PROVE Whole(c)'
  <2>1. chat'[c].pc = "failed" /\ UNCHANGED <<call, wire, said, heard, stored>> /\ chat[c].pc = "relaying"
    BY <1>0, <1>d DEF Refused, AccessTypes, At, Handler
  <2> QED
    BY <1>1, <2>1 DEF Whole, Unrecorded
<1>e. ASSUME Record(c) PROVE Whole(c)'
  <2>1. /\ UNCHANGED <<call, wire, said, heard>> /\ chat[c].pc = "recording"
        /\ \/ chat'[c].pc = "answered" /\ stored'[c] = heard[c]
           \/ chat'[c].pc = "failed" /\ stored'[c] \in {stored[c], heard[c]}
    BY <1>0, <1>e DEF Record, AccessTypes, At, Handler
  <2>2. call[c] = "ended" /\ said[c] = heard[c] /\ heard[c] # Unrecorded /\ stored[c] = Unrecorded
    BY <1>1, <2>1 DEF Paired, Whole, Unrecorded
  <2> QED
    BY <2>1, <2>2 DEF Whole
<1>f. ASSUME Break(c) PROVE Whole(c)'
  <2>1. /\ chat'[c].pc = "failed" /\ UNCHANGED <<said, heard, stored>>
        /\ chat[c].pc \in {"embedding", "relaying"}
    BY <1>0, <1>f DEF Break, AccessTypes, At, Handler
  <2> QED
    BY <1>1, <2>1 DEF Whole, Unrecorded
<1>g. ASSUME Leave(c) PROVE Whole(c)'
  <2>1. /\ chat'[c].pc = "left" /\ UNCHANGED <<said, heard>>
        /\ chat[c].pc \in {"relaying", "recording"}
        /\ \/ stored'[c] = stored[c]
           \/ chat[c].pc = "recording" /\ stored'[c] = heard[c]
    <3>1. chat'[c].pc = "left" /\ UNCHANGED <<said, heard>> /\ chat[c].pc \in {"relaying", "recording"}
      BY <1>0, <1>g DEF Leave, AccessTypes, At, Handler
    <3>2. \/ stored' = stored
          \/ chat[c].pc = "recording" /\ stored' = [stored EXCEPT ![c] = heard[c]]
      BY <1>g DEF Leave
    <3> QED
      BY <1>0, <3>1, <3>2 DEF AccessTypes
  <2>2. chat[c].pc = "recording" => call'[c] = "ended"
    BY <1>0, <1>1, <1>g DEF Leave, AccessTypes, Calls, Cancelled, Underway, Paired
  <2> QED
    BY <1>1, <2>1, <2>2 DEF Whole, Unrecorded
<1>h. ASSUME AdmitChat(c) PROVE Whole(c)'
  <2>1. /\ call[c] = "chat" /\ call'[c] \in {"refused", "admitted"}
        /\ UNCHANGED <<chat, wire, said, heard, stored>>
    BY <1>0, <1>h DEF AdmitChat, Asks, AccessTypes, Calls
  <2> QED
    BY <1>1, <2>1 DEF Whole, Flowing
<1>i. ASSUME Open(c) PROVE Whole(c)'
  <2>1. /\ call[c] = "admitted" /\ call'[c] = "streaming"
        /\ UNCHANGED <<chat, wire, said, heard, stored>>
    BY <1>0, <1>i DEF Open, AccessTypes, Calls
  <2>2. chat[c].pc = "relaying" /\ Len(wire[c]) = 0 /\ said[c] = heard[c]
    BY <1>1, <2>1 DEF Paired, Whole, Flowing
  <2> QED
    BY <1>1, <2>1, <2>2 DEF Whole, Flowing, OnlyDeltas
<1>j. ASSUME Piece(c) \/ End(c) PROVE Whole(c)'
  <2>1. call[c] = "streaming" /\ chat' = chat /\ heard' = heard /\ stored' = stored
    BY <1>j DEF Piece, End
  <2>2. chat[c].pc = "relaying" /\ Flowing(c) /\ stored[c] = Unrecorded
    BY <1>1, <2>1 DEF Paired, Whole
  <2>3. PICK w \in Seq({"delta", "done", "error"}), n \in Nat :
          /\ w = wire[c] /\ n = Len(w)
          /\ \A i \in 1 .. n : w[i] = "delta"
          /\ said[c] = heard[c] + n
    BY <1>1, <2>1, <2>2 DEF Flowing, OnlyDeltas
  <2>4. PICK e \in {"delta", "done", "error"} :
          /\ wire'[c] = Append(w, e)
          /\ said'[c] = IF e = "delta" THEN said[c] + 1 ELSE said[c]
          /\ call'[c] = CASE e = "delta" -> "streaming" [] e = "done" -> "ended" [] OTHER -> "broken"
    <3>1. CASE Piece(c)
      BY <1>0, <2>1, <2>3, <3>1 DEF Piece, Emit, AccessTypes, Calls
    <3>2. CASE End(c)
      BY <1>0, <2>1, <2>3, <3>2 DEF End, Emit, AccessTypes, Calls
    <3> QED
      BY <1>j, <3>1, <3>2
  <2>5. /\ Len(Append(w, e)) = n + 1 /\ Append(w, e)[n + 1] = e
        /\ \A i \in 1 .. n : Append(w, e)[i] = "delta"
    BY <2>3, <2>4
  <2>6. Flowing(c)'
    BY <1>1, <2>1, <2>3, <2>4, <2>5 DEF Flowing, OnlyDeltas
  <2> QED
    BY <2>1, <2>2, <2>6 DEF Whole
<1>k. ASSUME NEW x \in Calls, AdmitEmbed(x) \/ Embed(x) PROVE Whole(c)'
  <2>1. /\ call'[c] # call[c] => call[c] \in {"embed", "embedAudited"}
                                /\ call'[c] \in {"embedAudited", "refused", "embedded"}
        /\ UNCHANGED <<chat, wire, said, heard, stored>>
    BY <1>0, <1>k DEF AdmitEmbed, Embed, Asks, AccessTypes, Calls
  <2>2. CASE call'[c] = call[c]
    BY <1>1, <2>1, <2>2, WholeStays
  <2>3. CASE call'[c] # call[c]
    BY <1>1, <2>1, <2>3 DEF Whole, Flowing
  <2> QED
    BY <2>2, <2>3
<1>l. ASSUME UNCHANGED vars PROVE Whole(c)'
  BY <1>1, <1>l, WholeStays DEF vars
<1> QED
  BY <1>0, AccessCases, OthersStay, <1>a, <1>b, <1>c, <1>d, <1>e, <1>f, <1>g, <1>h, <1>i, <1>j, <1>k,
     <1>l

----------------------------------------------------------------------------
LEMMA AuditInit == Init => SettingsOK /\ Admitted /\ Contacted /\ Denials
  BY BoundAssumption DEF Init, Calls, Admitted, Contacted, Denials

(* Everything of a step that the audit log, the calls made and the denials depend on:
   a chat's model is kept once it asked, and a call that ended stays ended. *)
Moves ==
  /\ UNCHANGED deployment
  /\ \A c \in Chats :
       /\ chat[c].pc \notin {"new"} => chat'[c].model = chat[c].model
       /\ chat[c].pc \notin {"new", "embedding"} => chat'[c].pc \notin {"new", "embedding"}
       /\ call[c] = "refused" /\ chat[c].pc # "new" => call'[c] = "refused"
       /\ call[c] \in {"streaming", "ended", "broken", "cancelled"} =>
            call'[c] \in {"streaming", "ended", "broken", "cancelled"}

(* No step that is not the gateway's starts a call or writes to the log. *)
LEMMA OthersAdmit ==
  ASSUME AccessTypes, Pairing, NEW c \in Chats,
         \/ \E m \in Models, s \in BOOLEAN : Ask(c, m, s)
         \/ Prepare(c) \/ Relay(c) \/ Refused(c) \/ Record(c) \/ Break(c) \/ Leave(c)
         \/ Piece(c) \/ End(c)
  PROVE  /\ Moves /\ UNCHANGED <<audit, contacted>>
         /\ \A x \in Calls : call'[x] \in {"embedAudited", "admitted"} => call'[x] = call[x]
<1>0. /\ c \in Calls /\ \A d \in Chats : d \in Calls /\ Paired(d)
      /\ call \in [Calls -> CallStates] /\ chat \in [Chats -> Handler]
  BY DEF Calls, AccessTypes, Pairing
<1>1. UNCHANGED <<audit, contacted, sovereign, loaded>>
  BY DEF Ask, Prepare, Relay, Refused, Record, Break, Leave, Piece, End, trail, deployment
<1>2. /\ \A d \in Chats \ {c} : chat'[d] = chat[d]
      /\ chat'[c].model = chat[c].model \/ chat[c].pc = "new"
      /\ chat'[c].pc = chat[c].pc \/ chat'[c].pc \in Final \cup {"relaying", "recording"}
         \/ chat[c].pc = "new"
  <2>1. CASE \E m \in Models, s \in BOOLEAN : Ask(c, m, s)
    BY <1>0, <2>1 DEF Ask
  <2>2. CASE chat' = chat
    BY <2>2
  <2>3. CASE \E pc \in Final \cup {"relaying", "recording"} : At(c, pc)
    BY <1>0, <2>3, AtOnly DEF Handlers
  <2>4. CASE Prepare(c) \/ Relay(c) \/ Refused(c)
    BY <2>2, <2>3, <2>4 DEF Prepare, Relay, Refused, Final
  <2>5. CASE Record(c) \/ Break(c) \/ Leave(c)
    BY <2>2, <2>3, <2>5 DEF Record, Break, Leave, Final, At
  <2>6. CASE Piece(c) \/ End(c)
    BY <2>2, <2>6 DEF Piece, End
  <2> QED
    BY <2>1, <2>4, <2>5, <2>6
<1>3. /\ \A x \in Calls \ {c} : call'[x] = call[x]
      /\ \/ call'[c] = call[c]
         \/ chat[c].pc = "new" /\ call'[c] = "embed"
         \/ call[c] = "embedded" /\ call'[c] = "chat"
         \/ call[c] \in Underway /\ call'[c] = "cancelled"
         \/ call[c] = "streaming" /\ call'[c] \in {"ended", "broken"}
  <2>1. CASE \E m \in Models, s \in BOOLEAN : Ask(c, m, s)
    BY <1>0, <2>1 DEF Ask
  <2>2. CASE Prepare(c)
    BY <1>0, <2>2 DEF Prepare
  <2>3. CASE call' = call
    BY <2>3
  <2>4. CASE call' = Cancelled(c)
    BY <1>0, <2>4 DEF Cancelled
  <2>5. CASE End(c)
    BY <1>0, <2>5 DEF End
  <2>6. CASE Relay(c) \/ Refused(c) \/ Record(c) \/ Break(c) \/ Leave(c) \/ Piece(c)
    BY <2>3, <2>4, <2>6 DEF Relay, Refused, Record, Break, Leave, Piece
  <2> QED
    BY <2>1, <2>2, <2>5, <2>6
<1>4. Moves
  <2> SUFFICES ASSUME NEW d \in Chats
               PROVE  /\ chat[d].pc \notin {"new"} => chat'[d].model = chat[d].model
                      /\ chat[d].pc \notin {"new", "embedding"} => chat'[d].pc \notin {"new", "embedding"}
                      /\ call[d] = "refused" /\ chat[d].pc # "new" => call'[d] = "refused"
                      /\ call[d] \in {"streaming", "ended", "broken", "cancelled"} =>
                           call'[d] \in {"streaming", "ended", "broken", "cancelled"}
    BY <1>1 DEF Moves, deployment
  <2>1. CASE d = c
    <3>1. Paired(c)
      BY <1>0
    <3> QED
      BY <1>0, <1>2, <1>3, <2>1, <3>1 DEF Final, Underway, Paired
  <2>2. CASE d # c
    BY <1>0, <1>2, <1>3, <2>2
  <2> QED
    BY <2>1, <2>2
<1> QED
  BY <1>1, <1>3, <1>4

(* Under such a step, what the log has to say stays said. *)
LEMMA AuditKept ==
  ASSUME AccessTypes, Pairing, SettingsOK, Admitted, Contacted, Denials, Moves,
         UNCHANGED <<audit, contacted>>,
         \A x \in Calls : call'[x] \in {"embedAudited", "admitted"} => call'[x] = call[x]
  PROVE  (SettingsOK /\ Admitted /\ Contacted /\ Denials)'
<1>1. UNCHANGED <<sovereign, loaded, audit, contacted>> /\ \A c \in Chats : c \in Calls
  BY DEF Moves, deployment, Calls
<1>2. SettingsOK'
  BY <1>1 DEF SettingsOK
<1>3. \A c \in Chats : call[c] = "admitted" => chat'[c].model = chat[c].model
  BY DEF Moves, Pairing, Paired
<1>4. \A m : Route(m)' = Route(m)
  BY <1>1 DEF Route
<1>5. \A x, action, m : Told(x, action, m)' <=> Told(x, action, m)
  BY <1>1, <1>4 DEF Told, Egress
<1>6. Admitted'
  BY <1>1, <1>3, <1>4, <1>5 DEF Admitted
<1>7. Contacted'
  BY <1>1, <1>4, <1>5 DEF Contacted, Moves
<1>8. Denials'
  BY <1>1, <1>4 DEF Denials, Moves
<1> QED
  BY <1>2, <1>6, <1>7, <1>8

LEMMA AdmitChatAudited ==
  ASSUME AccessTypes, Pairing, SettingsOK, Admitted, Contacted, Denials, NEW c \in Chats, AdmitChat(c)
  PROVE  (SettingsOK /\ Admitted /\ Contacted /\ Denials)'
<1> DEFINE m == chat[c].model
<1>0. /\ c \in Calls /\ call \in [Calls -> CallStates] /\ chat[c].pc = "relaying" /\ call[c] = "chat"
      /\ \A d \in Chats : d \in Calls
  BY DEF Calls, AccessTypes, AdmitChat, Asks, Pairing, Paired
<1>1. /\ UNCHANGED <<sovereign, loaded, chat, contacted>> /\ audit \subseteq audit'
      /\ \A x \in Calls \ {c} : call'[x] = call[x]
      /\ \/ call'[c] = "refused" /\ audit' = audit
         \/ /\ call'[c] = "refused" /\ sovereign /\ Route(m).egress
            /\ audit' = audit \cup {Event(c, "denied", m, FALSE)}
         \/ /\ call'[c] = "admitted" /\ ~(sovereign /\ Route(m).egress)
            /\ audit' = audit \cup {Event(c, "chat", m, Route(m).egress)}
  BY <1>0 DEF AdmitChat, Deny, deployment
<1>2. \A n : Route(n)' = Route(n)
  BY <1>1 DEF Route
<1>3. \A x, action, n : Told(x, action, n) => Told(x, action, n)'
  BY <1>1, <1>2 DEF Told, Egress
<1>4. SettingsOK'
  BY <1>1 DEF SettingsOK
<1>5. Admitted'
  <2>1. call'[c] = "admitted" => Told(c, "chat", m)'
    BY <1>1, <1>2 DEF Told, Egress
  <2>2. \A x \in Calls : call'[x] = "embedAudited" => Told(x, "embed", EmbedModel)'
    BY <1>1, <1>3 DEF Admitted
  <2>3. \A d \in Chats : call'[d] = "admitted" =>
          Told(d, "chat", chat[d].model)' /\ ~(sovereign /\ Route(chat[d].model).egress)'
    BY <1>0, <1>1, <1>2, <1>3, <2>1 DEF Admitted
  <2> QED
    BY <2>2, <2>3 DEF Admitted
<1>6. Contacted'
  BY <1>0, <1>1, <1>2, <1>3 DEF Contacted
<1>7. Denials'
  <2> SUFFICES ASSUME NEW e \in audit', e.action = "denied"
               PROVE  /\ sovereign /\ Route(e.model).egress
                      /\ e.of \in Chats /\ call'[e.of] = "refused" /\ chat[e.of].pc \notin {"new", "embedding"}
    BY <1>1, <1>2 DEF Denials
  <2>1. CASE e \in audit
    BY <1>0, <1>1, <2>1 DEF Denials
  <2>2. CASE e \notin audit
    BY <1>0, <1>1, <2>2 DEF Event
  <2> QED
    BY <2>1, <2>2
<1> QED
  BY <1>4, <1>5, <1>6, <1>7

LEMMA AdmitEmbedAudited ==
  ASSUME AccessTypes, SettingsOK, Admitted, Contacted, Denials, NEW x \in Calls, AdmitEmbed(x)
  PROVE  (SettingsOK /\ Admitted /\ Contacted /\ Denials)'
<1>0. /\ call \in [Calls -> CallStates] /\ call[x] = "embed" /\ \A d \in Chats : d \in Calls
  BY DEF Calls, AccessTypes, AdmitEmbed, Asks
<1>1. /\ UNCHANGED <<sovereign, loaded, chat, contacted>>
      /\ \A y \in Calls \ {x} : call'[y] = call[y]
      /\ \/ call'[x] = "refused" /\ audit' = audit
         \/ /\ call'[x] = "embedAudited"
            /\ audit' = audit \cup {Event(x, "embed", EmbedModel, Egress("embed", EmbedModel))}
  BY <1>0 DEF AdmitEmbed, deployment
<1>2. \A n : Route(n)' = Route(n)
  BY <1>1 DEF Route
<1>3. \A y, action, n : Told(y, action, n) => Told(y, action, n)'
  BY <1>1, <1>2 DEF Told, Egress
<1>4. SettingsOK'
  BY <1>1 DEF SettingsOK
<1>5. Admitted'
  <2>1. call'[x] = "embedAudited" => Told(x, "embed", EmbedModel)'
    BY <1>1, <1>2 DEF Told, Egress
  <2> QED
    BY <1>0, <1>1, <1>2, <1>3, <2>1 DEF Admitted
<1>6. Contacted'
  BY <1>0, <1>1, <1>2, <1>3 DEF Contacted
<1>7. Denials'
  BY <1>0, <1>1, <1>2 DEF Denials, Event
<1> QED
  BY <1>4, <1>5, <1>6, <1>7

(* The two steps that reach a model. *)
LEMMA ContactAudited ==
  ASSUME AccessTypes, Pairing, SettingsOK, Admitted, Contacted, Denials, NEW x \in Calls,
         Embed(x) \/ (x \in Chats /\ Open(x))
  PROVE  (SettingsOK /\ Admitted /\ Contacted /\ Denials)'
<1>0. call \in [Calls -> CallStates] /\ \A d \in Chats : d \in Calls /\ Paired(d)
  BY DEF Calls, AccessTypes, Pairing
<1>1. /\ UNCHANGED <<sovereign, loaded, chat, audit>>
      /\ \A y \in Calls \ {x} : call'[y] = call[y]
      /\ \/ /\ call[x] = "embedAudited" /\ call'[x] \in {"embedded", "refused"}
            /\ Contact(x, "embed", EmbedModel)
         \/ /\ x \in Chats /\ call[x] = "admitted" /\ call'[x] = "streaming"
            /\ Contact(x, "chat", chat[x].model)
  <2>1. CASE Embed(x)
    BY <1>0, <2>1 DEF Embed, deployment
  <2>2. CASE x \in Chats /\ Open(x)
    BY <1>0, <2>2 DEF Open, deployment
  <2> QED
    BY <2>1, <2>2
<1>2. \A n : Route(n)' = Route(n)
  BY <1>1 DEF Route
<1>3. \A y, action, n : Told(y, action, n) => Told(y, action, n)'
  BY <1>1, <1>2 DEF Told, Egress
<1>4. SettingsOK'
  BY <1>1 DEF SettingsOK
<1>5. Admitted'
  BY <1>0, <1>1, <1>2, <1>3 DEF Admitted
<1>6. Contacted'
  <2> SUFFICES ASSUME NEW y \in contacted'
               PROVE  /\ y = [of |-> y.of, action |-> y.action, model |-> y.model]
                      /\ Told(y.of, y.action, y.model)
                      /\ \/ y.action = "embed" /\ y.model = EmbedModel
                         \/ /\ y.action = "chat" /\ y.of \in Chats
                            /\ ~(sovereign /\ Route(y.model).egress)
                            /\ chat[y.of].pc \notin {"new", "embedding"}
                            /\ call'[y.of] \in {"streaming", "ended", "broken", "cancelled"}
    BY <1>1, <1>2, <1>3 DEF Contacted
  <2>1. CASE y \in contacted
    BY <1>0, <1>1, <2>1 DEF Contacted
  <2>2. CASE y = [of |-> x, action |-> "embed", model |-> EmbedModel] /\ call[x] = "embedAudited"
    BY <2>2 DEF Admitted
  <2>3. CASE y = [of |-> x, action |-> "chat", model |-> chat[x].model] /\ x \in Chats
             /\ call[x] = "admitted" /\ call'[x] = "streaming"
    BY <1>0, <2>3 DEF Admitted, Paired
  <2> QED
    BY <1>1, <2>1, <2>2, <2>3 DEF Contact
<1>7. Denials'
  BY <1>0, <1>1, <1>2 DEF Denials
<1> QED
  BY <1>4, <1>5, <1>6, <1>7

LEMMA AuditStep ==
  ASSUME AccessTypes, Pairing, SettingsOK, Admitted, Contacted, Denials, [Next]_vars
  PROVE  (SettingsOK /\ Admitted /\ Contacted /\ Denials)'
<1>1. ASSUME NEW c \in Chats,
             \/ \E m \in Models, s \in BOOLEAN : Ask(c, m, s)
             \/ Prepare(c) \/ Relay(c) \/ Refused(c) \/ Record(c) \/ Break(c) \/ Leave(c)
             \/ Piece(c) \/ End(c)
      PROVE  (SettingsOK /\ Admitted /\ Contacted /\ Denials)'
  BY <1>1, OthersAdmit, AuditKept
<1>2. ASSUME NEW c \in Chats, AdmitChat(c) PROVE (SettingsOK /\ Admitted /\ Contacted /\ Denials)'
  BY <1>2, AdmitChatAudited
<1>3. ASSUME NEW c \in Chats, Open(c) PROVE (SettingsOK /\ Admitted /\ Contacted /\ Denials)'
  BY <1>3, ContactAudited DEF Calls
<1>4. ASSUME NEW x \in Calls, AdmitEmbed(x) PROVE (SettingsOK /\ Admitted /\ Contacted /\ Denials)'
  BY <1>4, AdmitEmbedAudited
<1>5. ASSUME NEW x \in Calls, Embed(x) PROVE (SettingsOK /\ Admitted /\ Contacted /\ Denials)'
  BY <1>5, ContactAudited
<1>6. ASSUME UNCHANGED vars PROVE (SettingsOK /\ Admitted /\ Contacted /\ Denials)'
  BY <1>6, AuditKept DEF vars, Moves, deployment
<1> QED
  BY AccessCases, <1>1, <1>2, <1>3, <1>4, <1>5, <1>6

(* The inductive invariants: what is at a provider or in the trail was admitted by admit_chat
   or embed, and the pieces on the wire between the gateway and core-api are those said. *)
THEOREM ModelAccessInvariant == Spec => [](AuditInv /\ RecordInv)
<1>1. Init => AuditInv /\ RecordInv
  BY RecordInit, ShapeInit, AuditInit DEF AuditInv
<1>2. AuditInv /\ RecordInv /\ [Next]_vars => (AuditInv /\ RecordInv)'
  <2> SUFFICES ASSUME AuditInv, RecordInv, [Next]_vars PROVE AuditInv' /\ RecordInv'
    OBVIOUS
  <2>1. AccessTypes' /\ Pairing' /\ RecordInv'
    BY RecordStep, ShapeStep DEF RecordInv
  <2>2. (SettingsOK /\ Admitted /\ Contacted /\ Denials)'
    BY AuditStep DEF AuditInv
  <2> QED
    BY <2>1, <2>2 DEF AuditInv
<1> QED
  BY <1>1, <1>2, PTL DEF Spec

(* NothingLeaves: in sovereign mode nothing reaches a model outside the network, whatever
   the models, their prefixes and the plugins loaded. *)
THEOREM NothingEverLeaves == Spec => []NothingLeaves
<1>1. AuditInv => NothingLeaves
  <2> SUFFICES ASSUME AuditInv, sovereign
               PROVE  /\ \A x \in contacted : ~Egress(x.action, x.model)
                      /\ \A e \in audit : e.action = "denied" => e.model \notin Listed
    BY DEF NothingLeaves
  <2>1. ASSUME NEW x \in contacted PROVE ~Egress(x.action, x.model)
    <3>1. \/ x.action = "embed" /\ x.model = EmbedModel
          \/ x.action = "chat" /\ ~Route(x.model).egress
      BY DEF AuditInv, Contacted
    <3> QED
      BY <3>1 DEF AuditInv, SettingsOK, Egress
  <2>2. ASSUME NEW e \in audit, e.action = "denied" PROVE e.model \notin Listed
    BY <2>2 DEF AuditInv, Denials, Listed
  <2> QED
    BY <2>1, <2>2
<1> QED
  BY <1>1, ModelAccessInvariant, PTL

(* EveryContactAudited: no call reaches a model without its event, and none that was
   denied does. *)
THEOREM ContactsAreAudited == Spec => []EveryContactAudited
<1>1. AuditInv => EveryContactAudited
  <2> SUFFICES ASSUME AuditInv PROVE EveryContactAudited
    OBVIOUS
  <2>1. \A x \in contacted :
          Event(x.of, x.action, x.model, Egress(x.action, x.model)) \in audit
    BY DEF AuditInv, Contacted, Told
  <2>2. ASSUME NEW x \in contacted, NEW e \in audit, e.action = "denied", e.of = x.of
        PROVE  x.action = "embed"
    BY <2>2 DEF AuditInv, Contacted, Denials
  <2> QED
    BY <2>1, <2>2 DEF EveryContactAudited
<1> QED
  BY <1>1, ModelAccessInvariant, PTL

(* RecordsAreWhole: only finished answers are recorded, in whole, and whoever got the
   last chunk finds the record, for any number of chats at once. *)
THEOREM RecordsStayWhole == Spec => []RecordsAreWhole
<1>1. RecordInv => RecordsAreWhole
  BY DEF RecordInv, Flow, Whole, RecordsAreWhole
<1> QED
  BY <1>1, ModelAccessInvariant, PTL

----------------------------------------------------------------------------
(* Retrieval: what the merged list holds and in which order, for any two lists. *)
(* The common denominator of the scores is a number. *)
LEMMA DenominatorIsNat ==
  ASSUME NEW n \in Nat
  PROVE  Denominator(n) \in Nat
<1> DEFINE Body(f) == [r \in 0 .. n |-> IF r = 0 THEN 1 ELSE f[r - 1] * (RrfK + r)]
           F == [i \in 1 .. n |-> [v \in Nat |-> v * (RrfK + i)]]
           product == CHOOSE f : f = Body(f)
<1>1. \A i \in 1 .. n, v \in Nat : v * (RrfK + i) \in Nat
  BY DEF RrfK
<1>2. F \in Steps(n, Nat)
  BY <1>1 DEF Steps
<1>3. PICK f : IsIteration(f, n, Nat, 1, F)
  <2> HIDE DEF F
  <2> QED
    BY <1>2, Iterates
<1>4. f = Body(f)
  <2>1. f \in [0 .. n -> Nat] /\ f[0] = 1 /\ \A i \in 1 .. n : f[i] = F[i][f[i - 1]]
    BY <1>3 DEF IsIteration
  <2>2. \A i \in 1 .. n : i - 1 \in 0 .. n
    OBVIOUS
  <2>3. \A i \in 1 .. n : f[i] = f[i - 1] * (RrfK + i)
    BY <2>1, <2>2
  <2>4. \A i \in 0 .. n : i # 0 => i \in 1 .. n
    OBVIOUS
  <2>5. \A i \in 0 .. n : f[i] = Body(f)[i]
    BY <2>1, <2>3, <2>4
  <2> QED
    BY <2>1, <2>5
<1>5. product = Body(product)
  BY <1>4
<1>6. Denominator(n) = product[n]
  BY DEF Denominator
<1> HIDE DEF product
<1>7. product = [i \in 0 .. n |-> product[i]] /\ product[0] = 1
  BY <1>5
<1>8. \A i \in 1 .. n : product[i - 1] \in Nat => product[i] = F[i][product[i - 1]]
  <2>1. \A i \in 1 .. n : i \in 0 .. n /\ i # 0
    OBVIOUS
  <2>2. \A i \in 1 .. n : product[i] = product[i - 1] * (RrfK + i)
    BY <1>5, <2>1
  <2> QED
    BY <2>2
<1>9. IsIteration(product, n, Nat, 1, F)
  <2> HIDE DEF F
  <2> QED
    BY <1>2, <1>7, <1>8, Computed
<1> QED
  BY <1>6, <1>9 DEF IsIteration

(* A list of a search, and the place of what it holds. *)
LEMMA RankingFacts ==
  ASSUME NEW chunks, NEW n \in Nat, NEW s \in Rankings(chunks, n)
  PROVE  /\ s \in Seq(chunks) /\ Len(s) \in 0 .. n /\ DOMAIN s = 1 .. Len(s)
         /\ \A i, j \in DOMAIN s : s[i] = s[j] => i = j
<1>1. PICK k \in 0 .. n : s \in [1 .. k -> chunks] /\ \A a, b \in 1 .. k : s[a] = s[b] => a = b
  BY DEF Rankings
<1>2. s \in Seq(chunks) /\ Len(s) = k
  BY <1>1, ListOf
<1> QED
  BY <1>1, <1>2

LEMMA RankFacts ==
  ASSUME NEW S, NEW s \in Seq(S), NEW x
  PROVE  /\ Contains(s, x) <=> x \in Range(s)
         /\ x \in Range(s) => Rank(s, x) \in 1 .. Len(s) /\ s[Rank(s, x)] = x
<1>1. DOMAIN s = 1 .. Len(s)
  OBVIOUS
<1>2. Contains(s, x) <=> x \in Range(s)
  BY <1>1 DEF Contains, Range
<1>3. ASSUME x \in Range(s) PROVE Rank(s, x) \in 1 .. Len(s) /\ s[Rank(s, x)] = x
  <2>1. \E i \in DOMAIN s : s[i] = x
    BY <1>3 DEF Range
  <2> QED
    BY <1>1, <2>1 DEF Rank
<1> QED
  BY <1>2, <1>3

(* A better place in a list is no smaller a share. *)
LEMMA Shares ==
  ASSUME NEW d \in Nat, NEW r \in Nat, NEW q \in Nat, r <= q
  PROVE  d \div (RrfK + r) \in Nat /\ d \div (RrfK + q) <= d \div (RrfK + r)
<1> DEFINE b == RrfK + r
           c == RrfK + q
<1>1. b \in Nat /\ c \in Nat /\ b > 0 /\ c > 0 /\ b <= c
  BY DEF RrfK
<1> HIDE DEF b, c
<1> DEFINE u == d \div b
           v == d \div c
<1>2. u \in Int /\ b * u <= d /\ d < b * (u + 1)
  BY <1>1
<1>3. v \in Int /\ c * v <= d /\ d < c * (v + 1)
  BY <1>1
<1> HIDE DEF u, v
<1>4. u >= 0
  <2> SUFFICES ASSUME u + 1 <= 0 PROVE FALSE
    BY <1>2
  <2>1. b * (u + 1) <= 0
    BY <1>1, <1>2
  <2> QED
    BY <1>1, <1>2, <2>1
<1>5. v <= u
  <2> SUFFICES ASSUME u + 1 <= v PROVE FALSE
    BY <1>2, <1>3
  <2>1. b * (u + 1) <= c * (u + 1)
    BY <1>1, <1>2, <1>4
  <2>2. c * (u + 1) <= c * v
    BY <1>1, <1>2, <1>3
  <2>3. b * (u + 1) \in Int /\ c * (u + 1) \in Int /\ c * v \in Int
    BY <1>1, <1>2, <1>3
  <2> QED
    BY <1>2, <1>3, <2>1, <2>2, <2>3
<1> QED
  BY <1>2, <1>4, <1>5 DEF u, v, b, c

(* A strict total order. *)
Orders(before, S) ==
  /\ \A x \in S : <<x, x>> \notin before
  /\ \A x, y, z \in S : <<x, y>> \in before /\ <<y, z>> \in before => <<x, z>> \in before
  /\ \A x, y \in S : x # y => <<x, y>> \in before \/ <<y, x>> \in before

(* Ordered lists all of a finite set, each element once, in its order. *)
LEMMA OrderedFacts ==
  ASSUME NEW S, IsFiniteSet(S), NEW before, Orders(before, S)
  PROVE  LET list == Ordered(S, before)
         IN /\ list \in [1 .. Cardinality(S) -> S]
            /\ \A x \in S : \E i \in 1 .. Cardinality(S) : list[i] = x
            /\ \A i, j \in 1 .. Cardinality(S) : i < j => <<list[i], list[j]>> \in before
<1> DEFINE list == Ordered(S, before)
           n == Cardinality(S)
           Earlier(x) == {y \in S : <<y, x>> \in before}
           place == [x \in S |-> Cardinality(Earlier(x)) + 1]
<1>1. n \in Nat
  BY FS_CardinalityType
<1>2. \A x \in S : IsFiniteSet(Earlier(x)) /\ Cardinality(Earlier(x)) \in Nat
  <2> SUFFICES ASSUME NEW x \in S PROVE IsFiniteSet(Earlier(x)) /\ Cardinality(Earlier(x)) \in Nat
    OBVIOUS
  <2>1. Earlier(x) \in SUBSET S
    OBVIOUS
  <2> HIDE DEF Earlier
  <2> QED
    BY <2>1, FS_Subset, FS_CardinalityType
<1>3. ASSUME NEW x \in S, NEW y \in S, <<x, y>> \in before
      PROVE  Cardinality(Earlier(x)) < Cardinality(Earlier(y))
  <2>1. Earlier(x) \in SUBSET Earlier(y)
    BY <1>3 DEF Orders
  <2>2. x \in Earlier(y) /\ x \notin Earlier(x)
    BY <1>3 DEF Orders
  <2>3. IsFiniteSet(Earlier(y)) /\ Cardinality(Earlier(y)) \in Nat /\ Cardinality(Earlier(x)) \in Nat
    BY <1>2
  <2> HIDE DEF Earlier
  <2>4. Cardinality(Earlier(x)) <= Cardinality(Earlier(y))
    BY <2>1, <2>3, FS_Subset
  <2>5. Cardinality(Earlier(y)) # Cardinality(Earlier(x))
    BY <2>1, <2>2, <2>3, FS_Subset
  <2> QED
    BY <2>3, <2>4, <2>5
<1>4. \A x \in S : Cardinality(Earlier(x)) < n
  <2> SUFFICES ASSUME NEW x \in S PROVE Cardinality(Earlier(x)) < n
    OBVIOUS
  <2>1. Earlier(x) \in SUBSET S /\ x \notin Earlier(x)
    BY DEF Orders
  <2>2. Cardinality(Earlier(x)) \in Nat
    BY <1>2
  <2> HIDE DEF Earlier
  <2>3. Cardinality(Earlier(x)) <= n /\ Cardinality(Earlier(x)) # n
    BY <2>1, FS_Subset
  <2> QED
    BY <1>1, <2>2, <2>3
<1>5. place \in [S -> 1 .. n]
  <2> HIDE DEF Earlier, n
  <2>1. \A x \in S : Cardinality(Earlier(x)) + 1 \in 1 .. n
    BY <1>1, <1>2, <1>4
  <2> QED
    BY <2>1
<1>6. \A x, y \in S : place[x] = place[y] => x = y
  <2> SUFFICES ASSUME NEW x \in S, NEW y \in S, place[x] = place[y], x # y PROVE FALSE
    OBVIOUS
  <2>1. Cardinality(Earlier(x)) = Cardinality(Earlier(y)) /\ Cardinality(Earlier(x)) \in Nat
    <3>1. place[x] = Cardinality(Earlier(x)) + 1 /\ place[y] = Cardinality(Earlier(y)) + 1
      OBVIOUS
    <3>2. Cardinality(Earlier(x)) \in Nat /\ Cardinality(Earlier(y)) \in Nat
      BY <1>2
    <3>3. Cardinality(Earlier(x)) + 1 = Cardinality(Earlier(y)) + 1
      BY <3>1
    <3> HIDE DEF Earlier, place
    <3> QED
      BY <3>2, <3>3
  <2>2. <<x, y>> \in before \/ <<y, x>> \in before
    BY DEF Orders
  <2> HIDE DEF Earlier
  <2> QED
    BY <1>3, <2>1, <2>2
<1>7. \A i \in 1 .. n : \E x \in S : place[x] = i
  <2> HIDE DEF place
  <2>1. place \in Injection(S, 1 .. n)
    BY <1>5, <1>6, Fun_IsInj
  <2>2. IsFiniteSet(1 .. n) /\ Cardinality(1 .. n) = n
    BY <1>1, FS_Interval
  <2> HIDE DEF n
  <2>3. place \in Surjection(S, 1 .. n)
    BY <2>1, <2>2, FS_Injection DEF n
  <2> QED
    BY <2>3, Fun_SurjectionProperties
<1>8. ASSUME NEW i \in 1 .. n PROVE list[i] \in S /\ place[list[i]] = i
  <2>1. PICK x \in S : place[x] = i
    BY <1>7
  <2>2. Cardinality(Earlier(x)) = i - 1
    <3>1. place[x] = Cardinality(Earlier(x)) + 1
      OBVIOUS
    <3> HIDE DEF Earlier, place
    <3> QED
      BY <1>2, <2>1, <3>1
  <2>3. list[i] = CHOOSE z \in S : Cardinality(Earlier(z)) = i - 1
    BY DEF Ordered
  <2>4. list[i] \in S /\ Cardinality(Earlier(list[i])) = i - 1
    <3> HIDE DEF Earlier, list
    <3> QED
      BY <2>2, <2>3
  <2>5. place[list[i]] = Cardinality(Earlier(list[i])) + 1
    BY <2>4
  <2> HIDE DEF Earlier, list, place
  <2> QED
    BY <1>1, <2>4, <2>5
<1>9. list \in [1 .. n -> S]
  BY <1>8 DEF Ordered
<1>10. ASSUME NEW x \in S PROVE \E i \in 1 .. n : list[i] = x
  <2>1. place[x] \in 1 .. n
    BY <1>5
  <2>2. list[place[x]] \in S /\ place[list[place[x]]] = place[x]
    BY <1>8, <2>1
  <2>3. list[place[x]] = x
    BY <1>6, <2>2
  <2> QED
    BY <2>1, <2>3
<1>11. ASSUME NEW i \in 1 .. n, NEW j \in 1 .. n, i < j PROVE <<list[i], list[j]>> \in before
  <2>1. list[i] \in S /\ list[j] \in S /\ place[list[i]] = i /\ place[list[j]] = j
    BY <1>8
  <2>2. list[i] # list[j]
    <3> HIDE DEF list, place
    <3> QED
      BY <1>1, <1>11, <2>1
  <2>3. ASSUME <<list[j], list[i]>> \in before PROVE FALSE
    <3>1. Cardinality(Earlier(list[j])) < Cardinality(Earlier(list[i]))
      BY <1>3, <2>1, <2>3
    <3>2. place[list[i]] = Cardinality(Earlier(list[i])) + 1 /\ place[list[j]] = Cardinality(Earlier(list[j])) + 1
      BY <2>1
    <3>3. Cardinality(Earlier(list[i])) \in Nat /\ Cardinality(Earlier(list[j])) \in Nat
      BY <1>2, <2>1
    <3> HIDE DEF Earlier, list, place
    <3> QED
      BY <1>1, <1>11, <2>1, <3>1, <3>2, <3>3
  <2> QED
    BY <2>1, <2>2, <2>3 DEF Orders
<1> QED
  BY <1>9, <1>10, <1>11

(* A place as the property counts it: behind all others without one. *)
PlaceIn(s, x, k) == IF Contains(s, x) THEN Rank(s, x) ELSE k + 1

(* What a list adds to a chunk's score. *)
LEMMA ShareFacts ==
  ASSUME NEW chunks, NEW k \in Nat, NEW s \in Rankings(chunks, k), NEW n \in Nat, NEW x
  PROVE  /\ Share(s, x, n) \in Nat
         /\ x \in Range(s) => PlaceIn(s, x, k) = Rank(s, x) /\ Rank(s, x) \in 1 .. k /\ Rank(s, x) \in 1 .. Len(s)
                              /\ Share(s, x, n) = Denominator(n) \div (RrfK + Rank(s, x))
         /\ x \notin Range(s) => PlaceIn(s, x, k) = k + 1 /\ Share(s, x, n) = 0
<1>1. s \in Seq(chunks) /\ Len(s) \in 0 .. k
  BY RankingFacts
<1>2. /\ Contains(s, x) <=> x \in Range(s)
      /\ x \in Range(s) => Rank(s, x) \in 1 .. Len(s) /\ s[Rank(s, x)] = x
  BY <1>1, RankFacts
<1>3. CASE x \in Range(s)
  <2>1. Rank(s, x) \in 1 .. Len(s) /\ Rank(s, x) \in 1 .. k /\ Rank(s, x) \in Nat
    BY <1>1, <1>2, <1>3
  <2>2. PlaceIn(s, x, k) = Rank(s, x) /\ Share(s, x, n) = Denominator(n) \div (RrfK + Rank(s, x))
    BY <1>2, <1>3 DEF PlaceIn, Share
  <2>3. Denominator(n) \div (RrfK + Rank(s, x)) \in Nat
    <3>1. PICK d \in Nat, r \in Nat : d = Denominator(n) /\ r = Rank(s, x)
      BY <2>1, DenominatorIsNat
    <3>2. r <= r
      BY <3>1
    <3>3. d \div (RrfK + r) \in Nat
      BY <3>2, Shares
    <3> QED
      BY <3>1, <3>3
  <2> QED
    BY <1>3, <2>1, <2>2, <2>3
<1>4. CASE x \notin Range(s)
  BY <1>2, <1>4 DEF PlaceIn, Share
<1> QED
  BY <1>3, <1>4

(* Who has the better place in a list is in it, and has no smaller a share. *)
LEMMA BetterShare ==
  ASSUME NEW chunks, NEW k \in Nat, NEW s \in Rankings(chunks, k), NEW n \in Nat, NEW x, NEW y,
         PlaceIn(s, x, k) < PlaceIn(s, y, k)
  PROVE  /\ x \in Range(s) /\ Share(s, y, n) <= Share(s, x, n)
         /\ y \in Range(s) => Rank(s, x) < Rank(s, y)
<1>1. x \in Range(s)
  <2> SUFFICES ASSUME x \notin Range(s) PROVE FALSE
    OBVIOUS
  <2>1. PlaceIn(s, x, k) = k + 1
    BY ShareFacts
  <2>2. PlaceIn(s, y, k) \in 1 .. k + 1
    <3>1. CASE y \in Range(s)
      BY <3>1, ShareFacts
    <3>2. CASE y \notin Range(s)
      BY <3>2, ShareFacts
    <3> QED
      BY <3>1, <3>2
  <2> QED
    BY <2>1, <2>2
<1>2. PlaceIn(s, x, k) = Rank(s, x) /\ Rank(s, x) \in Nat /\ Share(s, x, n) = Denominator(n) \div (RrfK + Rank(s, x))
  <2>1. Rank(s, x) \in 1 .. k
    BY <1>1, ShareFacts
  <2>2. Rank(s, x) \in Nat
    BY <2>1
  <2>3. PlaceIn(s, x, k) = Rank(s, x) /\ Share(s, x, n) = Denominator(n) \div (RrfK + Rank(s, x))
    BY <1>1, ShareFacts
  <2> QED
    BY <2>2, <2>3
<1>3. CASE y \in Range(s)
  <2>1. PlaceIn(s, y, k) = Rank(s, y) /\ Rank(s, y) \in Nat /\ Share(s, y, n) = Denominator(n) \div (RrfK + Rank(s, y))
    <3>1. Rank(s, y) \in 1 .. k
      BY <1>3, ShareFacts
    <3>2. Rank(s, y) \in Nat
      BY <3>1
    <3>3. PlaceIn(s, y, k) = Rank(s, y) /\ Share(s, y, n) = Denominator(n) \div (RrfK + Rank(s, y))
      BY <1>3, ShareFacts
    <3> QED
      BY <3>2, <3>3
  <2>2. Rank(s, x) < Rank(s, y)
    BY <1>2, <2>1
  <2>3. Rank(s, x) <= Rank(s, y)
    BY <1>2, <2>1, <2>2
  <2>4. Denominator(n) \div (RrfK + Rank(s, y)) <= Denominator(n) \div (RrfK + Rank(s, x))
    BY <1>2, <2>1, <2>3, DenominatorIsNat, Shares
  <2> QED
    BY <1>1, <1>2, <2>1, <2>2, <2>4
<1>4. CASE y \notin Range(s)
  <2>1. Share(s, y, n) = 0 /\ Share(s, x, n) \in Nat
    BY <1>4, ShareFacts
  <2> QED
    BY <1>1, <1>4, <2>1
<1> QED
  BY <1>3, <1>4

(* All that the searches found is seen: first what the first one found, in its order. *)
LEMMA SeenFacts ==
  ASSUME NEW chunks, NEW k \in Nat, NEW semantic \in Rankings(chunks, k), NEW lexical \in Rankings(chunks, k)
  PROVE  LET seen == Seen(semantic, lexical)
         IN /\ Range(seen) = Range(semantic) \cup Range(lexical)
            /\ \A x \in Range(seen) : Rank(seen, x) \in Nat /\ seen[Rank(seen, x)] = x
            /\ \A x \in Range(semantic) : Rank(seen, x) = Rank(semantic, x)
            /\ \A x \in Range(seen) \ Range(semantic) : Rank(seen, x) > Len(semantic)
<1> DEFINE seen == Seen(semantic, lexical)
           later == Kept(lexical, Range(lexical) \ Range(semantic))
           m == Len(semantic)
<1>1. /\ semantic \in Seq(chunks) /\ lexical \in Seq(chunks) /\ DOMAIN semantic = 1 .. m /\ m \in Nat
      /\ \A i, j \in DOMAIN semantic : semantic[i] = semantic[j] => i = j
  BY RankingFacts
<1>2. later \in Seq(chunks) /\ Range(later) = Range(lexical) \cap (Range(lexical) \ Range(semantic))
  BY <1>1, KeptProperties
<1>3. seen = semantic \o later
  BY DEF Seen
<1> HIDE DEF later, seen
<1>4. /\ seen \in Seq(chunks) /\ Len(seen) = m + Len(later) /\ Len(later) \in Nat
      /\ \A i \in 1 .. m : seen[i] = semantic[i]
      /\ \A i \in m + 1 .. m + Len(later) : seen[i] = later[i - m]
  BY <1>1, <1>2, <1>3, ConcatProperties
<1>5. DOMAIN seen = 1 .. m + Len(later) /\ DOMAIN later = 1 .. Len(later)
  BY <1>2, <1>4
<1>6. \A i \in m + 1 .. m + Len(later) : i - m \in DOMAIN later /\ seen[i] \in Range(later)
  <2>1. \A i \in m + 1 .. m + Len(later) : i - m \in 1 .. Len(later)
    BY <1>1, <1>4
  <2> QED
    BY <1>4, <1>5, <2>1 DEF Range
<1>7. \A i \in 1 .. m + Len(later) : i \in 1 .. m \/ i \in m + 1 .. m + Len(later)
  BY <1>1, <1>4
<1>8. Range(seen) = Range(semantic) \cup Range(later)
  BY <1>1, <1>2, <1>3, RangeConcatenation
<1>9. Range(seen) = Range(semantic) \cup Range(lexical)
  BY <1>2, <1>8
<1>10. \A x \in Range(seen) : Rank(seen, x) \in 1 .. m + Len(later) /\ seen[Rank(seen, x)] = x
  BY <1>4, RankFacts
<1>11. ASSUME NEW x \in Range(semantic) PROVE Rank(seen, x) = Rank(semantic, x)
  <2>1. x \in Range(seen) /\ x \notin Range(later)
    BY <1>2, <1>9
  <2>2. Rank(seen, x) \in 1 .. m
    BY <1>6, <1>7, <1>10, <2>1
  <2>3. semantic[Rank(seen, x)] = x
    BY <1>4, <1>10, <2>1, <2>2
  <2>4. Rank(semantic, x) \in 1 .. m /\ semantic[Rank(semantic, x)] = x
    BY <1>1, RankFacts
  <2> QED
    BY <1>1, <2>2, <2>3, <2>4
<1>12. ASSUME NEW x \in Range(seen) \ Range(semantic) PROVE Rank(seen, x) > m
  <2>1. Rank(seen, x) \notin 1 .. m
    BY <1>1, <1>4, <1>10 DEF Range
  <2> QED
    BY <1>1, <1>4, <1>10, <2>1
<1>13. \A x \in Range(seen) : Rank(seen, x) \in Nat /\ seen[Rank(seen, x)] = x
  BY <1>1, <1>4, <1>10
<1> QED
  BY <1>9, <1>11, <1>12, <1>13 DEF seen

(* The precedence of what the searches found is a strict total order, in which a chunk
   that both placed before another comes first. *)
LEMMA PrecedenceFacts ==
  ASSUME NEW chunks, NEW k \in Nat, NEW semantic \in Rankings(chunks, k), NEW lexical \in Rankings(chunks, k)
  PROVE  LET all == Range(Seen(semantic, lexical))
             before == Precedence(semantic, lexical)
         IN /\ Orders(before, all)
            /\ \A x, y \in all :
                 PlaceIn(semantic, x, k) < PlaceIn(semantic, y, k) /\ PlaceIn(lexical, x, k) < PlaceIn(lexical, y, k)
                   => <<x, y>> \in before
<1> DEFINE seen == Seen(semantic, lexical)
           all == Range(seen)
           before == Precedence(semantic, lexical)
           n == Len(semantic) + Len(lexical)
           score == [x \in all |-> Share(semantic, x, n) + Share(lexical, x, n)]
           rank == [x \in all |-> Rank(seen, x)]
<1>1. n \in Nat
  <2>1. Len(semantic) \in 0 .. k /\ Len(lexical) \in 0 .. k
    BY RankingFacts
  <2> QED
    BY <2>1
<1>2. \A x, y \in all :
        <<x, y>> \in before <=> score[x] > score[y] \/ (score[x] = score[y] /\ rank[x] < rank[y])
  <2> HIDE DEF n
  <2> QED
    BY DEF Precedence, n
<1>3. score \in [all -> Nat]
  <2> SUFFICES ASSUME NEW x \in all PROVE Share(semantic, x, n) + Share(lexical, x, n) \in Nat
    OBVIOUS
  <2>1. Share(semantic, x, n) \in Nat
    BY <1>1, ShareFacts
  <2>2. Share(lexical, x, n) \in Nat
    BY <1>1, ShareFacts
  <2> QED
    BY <2>1, <2>2
<1>4. rank \in [all -> Nat] /\ \A x, y \in all : rank[x] = rank[y] => x = y
  <2>1. \A x \in all : rank[x] \in Nat /\ seen[rank[x]] = x
    BY SeenFacts
  <2>2. \A x, y \in all : rank[x] = rank[y] => x = y
    <3> HIDE DEF rank
    <3> QED
      BY <2>1
  <2> QED
    BY <2>1, <2>2
<1>5. ASSUME NEW x \in all, NEW y \in all, PlaceIn(semantic, x, k) < PlaceIn(semantic, y, k),
             PlaceIn(lexical, x, k) < PlaceIn(lexical, y, k)
      PROVE  score[x] >= score[y] /\ rank[x] < rank[y]
  <2>1. /\ x \in Range(semantic) /\ Share(semantic, y, n) <= Share(semantic, x, n)
        /\ y \in Range(semantic) => Rank(semantic, x) < Rank(semantic, y)
    BY <1>1, <1>5, BetterShare
  <2>2. Share(lexical, y, n) <= Share(lexical, x, n)
    BY <1>1, <1>5, BetterShare
  <2>3. /\ Share(semantic, x, n) \in Nat /\ Share(semantic, y, n) \in Nat
        /\ Share(lexical, x, n) \in Nat /\ Share(lexical, y, n) \in Nat
    <3>1. \A z : Share(semantic, z, n) \in Nat
      BY <1>1, ShareFacts
    <3>2. \A z : Share(lexical, z, n) \in Nat
      BY <1>1, ShareFacts
    <3> QED
      BY <3>1, <3>2
  <2>4. score[x] >= score[y]
    <3>1. score[x] = Share(semantic, x, n) + Share(lexical, x, n)
          /\ score[y] = Share(semantic, y, n) + Share(lexical, y, n)
      OBVIOUS
    <3> HIDE DEF score
    <3> QED
      BY <2>1, <2>2, <2>3, <3>1
  <2>5. rank[x] = Rank(semantic, x) /\ Rank(semantic, x) \in Nat /\ Rank(semantic, x) <= Len(semantic)
    <3>1. rank[x] = Rank(semantic, x)
      BY <2>1, SeenFacts
    <3>2. Rank(semantic, x) \in 1 .. Len(semantic) /\ Len(semantic) \in Nat
      <4>1. Rank(semantic, x) \in 1 .. Len(semantic)
        BY <1>1, <2>1, ShareFacts
      <4>2. Len(semantic) \in 0 .. k
        BY RankingFacts
      <4> QED
        BY <4>1, <4>2
    <3> QED
      BY <3>1, <3>2
  <2>6. CASE y \in Range(semantic)
    <3>1. rank[y] = Rank(semantic, y)
      BY <2>6, SeenFacts
    <3> QED
      BY <2>1, <2>4, <2>5, <2>6, <3>1
  <2>7. CASE y \notin Range(semantic)
    <3>1. rank[y] > Len(semantic)
      BY <2>7, SeenFacts
    <3>2. Len(semantic) \in 0 .. k /\ rank[y] \in Nat
      BY <1>4, RankingFacts
    <3> HIDE DEF rank, score
    <3> QED
      BY <2>4, <2>5, <3>1, <3>2
  <2> QED
    BY <2>6, <2>7
<1> HIDE DEF seen, all, before, n, score, rank
<1>6. Orders(before, all)
  <2>1. \A x \in all : score[x] \in Nat /\ rank[x] \in Nat
    BY <1>3, <1>4
  <2>2. \A x \in all : <<x, x>> \notin before
    BY <1>2, <2>1
  <2>3. ASSUME NEW x \in all, NEW y \in all, NEW z \in all, <<x, y>> \in before, <<y, z>> \in before
        PROVE  <<x, z>> \in before
    BY <1>2, <2>1, <2>3
  <2>4. ASSUME NEW x \in all, NEW y \in all, x # y PROVE <<x, y>> \in before \/ <<y, x>> \in before
    <3>1. rank[x] # rank[y]
      BY <1>4, <2>4
    <3> QED
      BY <1>2, <2>1, <3>1
  <2> QED
    BY <2>2, <2>3, <2>4 DEF Orders
<1>7. ASSUME NEW x \in all, NEW y \in all, PlaceIn(semantic, x, k) < PlaceIn(semantic, y, k),
             PlaceIn(lexical, x, k) < PlaceIn(lexical, y, k)
      PROVE  <<x, y>> \in before
  <2>1. score[x] >= score[y] /\ rank[x] < rank[y] /\ score[x] \in Nat /\ score[y] \in Nat
    BY <1>3, <1>5, <1>7
  <2> QED
    BY <1>2, <2>1
<1> QED
  BY <1>6, <1>7 DEF before, all, seen

(* The sources: as many of the found chunks as there is room for, and the first in precedence. *)
LEMMA FuseFacts ==
  ASSUME NEW chunks, NEW k \in Nat, NEW semantic \in Rankings(chunks, k), NEW lexical \in Rankings(chunks, k),
         NEW limit \in Nat
  PROVE  LET all == Range(semantic) \cup Range(lexical)
             list == Fuse(semantic, lexical, limit)
             cited == Range(list)
         IN /\ Len(list) = Cardinality(cited) /\ cited \subseteq all
            /\ Cardinality(cited) = Min({limit, Cardinality(all)})
            /\ \A x \in all \ cited, y \in cited :
                 ~(PlaceIn(semantic, x, k) < PlaceIn(semantic, y, k) /\ PlaceIn(lexical, x, k) < PlaceIn(lexical, y, k))
<1> DEFINE all == Range(semantic) \cup Range(lexical)
           before == Precedence(semantic, lexical)
           order == Ordered(all, before)
           n == Cardinality(all)
           m == IF n < limit THEN n ELSE limit
           list == Fuse(semantic, lexical, limit)
           cited == Range(list)
<1>1. Range(Seen(semantic, lexical)) = all
  BY SeenFacts
<1>2. IsFiniteSet(all) /\ n \in Nat
  <2>1. \A s \in Rankings(chunks, k) : IsFiniteSet(Range(s))
    <3> SUFFICES ASSUME NEW s \in Rankings(chunks, k) PROVE IsFiniteSet(Range(s))
      OBVIOUS
    <3>1. s \in Seq(chunks) /\ DOMAIN s = 1 .. Len(s) /\ Len(s) \in 0 .. k
      BY RankingFacts
    <3>2. s \in [1 .. Len(s) -> chunks]
      BY <3>1
    <3>3. s \in Surjection(1 .. Len(s), Range(s))
      BY <3>2, Fun_RangeProperties
    <3>4. IsFiniteSet(1 .. Len(s))
      BY <3>1, FS_Interval
    <3> QED
      BY <3>3, <3>4, FS_Surjection
  <2>2. IsFiniteSet(all)
    BY <2>1, FS_Union
  <2> HIDE DEF all
  <2> QED
    BY <2>2, FS_CardinalityType
<1>3. /\ Orders(before, all)
      /\ \A x, y \in all :
           PlaceIn(semantic, x, k) < PlaceIn(semantic, y, k) /\ PlaceIn(lexical, x, k) < PlaceIn(lexical, y, k)
             => <<x, y>> \in before
  BY <1>1, PrecedenceFacts
<1> HIDE DEF all, before
<1>4. /\ order \in [1 .. n -> all]
      /\ \A x \in all : \E i \in 1 .. n : order[i] = x
      /\ \A i, j \in 1 .. n : i < j => <<order[i], order[j]>> \in before
  BY <1>2, <1>3, OrderedFacts
<1>5. list = SubSeq(order, 1, m)
  <2>1. Rrf(semantic, lexical) = order
    BY <1>1 DEF Rrf, before
  <2>2. Len(order) = n
    BY <1>2, <1>4, ListOf
  <2> HIDE DEF order
  <2> QED
    BY <2>1, <2>2 DEF Fuse
<1>6. m \in Nat /\ m <= n /\ m = Min({limit, n})
  <2>1. m \in {limit, n} /\ \A z \in {limit, n} : m <= z
    BY <1>2
  <2>2. {limit, n} \in SUBSET Nat /\ {limit, n} # {}
    BY <1>2
  <2>3. Min({limit, n}) \in {limit, n} /\ \A z \in {limit, n} : Min({limit, n}) <= z
    BY <2>2, MinIn
  <2> QED
    BY <1>2, <2>1, <2>3
<1> HIDE DEF order, n, m, list
<1>7. /\ list \in Seq(all) /\ Len(list) = m /\ \A i \in 1 .. m : list[i] = order[i] /\ i \in 1 .. n
  <2>1. \A i \in 1 .. m : i \in 1 .. n /\ order[i] \in all
    BY <1>2, <1>4, <1>6
  <2>2. /\ SubSeq(order, 1, m) \in Seq(all)
        /\ Len(SubSeq(order, 1, m)) = IF 1 <= m THEN m - 1 + 1 ELSE 0
        /\ \A i \in 1 .. m - 1 + 1 : SubSeq(order, 1, m)[i] = order[1 + i - 1]
    <3>1. 1 \in Int /\ m \in Int /\ \A i \in 1 .. m : order[i] \in all
      BY <1>6, <2>1
    <3> QED
      BY <3>1, SubSeqProperties
  <2>3. Len(list) = m
    BY <1>5, <1>6, <2>2
  <2>4. \A i \in 1 .. m : i \in 1 .. m - 1 + 1 /\ 1 + i - 1 = i
    BY <1>6
  <2> QED
    BY <1>5, <2>1, <2>2, <2>3, <2>4
<1>8. list \in [1 .. m -> all] /\ DOMAIN list = 1 .. m
  BY <1>7
<1>9. \A i, j \in 1 .. m : list[i] = list[j] => i = j
  <2> SUFFICES ASSUME NEW i \in 1 .. m, NEW j \in 1 .. m, list[i] = list[j], i # j PROVE FALSE
    OBVIOUS
  <2>1. order[i] = order[j] /\ i \in 1 .. n /\ j \in 1 .. n
    BY <1>7
  <2>2. order[i] \in all /\ order[j] \in all
    BY <1>4, <2>1
  <2>3. i < j \/ j < i
    BY <1>6
  <2> QED
    BY <1>3, <1>4, <2>1, <2>2, <2>3 DEF Orders
<1>10. Cardinality(cited) = m
  <2>1. list \in Surjection(1 .. m, Range(list)) /\ list \in Injection(1 .. m, all)
    BY <1>8, <1>9, Fun_RangeProperties, Fun_IsInj
  <2>2. list \in Injection(1 .. m, Range(list))
    BY <1>9, <2>1, Fun_SurjectionProperties, Fun_IsInj
  <2>3. IsFiniteSet(1 .. m) /\ Cardinality(1 .. m) = m
    BY <1>6, FS_Interval
  <2> QED
    BY <2>1, <2>2, <2>3, FS_Surjection
<1>11. cited \subseteq all
  BY <1>8 DEF Range
<1>12. ASSUME NEW x \in all \ cited, NEW y \in cited PROVE <<x, y>> \notin before
  <2>1. PICK i \in 1 .. m : list[i] = y
    BY <1>8 DEF Range
  <2>2. PICK j \in 1 .. n : order[j] = x
    BY <1>4
  <2>3. j \notin 1 .. m
    BY <1>7, <1>8, <2>2 DEF Range
  <2>4. i < j /\ i \in 1 .. n /\ order[i] = y
    <3>1. i \in 1 .. n /\ order[i] = y
      BY <1>7, <2>1
    <3> QED
      BY <1>2, <1>6, <2>3, <3>1
  <2>5. <<y, x>> \in before
    BY <1>4, <2>2, <2>4
  <2> QED
    BY <1>3, <1>11, <2>5 DEF Orders
<1> QED
  BY <1>3, <1>6, <1>7, <1>10, <1>11, <1>12 DEF list, n, all

(* The sources of a prompt are those of what its searches found. *)
PromptedBy(f, s) ==
  \/ f = <<<<>>, <<>>>> /\ s = <<>>
  \/ \E semantic, lexical \in Rankings(Chunks, TopK) :
       f = <<semantic, lexical>> /\ s = Fuse(semantic, lexical, ContextChunks)
SourcesInv ==
  /\ found = [c \in Chats |-> found[c]] /\ sources = [c \in Chats |-> sources[c]]
  /\ \A c \in Chats : PromptedBy(found[c], sources[c])

(* Only Prepare writes a prompt. *)
LEMMA PromptsStay ==
  ASSUME [Next]_vars, \A c \in Chats : ~Prepare(c)
  PROVE  UNCHANGED prompts
BY AccessCases
DEF Ask, Relay, Refused, Record, Break, Leave, AdmitChat, Open, Piece, End, AdmitEmbed, Embed, prompts, vars

LEMMA SourcesStep ==
  ASSUME SourcesInv, [Next]_vars
  PROVE  SourcesInv'
<1>1. CASE UNCHANGED prompts
  BY <1>1 DEF SourcesInv, PromptedBy, prompts
<1>2. ASSUME NEW c \in Chats, Prepare(c), call[c] = "embedded" PROVE SourcesInv'
  <2>1. PICK semantic \in Rankings(Chunks, TopK), lexical \in Rankings(Chunks, TopK) :
          /\ found' = [found EXCEPT ![c] = <<semantic, lexical>>]
          /\ sources' = [sources EXCEPT ![c] = Fuse(semantic, lexical, ContextChunks)]
    BY <1>2 DEF Prepare
  <2> DEFINE list == Fuse(semantic, lexical, ContextChunks)
             both == <<semantic, lexical>>
  <2>2. PromptedBy(both, list)
    BY DEF PromptedBy
  <2> HIDE DEF list, both
  <2>3. found' = [found EXCEPT ![c] = both] /\ sources' = [sources EXCEPT ![c] = list]
    BY <2>1 DEF list, both
  <2>4. /\ found' = [d \in Chats |-> found'[d]] /\ sources' = [d \in Chats |-> sources'[d]]
        /\ found'[c] = both /\ sources'[c] = list
        /\ \A d \in Chats \ {c} : found'[d] = found[d] /\ sources'[d] = sources[d]
    BY <2>3 DEF SourcesInv
  <2>5. \A d \in Chats : PromptedBy(found'[d], sources'[d])
    BY <2>2, <2>4 DEF SourcesInv
  <2>6. (\A d \in Chats : PromptedBy(found[d], sources[d]))'
    BY <2>5 DEF PromptedBy
  <2> QED
    BY <2>4, <2>6 DEF SourcesInv
<1>3. ASSUME NEW c \in Chats, Prepare(c), call[c] # "embedded" PROVE UNCHANGED prompts
  BY <1>3 DEF Prepare
<1> QED
  BY <1>1, <1>2, <1>3, PromptsStay

(* SourcesAreTheBest: a prompt cites as many of the found chunks as it has room for, each
   once, and leaves out none that both searches placed before one it cites, whatever they
   found. *)
THEOREM SourcesStayTheBest == Spec => []SourcesAreTheBest
<1>1. Init => SourcesInv
  BY DEF Init, SourcesInv, PromptedBy
<1>2. SourcesInv /\ [Next]_vars => SourcesInv'
  BY SourcesStep
<1>3. SourcesInv => SourcesAreTheBest
  <2> SUFFICES ASSUME SourcesInv, NEW c \in Chats
      PROVE  LET all == Range(found[c][1]) \cup Range(found[c][2])
                 cited == Range(sources[c])
                 Place(s, x) == IF Contains(s, x) THEN Rank(s, x) ELSE TopK + 1
             IN /\ Len(sources[c]) = Cardinality(cited) /\ cited \subseteq all
                /\ Cardinality(cited) = Min({ContextChunks, Cardinality(all)})
                /\ \A x \in all \ cited, y \in cited :
                     ~\A i \in {1, 2} : Place(found[c][i], x) < Place(found[c][i], y)
    BY DEF SourcesAreTheBest
  <2>1. CASE found[c] = <<<<>>, <<>>>> /\ sources[c] = <<>>
    <3>1. Range(<<>>) = {} /\ Len(<<>>) = 0 /\ Cardinality({}) = 0
      BY FS_EmptySet DEF Range
    <3>2. Min({ContextChunks, 0}) = 0
      <4>1. {ContextChunks, 0} \in SUBSET Nat /\ {ContextChunks, 0} # {}
        BY BoundAssumption
      <4>2. Min({ContextChunks, 0}) \in {ContextChunks, 0} /\ Min({ContextChunks, 0}) <= 0
        BY <4>1, MinIn
      <4> QED
        BY <4>1, <4>2
    <3>3. found[c][1] = <<>> /\ found[c][2] = <<>> /\ sources[c] = <<>>
      BY <2>1
    <3> QED
      BY <3>1, <3>2, <3>3
  <2>2. ASSUME NEW semantic \in Rankings(Chunks, TopK), NEW lexical \in Rankings(Chunks, TopK),
               found[c] = <<semantic, lexical>>, sources[c] = Fuse(semantic, lexical, ContextChunks)
        PROVE  LET all == Range(found[c][1]) \cup Range(found[c][2])
                   cited == Range(sources[c])
                   Place(s, x) == IF Contains(s, x) THEN Rank(s, x) ELSE TopK + 1
               IN /\ Len(sources[c]) = Cardinality(cited) /\ cited \subseteq all
                  /\ Cardinality(cited) = Min({ContextChunks, Cardinality(all)})
                  /\ \A x \in all \ cited, y \in cited :
                       ~\A i \in {1, 2} : Place(found[c][i], x) < Place(found[c][i], y)
    <3>1. found[c][1] = semantic /\ found[c][2] = lexical
      BY <2>2
    <3> DEFINE list == Fuse(semantic, lexical, ContextChunks)
               all == Range(semantic) \cup Range(lexical)
    <3>2. TopK \in Nat /\ ContextChunks \in Nat
      BY BoundAssumption
    <3>3. /\ Len(list) = Cardinality(Range(list)) /\ Range(list) \subseteq all
          /\ Cardinality(Range(list)) = Min({ContextChunks, Cardinality(all)})
          /\ \A x \in all \ Range(list), y \in Range(list) :
               ~(PlaceIn(semantic, x, TopK) < PlaceIn(semantic, y, TopK)
                 /\ PlaceIn(lexical, x, TopK) < PlaceIn(lexical, y, TopK))
      BY <3>2, FuseFacts
    <3>4. sources[c] = list
      BY <2>2
    <3> HIDE DEF list
    <3> QED
      BY <3>1, <3>3, <3>4 DEF PlaceIn
  <2> QED
    BY <2>1, <2>2 DEF SourcesInv, PromptedBy
<1> QED
  BY <1>1, <1>2, <1>3, PTL DEF Spec
=============================================================================
