------------------------------ MODULE ChatTurns ------------------------------
(***************************************************************************)
(* The turns of one web chat: POST /api/chat (route.ts) on top of          *)
(* chat-service.ts.  A request reads the chat and its messages, then       *)
(* rewrites the history in one transaction that uses what it read, then    *)
(* streams an answer into memory, and at the end writes the answer into    *)
(* the assistant row it was given.  Nothing ties the four together: other  *)
(* requests, deletions and crashes come in between.                        *)
(*                                                                         *)
(* The web database is SQLite, so each statement outside a transaction and *)
(* each db.$transaction is one atomic action.                              *)
(***************************************************************************)
EXTENDS Integers, FiniteSets

CONSTANTS
  Requests,   \* the POSTs to /api/chat; also the text each of them brings
  Empty,      \* the empty string
  Window,     \* LIMITS.contextWindowMessages
  Usages      \* how much the chat's tabs may overlap, see MayRead

ASSUME ChatAssumption ==
  /\ Empty \notin Requests
  /\ Window \in Nat \ {0}
  /\ Usages \subseteq {"turns", "preparations", "free"}

VARIABLES
  usage,      \* an element of Usages, chosen once
  chatExists, \* the Chat row
  messages,   \* the Message rows of the chat: a function from ids to rows
  versions,   \* the MessageVersion rows, as pairs <<message id, text>>
  phase,      \* how far each request is
  snapshot,   \* chat.messages, as the request read them
  turn,       \* its PreparedTurn
  answer,     \* what it has accumulated of the answer
  shown       \* history variable: the pairs <<message id, text>> committed so far

turnsVars == <<usage, chatExists, messages, versions, phase, snapshot, turn, answer, shown>>

Ids == [turn : Requests, role : {"user", "assistant"}]
Question(r) == [turn |-> r, role |-> "user"]
Answer(r) == [turn |-> r, role |-> "assistant"]

\* A user row holds the text of the request that wrote it, an assistant row the
\* answer to the request that filled it.
Texts == Requests \cup {Empty}
Row == [position : Nat, text : Texts, truncated : BOOLEAN]
Written(p, t) == [position |-> p, text |-> t, truncated |-> FALSE]
NoRows == [i \in {} |-> Written(0, Empty)]

\* The rows of a chat at some moment.
IsTable(rows) == DOMAIN rows \subseteq Ids /\ rows \in [DOMAIN rows -> Row]

NoTurn == [question |-> "none"]
Turn == [question : Ids, answer : Ids, prompt : SUBSET Ids]
-----------------------------------------------------------------------------
Positions(rows) == {rows[i].position : i \in DOMAIN rows}

\* Mutant: count the rows instead of looking at the last one.
NextPosition_Count(rows) == Cardinality(DOMAIN rows)

\* One more than the position of the last message, 0 in an empty chat.
NextPosition(rows) ==
  IF DOMAIN rows = {} THEN 0
  ELSE 1 + CHOOSE p \in Positions(rows) : \A q \in Positions(rows) : q <= p

\* The rows that deleteMany({position: {gt: p}}) keeps.
UpTo(rows, p) == {i \in DOMAIN rows : rows[i].position <= p}

\* The user message a regenerated answer belongs to: the last one before it.
PrecedingUsers(rows, i) ==
  {u \in DOMAIN rows : u.role = "user" /\ rows[u].position < rows[i].position}
IsPrecedingUser(rows, i, u) ==
  /\ u \in PrecedingUsers(rows, i)
  /\ \A v \in PrecedingUsers(rows, i) : rows[v].position <= rows[u].position

\* Mutant: the oldest messages instead of the newest.
IsPrompt_Oldest(rows, end, P) ==
  LET H == {i \in UpTo(rows, end) : rows[i].text # Empty} IN
  /\ P \subseteq H
  /\ Cardinality(P) = IF Cardinality(H) < Window THEN Cardinality(H) ELSE Window
  /\ \A i \in P, j \in H \ P : rows[j].position >= rows[i].position

\* buildProviderMessages: of the non-empty messages up to position end, the last
\* Window ones.
IsPrompt(rows, end, P) ==
  LET H == {i \in UpTo(rows, end) : rows[i].text # Empty} IN
  /\ P \subseteq H
  /\ Cardinality(P) = IF Cardinality(H) < Window THEN Cardinality(H) ELSE Window
  /\ \A i \in P, j \in H \ P : rows[j].position <= rows[i].position

Preparing == {r \in Requests : phase[r] = "read"}
Active == {r \in Requests : phase[r] \in {"read", "prepared", "streaming"}}

\* "turns": the next turn, or a deletion, starts when the server is done with
\* the last one.  "preparations": prepareTurn runs alone, streams overlap with
\* everything; what one browser tab does, since a stopped stream is finalized
\* after the tab is idle again.  "free": several tabs.
Alone ==
  /\ usage = "turns" => Active = {}
  /\ usage = "preparations" => Preparing = {}
-----------------------------------------------------------------------------
TurnsInit ==
  /\ usage \in Usages
  /\ chatExists = TRUE
  /\ messages = NoRows
  /\ versions = {}
  /\ phase = [r \in Requests |-> "new"]
  /\ snapshot = [r \in Requests |-> NoRows]
  /\ turn = [r \in Requests |-> NoTurn]
  /\ answer = [r \in Requests |-> Empty]
  /\ shown = {}

\* prepareTurn reads the chat with its messages, outside the transaction.
Read(r) ==
  /\ phase[r] = "new"
  /\ chatExists
  /\ Alone
  /\ phase' = [phase EXCEPT ![r] = "read"]
  /\ snapshot' = [snapshot EXCEPT ![r] = messages]
  /\ UNCHANGED <<usage, chatExists, messages, versions, turn, answer, shown>>

\* The transaction of r commits: the rows of the chat are now rows, the turn has
\* question q and answer row a, and the prompt is taken up to position end.
Commit(r, rows, q, a, end) ==
  /\ chatExists
  /\ messages' = rows
  /\ \E P \in SUBSET DOMAIN rows :
       /\ IsPrompt(rows, end, P)
       /\ turn' = [turn EXCEPT ![r] = [question |-> q, answer |-> a, prompt |-> P]]
  /\ phase' = [phase EXCEPT ![r] = "prepared"]
  /\ snapshot' = [snapshot EXCEPT ![r] = NoRows]
  /\ UNCHANGED <<usage, chatExists, answer>>

\* intent "send": a user message and an empty answer after the last message r
\* has read.
Send(r) ==
  LET p == NextPosition(snapshot[r])
      q == Question(r)
      a == Answer(r)
  IN
  /\ phase[r] = "read"
  /\ Commit(r,
            [i \in DOMAIN messages \cup {q, a} |->
               IF i = q THEN Written(p, r)
               ELSE IF i = a THEN Written(p + 1, Empty) ELSE messages[i]],
            q, a, p)
  /\ shown' = shown \cup {<<q, r>>}
  /\ UNCHANGED versions

\* Mutant: versions outlive their message.
Of_All(pairs, ids) == pairs

\* Versions go with their message (onDelete: Cascade).
Of(pairs, ids) == {v \in pairs : v[1] \in ids}

\* Mutant: nothing is archived when an answer is regenerated.
Archive_UserOnly(r, i) ==
  IF i.role = "assistant" THEN {} ELSE {<<i, snapshot[r][i].text>>}

\* The text that r replaces goes to the versions, as r has read it; a blank one
\* does not.
Archive(r, i) ==
  IF snapshot[r][i].text = Empty THEN {} ELSE {<<i, snapshot[r][i].text>>}

\* intent "edit" of user message i: archive its text, replace it, drop all that
\* follows, and add an empty answer.  Fails, and writes nothing, if i is gone.
Edit(r, i) ==
  LET p == snapshot[r][i].position
      kept == UpTo(messages, p)
      a == Answer(r)
  IN
  /\ phase[r] = "read"
  /\ i.role = "user" /\ i \in DOMAIN messages
  /\ Commit(r,
            [j \in kept \cup {a} |->
               IF j = i THEN Written(p, r)
               ELSE IF j = a THEN Written(p + 1, Empty) ELSE messages[j]],
            i, a, p)
  /\ versions' = Of(versions \cup Archive(r, i), kept)
  /\ shown' = Of(shown \cup {<<i, r>>}, kept)

\* intent "regenerate" of answer i: archive it, drop all that follows, and empty
\* it.  Fails, and writes nothing, if i or its user message u is gone.
Regenerate(r, i, u) ==
  LET p == snapshot[r][i].position
      kept == UpTo(messages, p)
  IN
  /\ phase[r] = "read"
  /\ i.role = "assistant" /\ i \in DOMAIN messages
  /\ IsPrecedingUser(snapshot[r], i, u) /\ u \in DOMAIN messages
  /\ Commit(r,
            [j \in kept |-> IF j = i THEN Written(p, Empty) ELSE messages[j]],
            u, i, p - 1)
  /\ versions' = Of(versions \cup Archive(r, i), kept)
  /\ shown' = Of(shown, kept)

\* r is over.
Over(r) ==
  /\ phase' = [phase EXCEPT ![r] = "over"]
  /\ snapshot' = [snapshot EXCEPT ![r] = NoRows]
  /\ turn' = [turn EXCEPT ![r] = NoTurn]
  /\ answer' = [answer EXCEPT ![r] = Empty]
  /\ UNCHANGED <<usage, chatExists>>

\* The request ends with a JSON error before its transaction, or with the
\* transaction rolled back: a missing target, the wrong role, nothing to
\* regenerate from, a row or the chat deleted since it was read.
Refuse(r) ==
  /\ phase[r] = "read"
  /\ Over(r)
  /\ UNCHANGED <<messages, versions, shown>>

\* backendCredential after the commit.  When it throws, the browser gets a JSON
\* error and the empty answer row stays.
Credential(r) ==
  /\ phase[r] = "prepared"
  /\ phase' = [phase EXCEPT ![r] = "streaming"]
  /\ UNCHANGED <<usage, chatExists, messages, versions, snapshot, turn, answer, shown>>

CredentialFails(r) ==
  /\ phase[r] = "prepared"
  /\ Over(r)
  /\ UNCHANGED <<messages, versions, shown>>

\* The provider sends a piece of the answer.
Delta(r) ==
  /\ phase[r] = "streaming"
  /\ answer[r] = Empty
  /\ answer' = [answer EXCEPT ![r] = r]
  /\ UNCHANGED <<usage, chatExists, messages, versions, phase, snapshot, turn, shown>>

\* Mutant: the write of a finished stream brings its row back.
Finalized_Upsert(r, truncated) ==
  LET a == turn[r].answer IN
  [i \in DOMAIN messages \cup {a} |->
     IF i = a THEN [position |-> 0, text |-> answer[r], truncated |-> truncated]
     ELSE messages[i]]

\* finalizeAssistantMessage: the answer, whatever there is of it, goes into the
\* row of the turn.  If the row is gone, db.message.update throws, the route
\* logs it and the answer is dropped.
Finalized(r, truncated) ==
  LET a == turn[r].answer IN
  [i \in DOMAIN messages |->
     IF i = a THEN [messages[i] EXCEPT !.text = answer[r], !.truncated = truncated]
     ELSE messages[i]]

\* The stream ends: complete, stopped by the user, or failed upstream.
Finish(r) ==
  /\ phase[r] = "streaming"
  /\ \E truncated \in BOOLEAN : messages' = Finalized(r, truncated)
  /\ shown' = IF turn[r].answer \in DOMAIN messages /\ answer[r] # Empty
                THEN shown \cup {<<turn[r].answer, answer[r]>>} ELSE shown
  /\ Over(r)
  /\ UNCHANGED versions

\* The web process dies, or the database refuses the finalizing write.
Crash(r) ==
  /\ r \in Active
  /\ Over(r)
  /\ UNCHANGED <<messages, versions, shown>>

\* deleteMessage removes one message with its versions, and nothing else.
DeleteMessage(i) ==
  LET kept == DOMAIN messages \ {i} IN
  /\ Alone
  /\ i \in DOMAIN messages
  /\ messages' = [j \in kept |-> messages[j]]
  /\ versions' = Of(versions, kept)
  /\ shown' = Of(shown, kept)
  /\ UNCHANGED <<usage, chatExists, phase, snapshot, turn, answer>>

\* deleteChat removes the chat with all its messages.
DeleteChat ==
  /\ Alone
  /\ chatExists
  /\ chatExists' = FALSE
  /\ messages' = NoRows
  /\ versions' = {}
  /\ shown' = {}
  /\ UNCHANGED <<usage, phase, snapshot, turn, answer>>

RequestStep(r) ==
  \/ Read(r)
  \/ Send(r)
  \/ \E i \in DOMAIN snapshot[r] : Edit(r, i)
  \/ \E i, u \in DOMAIN snapshot[r] : Regenerate(r, i, u)
  \/ Refuse(r)
  \/ Credential(r)
  \/ CredentialFails(r)
  \/ Delta(r)
  \/ Finish(r)
  \/ Crash(r)

TurnsNext ==
  \/ \E r \in Requests : RequestStep(r)
  \/ \E i \in Ids : DeleteMessage(i)
  \/ DeleteChat

TurnsSpec == TurnsInit /\ [][TurnsNext]_turnsVars
-----------------------------------------------------------------------------
\* Rows, versions and turns have their types, and a request holds a snapshot or
\* a turn only in the phases that need one.
TypeOK ==
  /\ usage \in Usages
  /\ chatExists \in BOOLEAN
  /\ IsTable(messages)
  /\ versions \subseteq (DOMAIN messages) \X Requests
  /\ shown \subseteq (DOMAIN messages) \X Requests
  /\ phase \in [Requests -> {"new", "read", "prepared", "streaming", "over"}]
  /\ snapshot = [r \in Requests |-> snapshot[r]]
  /\ turn \in [Requests -> Turn \cup {NoTurn}]
  /\ answer \in [Requests -> Texts]
  /\ \A r \in Requests :
       /\ IsTable(snapshot[r])
       /\ phase[r] # "read" => snapshot[r] = NoRows
       /\ phase[r] \in {"prepared", "streaming"} <=> turn[r] \in Turn

UniquePositions ==
  \A i, j \in DOMAIN messages : messages[i].position = messages[j].position => i = j

\* As long as no two turns are prepared at once, no two messages of the chat
\* have the same position, whatever is edited, regenerated or deleted: the order
\* every later read relies on is total.
PositionsUnique == usage # "free" => UniquePositions

Shown(roles) ==
  \A v \in shown :
    v[1].role \in roles => messages[v[1]].text = v[2] \/ v \in versions

\* Edit keeps "the pre-edit text" and regenerate "archiv[es] the answer being
\* replaced": as long as a message is there, every text it once showed is its
\* text or one of its versions.  For questions this needs preparations that run
\* alone; for answers, whole turns that run alone.
NothingUnarchived ==
  /\ usage # "free" => Shown({"user"})
  /\ usage = "turns" => Shown({"assistant"})

\* finalizeAssistantMessage: "so a partial answer is never silently lost";
\* MessageVersion: "so the UI can page through regenerated answers instead of
\* losing them".
NoAnswerLost == Shown({"assistant"})

\* What was rewound or deleted stays so: no late stream, however it overlaps
\* with the others, brings a message back, and nothing appears in a deleted chat.
Came(i) == phase[i.turn] \notin {"new", "read"}
NothingComesBack ==
  [][\A i \in Ids : Came(i) /\ i \notin DOMAIN messages => i \notin DOMAIN messages']_turnsVars

IsLast(i, rows) ==
  i \in DOMAIN rows /\ \A j \in DOMAIN rows \ {i} : rows[j].position < rows[i].position

Prepares(r) == phase[r] = "read" /\ phase'[r] = "prepared"

\* prepareTurn: the answer row of a new turn is empty and the last of the chat.
\* The question of a "send" or an "edit" is the message before it and the last
\* one of the prompt.
EndsWithTurn(r, rows, t) ==
  /\ IsLast(t.answer, rows) /\ rows[t.answer].text = Empty
  /\ t.answer = Answer(r) =>
       /\ IsLast(t.question, [i \in DOMAIN rows \ {t.answer} |-> rows[i]])
       /\ IsLast(t.question, [i \in t.prompt |-> rows[i]])

TurnsEndTheChat ==
  [][usage # "free" =>
       \A r \in Requests : Prepares(r) => EndsWithTurn(r, messages', turn'[r])]_turnsVars

=============================================================================
