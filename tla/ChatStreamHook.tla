--------------------------- MODULE ChatStreamHook ---------------------------
(* The browser's side of one chat: useChatStream keeps a list of messages of its
   own, which a turn changes at once and the events of the turn's stream then
   fill in, beside the server's rows as react-query last fetched them. Turns,
   the stop button, refetches and the server's late writes interleave.
   A text is the sequence of its pieces, and a piece is the turn it came from. *)
EXTENDS Lists

CONSTANTS
  MaxTurns,      \* bound on the turns that are started
  MaxPieces,     \* bound on the pieces of an answer
  MaxRefetches,  \* bound on refetches no turn asked for
  None

ASSUME HookAssumption ==
  /\ MaxTurns \in Nat \ {0} /\ MaxPieces \in Nat /\ MaxRefetches \in Nat
  /\ \A kind \in {"row", "temp"}, role \in {"user", "assistant"}, t \in 1..MaxTurns :
       None # <<kind, role, t>>

VARIABLES
  rows,     \* the server's messages of the chat
  data,     \* what react-query holds of them
  shown,    \* the hook's own list
  status,   \* "idle", "submitting" or "streaming"
  turn,     \* the last turn, 0 before the first
  answer,   \* assistantId of the turn, None before its meta event
  pending,  \* text read and not yet committed to the list
  closing,  \* the turn is "stopped", "cut" off the network, or "none"
  wire,     \* events of the turn that are on their way to the browser
  server,   \* what the server does for each turn, and whether an earlier one was
            \* still at work when it began (history)
  fetch,    \* the refetch under way and the rows it has read
  final,    \* the text the last turn's done event brought, None without one
  extra     \* refetches no turn asked for, so far

vars == <<rows, data, shown, status, turn, answer, pending, closing, wire, server, fetch,
          final, extra>>

Turns == 1..MaxTurns

(* Row ids are given by the server, the others by tempId: user_ and assistant_. *)
Row(t, role) == <<"row", role, t>>
emptyMessage(t, role, text) == [id |-> <<"temp", role, t>>, role |-> role, text |-> text, error |-> FALSE]

Resting == [pc |-> "none", intent |-> None, target |-> None, text |-> <<>>,
            asks |-> None, alone |-> FALSE]

NoFetch == [pc |-> "none", rows |-> <<>>]
Asked == [pc |-> "asked", rows |-> <<>>]

Ids(list) == {list[i].id : i \in DOMAIN list}
At(list, id) == CHOOSE i \in DOMAIN list : list[i].id = id
UpTo(list, id) == SubSeq(list, 1, At(list, id))
WithText(list, id, text) ==
  [i \in DOMAIN list |-> IF list[i].id = id THEN [list[i] EXCEPT !.text = text, !.error = FALSE]
                         ELSE list[i]]
WithContent(list, id, text) ==
  [i \in DOMAIN list |-> IF list[i].id = id THEN [list[i] EXCEPT !.text = text] ELSE list[i]]
WithMore(list, id, text) ==
  [i \in DOMAIN list |-> IF list[i].id = id THEN [list[i] EXCEPT !.text = @ \o text] ELSE list[i]]
WithError(list, id) ==
  [i \in DOMAIN list |-> IF list[i].id = id THEN [list[i] EXCEPT !.error = TRUE] ELSE list[i]]

Init ==
  /\ rows = <<>> /\ data = <<>> /\ shown = <<>>
  /\ status = "idle" /\ turn = 0 /\ answer = None /\ pending = <<>> /\ closing = "none"
  /\ wire = <<>> /\ server = [t \in Turns |-> Resting]
  /\ fetch = NoFetch /\ final = None /\ extra = 0

----------------------------------------------------------------------------
(* runTurn refuses while a turn is under way: nothing queues. *)
runTurn(intent, target, optimistic) ==
  /\ status = "idle" /\ turn < MaxTurns
  /\ turn' = turn + 1
  /\ status' = "submitting" /\ answer' = None /\ pending' = <<>> /\ closing' = "none"
  /\ wire' = <<>> /\ final' = None
  /\ server' = [server EXCEPT ![turn + 1] =
       [Resting EXCEPT !.pc = "asked", !.intent = intent, !.target = target,
                       !.alone = \A t \in 1..turn : server[t].pc = "over"]]
  /\ shown' = optimistic
  /\ UNCHANGED <<rows, data, fetch, extra>>

send ==
  runTurn("send", None, shown \o <<emptyMessage(turn + 1, "user", <<turn + 1>>),
                                   emptyMessage(turn + 1, "assistant", <<>>)>>)

(* What follows the answer disappears from the screen, as it will on the server. *)
regenerate(id) ==
  runTurn("regenerate", id, WithText(UpTo(shown, id), id, <<>>))

editMessage(id) ==
  runTurn("edit", id, Append(WithText(UpTo(shown, id), id, <<turn + 1>>),
                             emptyMessage(turn + 1, "assistant", <<>>)))

(* The removal of a failed answer is a request of its own; then a refetch. *)
handleDelete(id) ==
  /\ extra < MaxRefetches /\ extra' = extra + 1
  /\ rows' = Kept(rows, {message \in Range(rows) : message.id # id})
  /\ fetch' = Asked
  /\ UNCHANGED <<data, shown, status, turn, answer, pending, closing, wire, server, final>>

(* The buttons of a message, disabled while a turn is under way: users' messages
   are edited, answers regenerated, failed ones removed. *)
ActionRow(message) ==
  /\ status = "idle"
  /\ \/ message.role = "user" /\ editMessage(message.id)
     \/ message.role = "assistant" /\ regenerate(message.id)
     \/ message.role = "assistant" /\ message.error /\ handleDelete(message.id)

(* Stop, or leaving the chat: the request is aborted and the stream notices later. *)
stop ==
  /\ status # "idle" /\ closing = "none"
  /\ closing' = "stopped"
  /\ UNCHANGED <<rows, data, shown, status, turn, answer, pending, wire, server, fetch, final, extra>>

(* The composer: Enter sends while nothing is under way, the button stops else. *)
Composer == IF status = "idle" THEN send ELSE stop

(* The connection breaks: what is on its way is lost, and reading throws. *)
Disconnect ==
  /\ status # "idle" /\ closing = "none"
  /\ closing' = "cut" /\ wire' = <<>>
  /\ UNCHANGED <<rows, data, shown, status, turn, answer, pending, server, fetch, final, extra>>

----------------------------------------------------------------------------
(* The server's route. An event reaches the turn that still listens. *)
Emit(t, events) == wire' = IF t = turn /\ closing = "none" THEN wire \o events ELSE wire

(* 401, 404, 429, a failing database: a JSON error body, and nothing is written. *)
Refuse(t) ==
  /\ server[t].pc = "asked"
  /\ server' = [server EXCEPT ![t].pc = "over"]
  /\ Emit(t, <<[type |-> "error"]>>)
  /\ UNCHANGED <<rows, data, shown, status, turn, answer, pending, closing, fetch, final, extra>>

(* The turn is written to the rows before the stream opens with its meta event. *)
Prepare(t) ==
  LET target == server[t].target
      intent == server[t].intent
      asked == IF intent = "send" THEN Row(t, "user") ELSE target
      reply == IF intent = "regenerate" THEN target ELSE Row(t, "assistant")
      blank == [id |-> Row(t, "assistant"), role |-> "assistant", text |-> <<>>, error |-> FALSE]
  IN /\ server[t].pc = "asked" /\ target \in Ids(rows) \cup {None}
     /\ rows' = CASE intent = "send" ->
                       rows \o <<[id |-> asked, role |-> "user", text |-> <<t>>, error |-> FALSE], blank>>
                  [] intent = "edit" -> Append(WithText(UpTo(rows, target), target, <<t>>), blank)
                  [] intent = "regenerate" -> WithText(UpTo(rows, target), target, <<>>)
     /\ server' = [server EXCEPT ![t].pc = "streaming", ![t].asks = reply]
     /\ Emit(t, <<[type |-> "meta", user |-> asked, assistant |-> reply]>>)
     /\ UNCHANGED <<data, shown, status, turn, answer, pending, closing, fetch, final, extra>>

(* streamCompletion yields a piece of the answer. *)
Piece(t) ==
  /\ server[t].pc = "streaming" /\ Len(server[t].text) < MaxPieces
  /\ server' = [server EXCEPT ![t].text = Append(@, t)]
  /\ Emit(t, <<[type |-> "delta", text |-> <<t>>]>>)
  /\ UNCHANGED <<rows, data, shown, status, turn, answer, pending, closing, fetch, final, extra>>

(* The answer's end, the provider's error, its timeout, or the abort: whatever
   was said is stored before the last event is sent. *)
Finalize(t, type) ==
  /\ server[t].pc = "streaming"
  /\ server' = [server EXCEPT ![t].pc = "over"]
  /\ LET said == WithText(rows, server[t].asks, server[t].text)
     IN rows' = IF type = "error" THEN WithError(said, server[t].asks) ELSE said
  /\ Emit(t, <<[type |-> type, text |-> server[t].text]>>)
  /\ UNCHANGED <<data, shown, status, turn, answer, pending, closing, fetch, final, extra>>

----------------------------------------------------------------------------
(* The loop over the events of streamChat; events that had already been parsed
   are still read after an abort. *)
Reading(type) == status # "idle" /\ wire # <<>> /\ Head(wire).type = type

Took == wire' = Tail(wire)

(* The temporary ids are exchanged for those of the rows. *)
Persisted(list, meta) ==
  [i \in DOMAIN list |->
     IF list[i].id[1] # "temp" THEN list[i]
     ELSE [list[i] EXCEPT !.id = IF list[i].role = "user" THEN meta.user ELSE meta.assistant]]

ReadMeta ==
  /\ Reading("meta") /\ Took
  /\ answer' = Head(wire).assistant /\ status' = "streaming"
  /\ shown' = Persisted(shown, Head(wire))
  /\ UNCHANGED <<rows, data, turn, pending, closing, server, fetch, final, extra>>

ReadDelta ==
  /\ Reading("delta") /\ Took
  /\ pending' = pending \o Head(wire).text
  /\ UNCHANGED <<rows, data, shown, status, turn, answer, closing, server, fetch, final, extra>>

(* The next animation frame commits what has been read. *)
flush ==
  /\ status # "idle" /\ pending # <<>> /\ answer # None
  /\ shown' = WithMore(shown, answer, pending) /\ pending' = <<>>
  /\ UNCHANGED <<rows, data, status, turn, answer, closing, wire, server, fetch, final, extra>>

ReadDone ==
  /\ Reading("done") /\ Took
  /\ shown' = WithContent(shown, answer, Head(wire).text) /\ pending' = <<>>
  /\ final' = Head(wire).text
  /\ UNCHANGED <<rows, data, status, turn, answer, closing, server, fetch, extra>>

ReadError ==
  /\ Reading("error") /\ Took
  /\ shown' = WithError(WithMore(shown, answer, pending), answer) /\ pending' = <<>>
  /\ UNCHANGED <<rows, data, status, turn, answer, closing, server, fetch, final, extra>>

(* Mutant: a refetch under way is joined, not cancelled. *)
Joined == fetch' = IF fetch.pc = "none" THEN Asked ELSE fetch

(* invalidateQueries: a refetch starts, and one under way is cancelled for it. *)
Invalidated == fetch' = Asked

(* Mutant: an abort leaves the loop by a return before the finally block. *)
SettleUnlessStopped ==
  /\ status # "idle" /\ closing # "stopped"
  /\ closing = "cut" \/ (wire = <<>> /\ server[turn].pc = "over")
  /\ status' = "idle" /\ pending' = <<>> /\ wire' = <<>> /\ closing' = "none"
  /\ Invalidated
  /\ UNCHANGED <<rows, data, shown, turn, answer, server, final, extra>>

(* The finally block. What no frame has committed is dropped: the rows will show it. *)
Settle ==
  /\ status # "idle"
  /\ closing # "none" \/ (wire = <<>> /\ server[turn].pc = "over")
  /\ status' = "idle" /\ pending' = <<>> /\ wire' = <<>> /\ closing' = "none"
  /\ Invalidated
  /\ UNCHANGED <<rows, data, shown, turn, answer, server, final, extra>>

----------------------------------------------------------------------------
(* A reconnect, a renamed chat or a removed answer refetches at any time. *)
Refetch ==
  /\ extra < MaxRefetches /\ extra' = extra + 1
  /\ Invalidated
  /\ UNCHANGED <<rows, data, shown, status, turn, answer, pending, closing, wire, server, final>>

FetchReads ==
  /\ fetch.pc = "asked" /\ fetch' = [pc |-> "read", rows |-> rows]
  /\ UNCHANGED <<rows, data, shown, status, turn, answer, pending, closing, wire, server, final, extra>>

(* Mutant: the list is replaced whatever is under way. *)
LandsAlways ==
  /\ fetch.pc = "read" /\ fetch' = NoFetch /\ data' = fetch.rows
  /\ shown' = IF fetch.rows = data THEN shown ELSE fetch.rows
  /\ UNCHANGED <<rows, status, turn, answer, pending, closing, wire, server, final, extra>>

(* Rows equal to those held keep their identity, so that the effect that copies
   them into the list does not run; nor does it while a turn is under way. *)
Lands ==
  /\ fetch.pc = "read" /\ fetch' = NoFetch /\ data' = fetch.rows
  /\ shown' = IF fetch.rows = data \/ status # "idle" THEN shown ELSE fetch.rows
  /\ UNCHANGED <<rows, status, turn, answer, pending, closing, wire, server, final, extra>>

FetchFails ==
  /\ fetch.pc # "none" /\ fetch' = NoFetch
  /\ UNCHANGED <<rows, data, shown, status, turn, answer, pending, closing, wire, server, final, extra>>

----------------------------------------------------------------------------
User == Composer \/ \E i \in DOMAIN shown : ActionRow(shown[i])
Browser == ReadMeta \/ ReadDelta \/ flush \/ ReadDone \/ ReadError \/ Settle
Ends(t) == \E type \in {"done", "error"} : Finalize(t, type)

Next ==
  \/ User \/ Browser \/ Disconnect
  \/ \E t \in Turns : Refuse(t) \/ Prepare(t) \/ Piece(t) \/ Ends(t)
  \/ Refetch \/ FetchReads \/ Lands \/ FetchFails

(* The browser's loop runs; the provider's request has a timeout, so that a turn
   the server has begun ends. Nothing makes the user act. *)
Spec == Init /\ [][Next]_vars /\ WF_vars(Browser)
        /\ \A t \in Turns : WF_vars(Refuse(t) \/ Prepare(t)) /\ WF_vars(Ends(t))

----------------------------------------------------------------------------
Received == LET begun == UpTo(shown, answer) IN begun[Len(begun)].text \o pending

(* No refetch wipes an answer that is arriving: what the list shows of it, what
   waits for the next frame and what is on its way are what the server has said
   (use-chat-stream.ts:82-84). *)
NothingWiped ==
  status = "streaming" /\ closing = "none" /\ final = None =>
    /\ answer \in Ids(shown)
    /\ LET coming == [i \in DOMAIN wire |-> wire[i].text[1]]
       IN server[turn].pc = "streaming" => Received \o coming = server[turn].text

(* A finished answer stays on the screen as it was finished: no refetch that had
   begun before brings back an older list. (Only the request of an earlier turn
   that was stopped and is still at work on the server can change it.) *)
AnswerStays ==
  status = "idle" /\ final # None /\ server[turn].alone =>
    \E i \in DOMAIN shown : shown[i].id = answer /\ shown[i].text = final

(* Every turn ends, stopped or not, and the composer can send again. *)
TurnsEnd == status # "idle" ~> status = "idle"
=============================================================================
