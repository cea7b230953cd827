------------------------ MODULE ChatStreamHookProofs ------------------------
(***************************************************************************)
(* Proofs about ChatStreamHook for any number of turns, pieces of an       *)
(* answer and refetches.                                                   *)
(***************************************************************************)
EXTENDS ChatStreamHook, ListLemmas

Roles == {"user", "assistant"}
MessageIds == {"row", "temp"} \X Roles \X Turns
Texts == Seq(Turns)
Message == [id : MessageIds, role : Roles, text : Texts, error : BOOLEAN]
Lists == Seq(Message)

Metas == [type : {"meta"}, user : MessageIds, assistant : MessageIds]
Said == [type : {"delta", "done", "error"}, text : Texts]
Refusals == [type : {"error"}]
Events == Metas \cup Said \cup Refusals

ServerRecords ==
  [pc : {"none", "asked", "streaming", "over"}, intent : {None, "send", "edit", "regenerate"},
   target : MessageIds \cup {None}, text : Texts, asks : MessageIds \cup {None}, alone : BOOLEAN]

HookTypes ==
  /\ rows \in Lists /\ data \in Lists /\ shown \in Lists
  /\ status \in {"idle", "submitting", "streaming"} /\ turn \in 0..MaxTurns
  /\ pending \in Texts /\ closing \in {"none", "stopped", "cut"}
  /\ wire \in Seq(Events) /\ server \in [Turns -> ServerRecords]
  /\ fetch \in [pc : {"none", "asked", "read"}, rows : Lists]
  /\ extra \in Nat

Temporary(message) == message.id[1] = "temp"

(* An id the server gave, to one of the first n turns. *)
Given(id, n) == id[1] = "row" /\ id[3] <= n
FromServer(list, n) == \A i \in DOMAIN list : Given(list[i].id, n)

(* The rows are those of turns that the server has begun to answer. *)
Begun(list, srv) == \A i \in DOMAIN list : srv[list[i].id[3]].pc \in {"streaming", "over"}

(* The list on the screen: what is temporary comes last, and is a question or an answer
   without text and without an error. *)
OnScreen(list, n) ==
  \A i \in DOMAIN list :
    IF Temporary(list[i])
    THEN /\ list[i].id[2] = list[i].role
         /\ list[i].role = "assistant" => list[i].text = <<>> /\ ~list[i].error
         /\ \A j \in DOMAIN list : i <= j => Temporary(list[j])
    ELSE Given(list[i].id, n)
Newest(st, n) == IF st = "submitting" THEN n - 1 ELSE n

Empties(list, id) ==
  /\ id \in Ids(list)
  /\ \A i \in DOMAIN list : ~Temporary(list[i])
  /\ \A i \in DOMAIN list : list[i].id = id => list[i].text = <<>> /\ ~list[i].error
Awaits(list) == \E i \in DOMAIN list : Temporary(list[i]) /\ list[i].role = "assistant"

(* The server's work on each turn; s is always that on the last turn, the n-th. *)
ServerRight(srv, n) ==
  /\ \A t \in Turns :
       /\ t > n <=> srv[t].pc = "none"
       /\ srv[t].text \in Seq({t})
       /\ srv[t].pc = "asked" =>
            /\ srv[t].text = <<>>
            /\ srv[t].intent \in {"send", "edit", "regenerate"}
            /\ IF srv[t].intent = "send" THEN srv[t].target = None ELSE srv[t].target \in MessageIds
       /\ srv[t].pc = "streaming" => srv[t].asks \in MessageIds
  /\ n > 0 /\ srv[n].alone => \A t \in 1..(n - 1) : srv[t].pc = "over"

(* While a turn is under way, what it put on the screen fits what it asked of the server
   and what the meta event will make of it: one answer, empty so far. *)
AskedRight(s, w, list, st) ==
  s.pc = "asked" =>
    /\ w = <<>> /\ st = "submitting"
    /\ IF s.intent = "regenerate" THEN s.target[1] = "row" => Empties(list, s.target)
       ELSE Awaits(list)

MetaRight(meta, s, list, st, n) ==
  /\ st = "submitting" /\ meta.assistant = s.asks
  /\ Given(meta.user, n) /\ Given(meta.assistant, n)
  /\ \/ meta.assistant = Row(n, "assistant") /\ meta.user # meta.assistant /\ Awaits(list)
     \/ Empties(list, meta.assistant)

(* The wire carries the meta event, pieces, and an end. *)
WireRight(s, w, list, st, n) ==
  \A i \in DOMAIN w :
    /\ w[i].type = "meta" => i = 1 /\ MetaRight(w[i], s, list, st, n)
    /\ w[i].type = "delta" => w[i].text = <<n>>
    /\ w[i].type \in {"done", "error"} => i = Len(w) /\ s.pc = "over"
    /\ w[i].type = "done" => w[i].text = s.text

(* All that the server has said is on the wire, waits for a frame, or is on the screen; and
   an answer that is arriving, or whose end is on the wire, does not show an error: the
   done event would not take it away. *)
SubmittingRight(s, w, st, pe, cl, fi) ==
  st = "submitting" =>
    /\ pe = <<>> /\ fi = None
    /\ w # <<>> => w[1].type \in {"meta", "error"}
    /\ s.pc = "streaming" /\ cl = "none" => Len(w) = 1 + Len(s.text)
Unfailed(list, id) == \A i \in DOMAIN list : list[i].id = id => ~list[i].error
StreamingRight(s, w, list, st, n, an, pe, cl, fi) ==
  st = "streaming" =>
    /\ an = s.asks /\ an \in Ids(list) /\ s.pc # "asked"
    /\ \A i \in DOMAIN list : ~Temporary(list[i])
    /\ fi # None => w = <<>> /\ pe = <<>>
    /\ s.pc = "streaming" \/ (\E i \in DOMAIN w : w[i].type = "done") => Unfailed(list, an)
    /\ s.pc = "streaming" /\ cl = "none" =>
         /\ pe \in Seq({n})
         /\ \A i \in DOMAIN list : list[i].id = an =>
              list[i].text \in Seq({n}) /\ Len(list[i].text) + Len(pe) + Len(w) = Len(s.text)

TurnRight(s, w, list, st, n, an, pe, cl, fi) ==
  /\ n > 0 /\ (st = "submitting" => an = None)
  /\ AskedRight(s, w, list, st) /\ WireRight(s, w, list, st, n)
  /\ SubmittingRight(s, w, st, pe, cl, fi) /\ StreamingRight(s, w, list, st, n, an, pe, cl, fi)

(* The answer of the last turn as its end wrote it: in the rows, on the screen, and in what
   a refetch brings after that. *)
Whole(list, s) ==
  /\ s.asks \in Ids(list)
  /\ \A i \in DOMAIN list : list[i].id = s.asks => list[i].text = s.text /\ ~list[i].error
Finished(s, st, n, an, fi) ==
  fi # None => n > 0 /\ st # "submitting" /\ s.pc = "over" /\ an = s.asks /\ fi = s.text
AnswerRight(s, rs, list, f, w, st, n, fi) ==
  n > 0 /\ s.alone =>
    /\ s.pc = "streaming" /\ st # "idle" => s.asks \in Ids(rs)
    /\ st # "idle" /\ (\E i \in DOMAIN w : w[i].type = "done") => Whole(rs, s)
    /\ fi # None => Whole(rs, s) /\ Whole(list, s)
    /\ fi # None /\ st = "idle" /\ f.pc = "read" => Whole(f.rows, s)

HookInv ==
  /\ HookTypes
  /\ FromServer(rows, turn) /\ FromServer(data, turn) /\ FromServer(fetch.rows, turn)
  /\ Begun(rows, server)
  /\ OnScreen(shown, Newest(status, turn))
  /\ ServerRight(server, turn)
  /\ status # "idle" =>
       TurnRight(server[turn], wire, shown, status, turn, answer, pending, closing, final)
  /\ Finished(server[turn], status, turn, answer, final)
  /\ AnswerRight(server[turn], rows, shown, fetch, wire, status, turn, final)

----------------------------------------------------------------------------
(* What the operators on lists of messages do, message by message. *)
LEMMA MessageFields ==
  ASSUME NEW list \in Lists, NEW i \in DOMAIN list
  PROVE  /\ list[i] \in Message /\ list[i].id \in MessageIds /\ list[i].role \in Roles
         /\ list[i].text \in Texts /\ list[i].error \in BOOLEAN
<1>1. i \in 1..Len(list) /\ list[i] \in Message
  BY DEF Lists
<1> QED
  BY <1>1 DEF Message

LEMMA ListDomain ==
  ASSUME NEW list \in Lists
  PROVE  Len(list) \in Nat /\ DOMAIN list = 1..Len(list)
BY DEF Lists

(* Messages changed one by one make a list of the same length. *)
LEMMA MappedList ==
  ASSUME NEW list \in Lists, NEW f, f = [i \in DOMAIN list |-> f[i]],
         \A i \in DOMAIN list : f[i] \in Message
  PROVE  f \in Lists /\ Len(f) = Len(list) /\ DOMAIN f = DOMAIN list
<1>1. f \in [1..Len(list) -> Message] /\ Len(list) \in Nat
  BY ListDomain
<1>2. f \in Lists
  BY <1>1, ListOf DEF Lists
<1> QED
  BY <1>1, <1>2, ListDomain

(* What the operators on lists of messages do to each message. *)
LEMMA WithTextFacts ==
  ASSUME NEW list \in Lists, NEW id, NEW text \in Texts
  PROVE  LET new == WithText(list, id, text)
         IN /\ new \in Lists /\ Len(new) = Len(list) /\ DOMAIN new = DOMAIN list
            /\ \A i \in DOMAIN list :
                 /\ new[i].id = list[i].id /\ new[i].role = list[i].role
                 /\ new[i].text = IF list[i].id = id THEN text ELSE list[i].text
                 /\ list[i].id = id => ~new[i].error
                 /\ list[i].id # id => new[i].error = list[i].error
<1> DEFINE new == WithText(list, id, text)
<1>1. ASSUME NEW i \in DOMAIN list
      PROVE  /\ new[i] \in Message
             /\ new[i].id = list[i].id /\ new[i].role = list[i].role
             /\ new[i].text = IF list[i].id = id THEN text ELSE list[i].text
             /\ list[i].id = id => ~new[i].error
             /\ list[i].id # id => new[i].error = list[i].error
  <2>1. PICK m \in Message : list[i] = m
    BY MessageFields
  <2>2. new[i] = IF m.id = id THEN [m EXCEPT !.text = text, !.error = FALSE] ELSE m
    BY <2>1 DEF WithText
  <2> QED
    BY <2>1, <2>2 DEF Message
<1>2. new = [i \in DOMAIN list |-> new[i]]
  BY DEF WithText
<1> HIDE DEF new
<1>3. new \in Lists /\ Len(new) = Len(list) /\ DOMAIN new = DOMAIN list
  BY <1>1, <1>2, MappedList
<1> QED
  BY <1>1, <1>3 DEF new

LEMMA WithContentFacts ==
  ASSUME NEW list \in Lists, NEW id, NEW text \in Texts
  PROVE  LET new == WithContent(list, id, text)
         IN /\ new \in Lists /\ Len(new) = Len(list) /\ DOMAIN new = DOMAIN list
            /\ \A i \in DOMAIN list :
                 /\ new[i].id = list[i].id /\ new[i].role = list[i].role
                 /\ new[i].text = IF list[i].id = id THEN text ELSE list[i].text
                 /\ new[i].error = list[i].error
<1> DEFINE new == WithContent(list, id, text)
<1>1. ASSUME NEW i \in DOMAIN list
      PROVE  /\ new[i] \in Message
             /\ new[i].id = list[i].id /\ new[i].role = list[i].role
             /\ new[i].text = IF list[i].id = id THEN text ELSE list[i].text
             /\ new[i].error = list[i].error
  <2>1. PICK m \in Message : list[i] = m
    BY MessageFields
  <2>2. new[i] = IF m.id = id THEN [m EXCEPT !.text = text] ELSE m
    BY <2>1 DEF WithContent
  <2> QED
    BY <2>1, <2>2 DEF Message
<1>2. new = [i \in DOMAIN list |-> new[i]]
  BY DEF WithContent
<1> HIDE DEF new
<1>3. new \in Lists /\ Len(new) = Len(list) /\ DOMAIN new = DOMAIN list
  BY <1>1, <1>2, MappedList
<1> QED
  BY <1>1, <1>3 DEF new

LEMMA WithMoreFacts ==
  ASSUME NEW list \in Lists, NEW id, NEW text \in Texts
  PROVE  LET new == WithMore(list, id, text)
         IN /\ new \in Lists /\ Len(new) = Len(list) /\ DOMAIN new = DOMAIN list
            /\ \A i \in DOMAIN list :
                 /\ new[i].id = list[i].id /\ new[i].role = list[i].role
                 /\ new[i].text = IF list[i].id = id THEN list[i].text \o text ELSE list[i].text
                 /\ new[i].error = list[i].error
<1> DEFINE new == WithMore(list, id, text)
<1>1. ASSUME NEW i \in DOMAIN list
      PROVE  /\ new[i] \in Message
             /\ new[i].id = list[i].id /\ new[i].role = list[i].role
             /\ new[i].text = IF list[i].id = id THEN list[i].text \o text ELSE list[i].text
             /\ new[i].error = list[i].error
  <2>1. PICK m \in Message : list[i] = m
    BY MessageFields
  <2> DEFINE more == m.text \o text
  <2>2. new[i] = IF m.id = id THEN [m EXCEPT !.text = more] ELSE m
    BY <2>1 DEF WithMore, Message
  <2>3. m.text \in Texts
    BY DEF Message
  <2>4. more \in Texts
    BY <2>3, ConcatProperties DEF Texts
  <2> HIDE DEF more
  <2>5. /\ new[i] \in Message /\ new[i].id = m.id /\ new[i].role = m.role /\ new[i].error = m.error
        /\ new[i].text = IF m.id = id THEN more ELSE m.text
    BY <2>2, <2>4 DEF Message
  <2> QED
    BY <2>1, <2>5 DEF more
<1>2. new = [i \in DOMAIN list |-> new[i]]
  BY DEF WithMore
<1> HIDE DEF new
<1>3. new \in Lists /\ Len(new) = Len(list) /\ DOMAIN new = DOMAIN list
  BY <1>1, <1>2, MappedList
<1> QED
  BY <1>1, <1>3 DEF new

LEMMA WithErrorFacts ==
  ASSUME NEW list \in Lists, NEW id
  PROVE  LET new == WithError(list, id)
         IN /\ new \in Lists /\ Len(new) = Len(list) /\ DOMAIN new = DOMAIN list
            /\ \A i \in DOMAIN list :
                 /\ new[i].id = list[i].id /\ new[i].role = list[i].role
                 /\ new[i].text = list[i].text
                 /\ list[i].id # id => new[i].error = list[i].error
<1> DEFINE new == WithError(list, id)
<1>1. ASSUME NEW i \in DOMAIN list
      PROVE  /\ new[i] \in Message
             /\ new[i].id = list[i].id /\ new[i].role = list[i].role /\ new[i].text = list[i].text
             /\ list[i].id # id => new[i].error = list[i].error
  <2>1. PICK m \in Message : list[i] = m
    BY MessageFields
  <2>2. new[i] = IF m.id = id THEN [m EXCEPT !.error = TRUE] ELSE m
    BY <2>1 DEF WithError
  <2> QED
    BY <2>1, <2>2 DEF Message
<1>2. new = [i \in DOMAIN list |-> new[i]]
  BY DEF WithError
<1> HIDE DEF new
<1>3. new \in Lists /\ Len(new) = Len(list) /\ DOMAIN new = DOMAIN list
  BY <1>1, <1>2, MappedList
<1> QED
  BY <1>1, <1>3 DEF new

LEMMA PersistedFacts ==
  ASSUME NEW list \in Lists, NEW meta \in Metas
  PROVE  LET new == Persisted(list, meta)
         IN /\ new \in Lists /\ Len(new) = Len(list) /\ DOMAIN new = DOMAIN list
            /\ \A i \in DOMAIN list :
                 /\ new[i].id = IF ~Temporary(list[i]) THEN list[i].id
                                ELSE IF list[i].role = "user" THEN meta.user ELSE meta.assistant
                 /\ new[i].role = list[i].role /\ new[i].text = list[i].text
                 /\ new[i].error = list[i].error
<1> DEFINE new == Persisted(list, meta)
<1>0. meta.user \in MessageIds /\ meta.assistant \in MessageIds
  BY DEF Metas
<1>1. ASSUME NEW i \in DOMAIN list
      PROVE  /\ new[i] \in Message
             /\ new[i].id = IF ~Temporary(list[i]) THEN list[i].id
                            ELSE IF list[i].role = "user" THEN meta.user ELSE meta.assistant
             /\ new[i].role = list[i].role /\ new[i].text = list[i].text /\ new[i].error = list[i].error
  <2>1. PICK m \in Message : list[i] = m
    BY MessageFields
  <2> DEFINE id == IF m.role = "user" THEN meta.user ELSE meta.assistant
  <2>2. new[i] = IF ~Temporary(m) THEN m ELSE [m EXCEPT !.id = id]
    BY <2>1 DEF Persisted, Temporary
  <2>3. id \in MessageIds
    BY <1>0
  <2> HIDE DEF id
  <2>4. /\ new[i] \in Message /\ new[i].role = m.role /\ new[i].text = m.text
        /\ new[i].error = m.error
        /\ new[i].id = IF ~Temporary(m) THEN m.id ELSE id
    BY <2>2, <2>3 DEF Message
  <2> QED
    BY <2>1, <2>4 DEF id
<1>2. new = [i \in DOMAIN list |-> new[i]]
  BY DEF Persisted
<1> HIDE DEF new
<1>3. new \in Lists /\ Len(new) = Len(list) /\ DOMAIN new = DOMAIN list
  BY <1>1, <1>2, MappedList
<1> QED
  BY <1>1, <1>3 DEF new

LEMMA UpToFacts ==
  ASSUME NEW list \in Lists, NEW id, id \in Ids(list)
  PROVE  LET new == UpTo(list, id)
         IN /\ new \in Lists
            /\ Len(new) \in DOMAIN list /\ Len(new) \in DOMAIN new /\ DOMAIN new \subseteq DOMAIN list
            /\ Len(new) = At(list, id) /\ new[Len(new)].id = id /\ id \in Ids(new)
            /\ \A i \in DOMAIN new : new[i] = list[i]
<1> DEFINE new == UpTo(list, id)
           n == At(list, id)
<1>1. n \in DOMAIN list /\ list[n].id = id
  <2>1. \E i \in DOMAIN list : list[i].id = id
    BY DEF Ids
  <2> QED
    BY <2>1 DEF At
<1>2. Len(list) \in Nat /\ DOMAIN list = 1..Len(list)
  BY ListDomain
<1> HIDE DEF n
<1>3. \A i \in 1..n : list[i] \in Message
  BY <1>1, <1>2, MessageFields
<1>4. new = SubSeq(list, 1, n) /\ n \in Nat /\ 1 <= n
  BY <1>1, <1>2 DEF UpTo, n
<1> HIDE DEF new
<1>5. new \in Seq(Message) /\ Len(new) = n /\ \A i \in 1..n : new[i] = list[i]
  <2>1. /\ SubSeq(list, 1, n) \in Seq(Message) /\ Len(SubSeq(list, 1, n)) = n - 1 + 1
        /\ \A i \in 1..(n - 1 + 1) : SubSeq(list, 1, n)[i] = list[1 + i - 1]
    BY <1>3, <1>4, SubSeqProperties
  <2> QED
    BY <1>4, <2>1
<1>6. new \in Lists /\ DOMAIN new = 1..n
  BY <1>5, ListDomain DEF Lists
<1>7. n \in DOMAIN new /\ DOMAIN new \subseteq DOMAIN list
  BY <1>1, <1>2, <1>4, <1>6
<1>8. new[n].id = id
  BY <1>1, <1>5, <1>6, <1>7
<1>9. id \in Ids(new)
  BY <1>7, <1>8 DEF Ids
<1> QED
  BY <1>1, <1>5, <1>6, <1>7, <1>8, <1>9 DEF new, n

LEMMA AppendFacts ==
  ASSUME NEW list \in Lists, NEW m \in Message
  PROVE  LET new == Append(list, m)
         IN /\ new \in Lists /\ Len(new) = Len(list) + 1
            /\ DOMAIN new = DOMAIN list \cup {Len(list) + 1}
            /\ new[Len(list) + 1] = m /\ \A i \in DOMAIN list : new[i] = list[i]
<1>1. /\ Append(list, m) \in Seq(Message) /\ Len(Append(list, m)) = Len(list) + 1
      /\ \A i \in 1..Len(list) : Append(list, m)[i] = list[i]
      /\ Append(list, m)[Len(list) + 1] = m
  BY AppendProperties DEF Lists
<1> QED
  BY <1>1, ListDomain DEF Lists

(* Two messages more are one more, twice. *)
LEMMA TwoMore ==
  ASSUME NEW list \in Lists, NEW m \in Message, NEW a \in Message
  PROVE  list \o <<m, a>> = Append(Append(list, m), a)
<1>1. Append(list, m) = list \o <<m>> /\ Append(list, m) \in Seq(Message)
  BY AppendIsConcat, AppendFacts DEF Lists
<1>2. Append(Append(list, m), a) = (list \o <<m>>) \o <<a>>
  BY <1>1, AppendIsConcat
<1> DEFINE T == Message
<1> HIDE DEF T
<1>3. m \in T /\ a \in T
  BY DEF T
<1>4. <<m>> \in Seq(T) /\ <<a>> \in Seq(T)
  BY <1>3
<1>5. <<m>> \o <<a>> = <<m, a>>
  <2>1. Len(<<m>>) = 1 /\ Len(<<a>>) = 1 /\ <<m>>[1] = m /\ <<a>>[1] = a
    OBVIOUS
  <2>2. /\ <<m>> \o <<a>> \in Seq(T) /\ Len(<<m>> \o <<a>>) = 2
        /\ (<<m>> \o <<a>>)[1] = m /\ (<<m>> \o <<a>>)[2] = a
    BY <1>4, <2>1, ConcatProperties
  <2>3. <<m, a>> \in Seq(T) /\ Len(<<m, a>>) = 2 /\ <<m, a>>[1] = m /\ <<m, a>>[2] = a
    BY <1>3
  <2>4. \A i \in 1..2 : i = 1 \/ i = 2
    OBVIOUS
  <2> QED
    BY <2>2, <2>3, <2>4, SeqEqual
<1>6. list \in Seq(T)
  BY DEF Lists, T
<1>7. (list \o <<m>>) \o <<a>> = list \o (<<m>> \o <<a>>)
  BY <1>4, <1>6, ConcatAssociative
<1> QED
  BY <1>2, <1>5, <1>7

(* Two texts of one turn that are as long as each other are the same. *)
LEMMA SameTexts ==
  ASSUME NEW t, NEW s \in Seq({t}), NEW u \in Seq({t}), Len(s) = Len(u)
  PROVE  s = u
BY SeqEqual

(* Three texts of one turn, one after the other, that are as long as a fourth are the fourth. *)
LEMMA SumOfTexts ==
  ASSUME NEW t, NEW a \in Seq({t}), NEW b \in Seq({t}), NEW c \in Seq({t}), NEW s \in Seq({t}),
         Len(a) + Len(b) + Len(c) = Len(s)
  PROVE  (a \o b) \o c = s
<1> DEFINE one == a \o b
<1>1. one \in Seq({t}) /\ Len(one) = Len(a) + Len(b)
  BY ConcatProperties
<1> HIDE DEF one
<1> DEFINE two == one \o c
<1>2. two \in Seq({t}) /\ Len(two) = Len(one) + Len(c)
  BY <1>1, ConcatProperties
<1> HIDE DEF two
<1>3. Len(two) = Len(s)
  BY <1>1, <1>2
<1>4. two = s
  BY <1>2, <1>3, SameTexts
<1> QED
  BY <1>4 DEF one, two

(* The invariant after a step, in terms of the state after it. *)
LEMMA Primed ==
  HookInv' <=>
    /\ HookTypes'
    /\ FromServer(rows', turn') /\ FromServer(data', turn') /\ FromServer(fetch'.rows, turn')
    /\ Begun(rows', server')
    /\ OnScreen(shown', Newest(status', turn'))
    /\ ServerRight(server', turn')
    /\ status' # "idle" =>
         TurnRight(server'[turn'], wire', shown', status', turn', answer', pending', closing', final')
    /\ Finished(server'[turn'], status', turn', answer', final')
    /\ AnswerRight(server'[turn'], rows', shown', fetch', wire', status', turn', final')
<1>1. FromServer(rows, turn)' <=> FromServer(rows', turn')
  BY DEF FromServer, Given
<1>2. FromServer(data, turn)' <=> FromServer(data', turn')
  BY DEF FromServer, Given
<1>3. FromServer(fetch.rows, turn)' <=> FromServer(fetch'.rows, turn')
  BY DEF FromServer, Given
<1>4. Begun(rows, server)' <=> Begun(rows', server')
  BY DEF Begun
<1>5. OnScreen(shown, Newest(status, turn))' <=> OnScreen(shown', Newest(status', turn'))
  BY DEF OnScreen, Given, Temporary, Newest
<1>6. ServerRight(server, turn)' <=> ServerRight(server', turn')
  BY DEF ServerRight
<1>7. TurnRight(server[turn], wire, shown, status, turn, answer, pending, closing, final)' <=>
      TurnRight(server'[turn'], wire', shown', status', turn', answer', pending', closing', final')
  BY DEF TurnRight, AskedRight, WireRight, SubmittingRight, StreamingRight, MetaRight, Empties, Awaits,
         Temporary, Given, Ids, Row, Unfailed
<1>8. Finished(server[turn], status, turn, answer, final)' <=>
      Finished(server'[turn'], status', turn', answer', final')
  BY DEF Finished
<1>9. AnswerRight(server[turn], rows, shown, fetch, wire, status, turn, final)' <=>
      AnswerRight(server'[turn'], rows', shown', fetch', wire', status', turn', final')
  BY DEF AnswerRight, Whole, Ids
<1> QED
  BY <1>1, <1>2, <1>3, <1>4, <1>5, <1>6, <1>7, <1>8, <1>9 DEF HookInv

(* What the invariant says of the last turn. *)
LEMMA LastTurn ==
  ASSUME HookInv, turn > 0
  PROVE  turn \in Turns /\ turn \in Nat /\ server[turn] \in ServerRecords
BY HookAssumption DEF HookInv, HookTypes, Turns

(* Refetches and removals: nothing of a turn under way changes. *)
LEMMA NoRows ==
  /\ <<>> \in Lists /\ \A n : FromServer(<<>>, n)
  /\ NoFetch \in [pc : {"none", "asked", "read"}, rows : Lists] /\ NoFetch.rows = <<>> /\ NoFetch.pc = "none"
  /\ Asked \in [pc : {"none", "asked", "read"}, rows : Lists] /\ Asked.rows = <<>> /\ Asked.pc = "asked"
<1>1. <<>> \in Lists
  BY DEF Lists
<1> QED
  BY <1>1 DEF FromServer, NoFetch, Asked

(* A refetch moves on: nothing else may change, and what it has read is the rows. *)
LEMMA FetchChanges ==
  ASSUME HookInv, UNCHANGED <<rows, shown, status, turn, answer, pending, closing, wire, server, final>>,
         data' \in Lists, FromServer(data', turn), extra' \in Nat,
         fetch' \in [pc : {"none", "asked", "read"}, rows : Lists], FromServer(fetch'.rows, turn),
         fetch'.pc = "read" => fetch'.rows = rows
  PROVE  HookInv'
<1>1. HookTypes'
  BY DEF HookInv, HookTypes
<1>2. AnswerRight(server[turn], rows, shown, fetch', wire, status, turn, final)
  BY DEF HookInv, AnswerRight
<1> QED
  BY <1>1, <1>2, Primed DEF HookInv

LEMMA FetchSteps ==
  ASSUME HookInv, Refetch \/ FetchReads \/ Lands \/ FetchFails
  PROVE  HookInv'
<1>0. /\ rows \in Lists /\ data \in Lists /\ shown \in Lists /\ extra \in Nat
      /\ fetch \in [pc : {"none", "asked", "read"}, rows : Lists]
      /\ FromServer(rows, turn) /\ FromServer(data, turn) /\ FromServer(fetch.rows, turn)
  BY DEF HookInv, HookTypes
<1>1. CASE Refetch
  BY <1>0, <1>1, NoRows, FetchChanges DEF Refetch, Invalidated
<1>2. CASE FetchReads
  <2>1. fetch' \in [pc : {"none", "asked", "read"}, rows : Lists] /\ fetch'.rows = rows
    BY <1>0, <1>2 DEF FetchReads
  <2> QED
    BY <1>0, <1>2, <2>1, FetchChanges DEF FetchReads
<1>3. CASE FetchFails
  BY <1>0, <1>3, NoRows, FetchChanges DEF FetchFails
<1>4. CASE Lands
  <2>1. fetch.rows \in Lists
    BY <1>0
  <2>2. CASE shown' = shown
    BY <1>0, <1>4, <2>1, <2>2, NoRows, FetchChanges DEF Lands
  <2>3. CASE shown' # shown
    <3>1. /\ status = "idle" /\ fetch.pc = "read" /\ shown' = fetch.rows /\ data' = fetch.rows /\ fetch' = NoFetch
          /\ UNCHANGED <<rows, status, turn, answer, pending, closing, wire, server, final, extra>>
      BY <1>4, <2>3 DEF Lands
    <3>2. HookTypes'
      BY <2>1, <3>1, NoRows DEF HookInv, HookTypes
    <3>3. OnScreen(fetch.rows, turn)
      BY <1>0, <2>1, MessageFields DEF OnScreen, FromServer, Given, Temporary
    <3>4. AnswerRight(server[turn], rows, fetch.rows, NoFetch, wire, status, turn, final)
      BY <3>1, NoRows DEF HookInv, AnswerRight
    <3>5. Newest(status, turn) = turn
      BY <3>1 DEF Newest
    <3> QED
      BY <1>0, <3>1, <3>2, <3>3, <3>4, <3>5, NoRows, Primed DEF HookInv
  <2> QED
    BY <2>2, <2>3
<1> QED
  BY <1>1, <1>2, <1>3, <1>4

LEMMA DeleteStep ==
  ASSUME HookInv, NEW i \in DOMAIN shown, shown[i].error, handleDelete(shown[i].id), status = "idle"
  PROVE  HookInv'
<1> DEFINE id == shown[i].id
           left == Kept(rows, {message \in Range(rows) : message.id # id})
<1>0. rows \in Seq(Message)
  BY DEF HookInv, HookTypes, Lists
<1>1. left \in Seq(Message) /\ Range(left) = Range(rows) \cap {message \in Range(rows) : message.id # id}
  BY <1>0, KeptProperties
<1>2. rows' = left /\ fetch' = Asked /\ extra' = extra + 1
      /\ UNCHANGED <<data, shown, status, turn, answer, pending, closing, wire, server, final>>
  BY DEF handleDelete
<1> HIDE DEF left
<1>3. ASSUME NEW k \in DOMAIN left PROVE \E j \in DOMAIN rows : left[k] = rows[j] /\ rows[j].id # id
  <2>1. left[k] \in Range(left)
    BY DEF Range
  <2>2. left[k] \in Range(rows) /\ left[k].id # id
    BY <1>1, <2>1
  <2> QED
    BY <2>2 DEF Range
<1>4. \A j \in DOMAIN rows : rows[j].id # id => \E k \in DOMAIN left : left[k] = rows[j]
  BY <1>1 DEF Range
<1>5. HookTypes'
  BY <1>1, <1>2, NoRows DEF HookInv, HookTypes, Lists
<1>6. FromServer(left, turn) /\ Begun(left, server)
  BY <1>3 DEF HookInv, FromServer, Begun
<1>7. AnswerRight(server[turn], left, shown, Asked, wire, status, turn, final)
  <2> DEFINE s == server[turn]
  <2> SUFFICES ASSUME turn > 0, s.alone, final # None PROVE Whole(left, s) /\ Whole(shown, s)
    BY NoRows DEF AnswerRight
  <2>1. Whole(rows, s) /\ Whole(shown, s)
    BY DEF HookInv, AnswerRight
  <2> HIDE DEF s
  <2>2. s.asks # id
    BY <2>1 DEF Whole
  <2>3. s.asks \in Ids(left)
    BY <1>4, <2>1, <2>2 DEF Whole, Ids
  <2> QED
    BY <1>3, <2>1, <2>3 DEF Whole
<1> QED
  BY <1>2, <1>5, <1>6, <1>7, NoRows, Primed DEF HookInv

(* What the stop button and a broken connection do to the wire, nothing of the turn sees. *)
LEMMA Interrupted ==
  ASSUME NEW s, NEW w, NEW list, NEW st, NEW n, NEW an, NEW pe, NEW cl, NEW fi, NEW how \in {"stopped", "cut"},
         TurnRight(s, w, list, st, n, an, pe, cl, fi)
  PROVE  /\ TurnRight(s, w, list, st, n, an, pe, how, fi)
         /\ TurnRight(s, <<>>, list, st, n, an, pe, how, fi)
BY DEF TurnRight, AskedRight, WireRight, SubmittingRight, StreamingRight, Unfailed

(* The user stops the turn, or the connection breaks: the wire is empty from then on. *)
LEMMA InterruptSteps ==
  ASSUME HookInv, stop \/ Disconnect
  PROVE  HookInv'
<1>1. /\ status # "idle" /\ closing' \in {"stopped", "cut"} /\ wire' \in {wire, <<>>}
      /\ UNCHANGED <<rows, data, shown, status, turn, answer, pending, server, fetch, final, extra>>
  BY DEF stop, Disconnect
<1>2. HookTypes'
  <2>1. <<>> \in Seq(Events) /\ wire \in Seq(Events)
    BY EmptySeq DEF HookInv, HookTypes
  <2>2. wire' \in Seq(Events)
    BY <1>1, <2>1
  <2> QED
    BY <1>1, <2>2 DEF HookInv, HookTypes
<1>3. TurnRight(server[turn], wire', shown, status, turn, answer, pending, closing', final)
  BY <1>1, Interrupted DEF HookInv
<1>4. AnswerRight(server[turn], rows, shown, fetch, wire', status, turn, final)
  BY <1>1 DEF HookInv, AnswerRight
<1> QED
  BY <1>1, <1>2, <1>3, <1>4, Primed DEF HookInv

(* The end of a turn on the browser's side. *)
LEMMA SettleStep ==
  ASSUME HookInv, Settle
  PROVE  HookInv'
<1>1. /\ status # "idle" /\ status' = "idle" /\ pending' = <<>> /\ wire' = <<>> /\ closing' = "none"
      /\ fetch' = Asked /\ UNCHANGED <<rows, data, shown, turn, answer, server, final, extra>>
  BY DEF Settle, Invalidated
<1>2. HookTypes'
  BY <1>1, NoRows DEF HookInv, HookTypes, Texts
<1>3. OnScreen(shown, Newest(status', turn'))
  <2>1. OnScreen(shown, Newest(status, turn)) /\ turn \in Nat /\ shown \in Lists
    BY DEF HookInv, HookTypes
  <2>2. Newest(status, turn) \in Int /\ Newest(status, turn) <= turn /\ Newest(status', turn') = turn
    BY <1>1, <2>1 DEF Newest
  <2>3. \A i \in DOMAIN shown : shown[i].id[3] \in Nat
    BY <2>1, MessageFields DEF MessageIds, Turns
  <2> QED
    BY <2>1, <2>2, <2>3 DEF OnScreen, Given
<1>4. Finished(server[turn], status', turn, answer, final)
  BY <1>1 DEF HookInv, Finished
<1>5. AnswerRight(server[turn], rows, shown, Asked, <<>>, "idle", turn, final)
  BY <1>1, NoRows DEF HookInv, AnswerRight
<1> QED
  BY <1>1, <1>2, <1>3, <1>4, <1>5, NoRows, Primed DEF HookInv

(* The browser's loop: each event it reads, and each frame. *)
LEMMA EventKinds ==
  ASSUME NEW e \in Events
  PROVE  /\ e.type \in {"meta", "delta", "done", "error"}
         /\ e.type = "meta" => e \in Metas
         /\ e.type \in {"delta", "done"} => e.text \in Texts
BY DEF Events, Metas, Said, Refusals

(* What is left on the wire once the first event is taken is right for the same turn. *)
LEMMA Tails ==
  ASSUME HookInv, status # "idle", wire # <<>>, Took
  PROVE  /\ turn > 0 /\ TurnRight(server[turn], wire, shown, status, turn, answer, pending, closing, final)
         /\ wire' \in Seq(Events) /\ Len(wire) \in Nat /\ Len(wire') = Len(wire) - 1
         /\ 1 \in DOMAIN wire /\ Head(wire) = wire[1] /\ wire[1] \in Events
         /\ \A i \in DOMAIN wire' : i \in Nat \ {0} /\ i + 1 \in DOMAIN wire /\ wire'[i] = wire[i + 1]
         /\ \A list, st : WireRight(server[turn], wire', list, st, turn)
         /\ \A i \in DOMAIN wire' : wire'[i].type # "meta"
<1>1. turn > 0 /\ TurnRight(server[turn], wire, shown, status, turn, answer, pending, closing, final)
  BY DEF HookInv, TurnRight
<1>2. wire \in Seq(Events)
  BY DEF HookInv, HookTypes
<1> DEFINE w == Tail(wire)
<1>3. /\ w \in Seq(Events) /\ Len(w) = Len(wire) - 1 /\ \A i \in 1..Len(w) : w[i] = wire[i + 1]
  BY <1>2, HeadTailProperties
<1>4. Len(wire) \in Nat /\ DOMAIN wire = 1..Len(wire) /\ Len(wire) # 0 /\ Head(wire) = wire[1]
  BY <1>2
<1>5. 1 \in DOMAIN wire /\ wire[1] \in Events
  BY <1>2, <1>4
<1>6. DOMAIN w = 1..Len(w)
  BY <1>3
<1> HIDE DEF w
<1>7. \A i \in DOMAIN w : i \in Nat \ {0} /\ i + 1 \in DOMAIN wire /\ w[i] = wire[i + 1]
  BY <1>3, <1>4, <1>6
<1>8. WireRight(server[turn], wire, shown, status, turn)
  BY <1>1 DEF TurnRight
<1>9. ASSUME NEW i \in DOMAIN w
      PROVE  /\ w[i].type # "meta"
             /\ w[i].type = "delta" => w[i].text = <<turn>>
             /\ w[i].type \in {"done", "error"} => i = Len(w) /\ server[turn].pc = "over"
             /\ w[i].type = "done" => w[i].text = server[turn].text
  <2>1. i + 1 # 1
    BY <1>7
  <2> QED
    BY <1>3, <1>4, <1>7, <1>8, <2>1 DEF WireRight
<1>10. \A list, st : WireRight(server[turn], w, list, st, turn)
  BY <1>9 DEF WireRight
<1>11. wire' = w
  BY DEF Took, w
<1> QED
  BY <1>1, <1>3, <1>4, <1>5, <1>7, <1>9, <1>10, <1>11

(* What is still on its way was on its way before. *)
LEMMA AnswerAfterReading ==
  ASSUME HookInv, status # "idle", wire # <<>>, Took, status' # "idle", final = None,
         UNCHANGED <<rows, turn, server>>, final' = None
  PROVE  \A list : AnswerRight(server[turn], rows, list, fetch, wire', status', turn, final')
BY Tails DEF HookInv, AnswerRight

(* The events of a turn, as the hook reads them. *)
LEMMA ReadMetaStep ==
  ASSUME HookInv, ReadMeta
  PROVE  HookInv'
<1> DEFINE s == server[turn]
           meta == wire[1]
<1>1. /\ status # "idle" /\ wire # <<>> /\ Took /\ Head(wire).type = "meta"
      /\ answer' = Head(wire).assistant /\ status' = "streaming" /\ shown' = Persisted(shown, Head(wire))
      /\ UNCHANGED <<rows, data, turn, pending, closing, server, fetch, final, extra>>
  BY DEF ReadMeta, Reading
<1>2. /\ turn > 0 /\ TurnRight(s, wire, shown, status, turn, answer, pending, closing, final)
      /\ wire' \in Seq(Events) /\ Len(wire) \in Nat /\ Len(wire') = Len(wire) - 1
      /\ 1 \in DOMAIN wire /\ Head(wire) = meta /\ meta \in Events
      /\ \A list, st : WireRight(s, wire', list, st, turn)
  BY <1>1, Tails
<1>3. MetaRight(meta, s, shown, status, turn) /\ meta.type = "meta"
  BY <1>1, <1>2 DEF TurnRight, WireRight
<1> DEFINE a == meta.assistant
           new == Persisted(shown, meta)
<1>4. status = "submitting" /\ a = s.asks /\ Given(meta.user, turn) /\ Given(a, turn)
  BY <1>3 DEF MetaRight
<1>5. pending = <<>> /\ final = None /\ s.pc # "asked"
  BY <1>1, <1>2, <1>4 DEF TurnRight, SubmittingRight, AskedRight
<1>6. /\ shown \in Lists /\ OnScreen(shown, turn - 1) /\ turn \in Nat /\ meta \in Metas
  BY <1>2, <1>3, <1>4, EventKinds, LastTurn DEF HookInv, HookTypes, Newest
<1>7. /\ new \in Lists /\ DOMAIN new = DOMAIN shown
      /\ \A i \in DOMAIN shown :
           /\ new[i].id = IF ~Temporary(shown[i]) THEN shown[i].id
                          ELSE IF shown[i].role = "user" THEN meta.user ELSE a
           /\ new[i].role = shown[i].role /\ new[i].text = shown[i].text
           /\ new[i].error = shown[i].error
  BY <1>6, PersistedFacts
<1>8. shown' = new
  BY <1>1, <1>2
<1> HIDE DEF new, meta, s
<1>9. ASSUME NEW i \in DOMAIN new PROVE Given(new[i].id, turn)
  <2>1. CASE Temporary(shown[i])
    BY <1>4, <1>7, <2>1
  <2>2. CASE ~Temporary(shown[i])
    <3>1. Given(shown[i].id, turn - 1) /\ shown[i].id[3] \in Nat
      BY <1>6, <1>7, <2>2, MessageFields DEF OnScreen, MessageIds, Turns
    <3> QED
      BY <1>6, <1>7, <2>2, <3>1 DEF Given
  <2> QED
    BY <2>1, <2>2
<1>10. \A i \in DOMAIN new : ~Temporary(new[i])
  BY <1>9 DEF Given, Temporary
<1>11. OnScreen(new, turn)
  BY <1>9, <1>10 DEF OnScreen
<1>12. a \in Ids(new) /\ \A i \in DOMAIN new : new[i].id = a => new[i].text = <<>> /\ ~new[i].error
  <2>1. CASE Empties(shown, a)
    <3>1. \A i \in DOMAIN new : new[i].id = shown[i].id
      BY <1>7, <2>1 DEF Empties
    <3> QED
      BY <1>7, <2>1, <3>1 DEF Empties, Ids
  <2>2. CASE a = Row(turn, "assistant") /\ meta.user # a /\ Awaits(shown)
    <3>1. a \in Ids(new)
      BY <1>7, <2>2 DEF Awaits, Ids
    <3>2. ASSUME NEW i \in DOMAIN new, new[i].id = a PROVE new[i].text = <<>> /\ ~new[i].error
      <4>1. CASE Temporary(shown[i])
        BY <1>6, <1>7, <2>2, <3>2, <4>1, MessageFields DEF OnScreen, Roles
      <4>2. CASE ~Temporary(shown[i])
        BY <1>6, <1>7, <2>2, <3>2, <4>2 DEF OnScreen, Given, Row
      <4> QED
        BY <4>1, <4>2
    <3> QED
      BY <3>1, <3>2
  <2> QED
    BY <1>3, <2>1, <2>2 DEF MetaRight
<1>13. TurnRight(s, wire', new, "streaming", turn, a, pending, closing, final)
  <2>1. s.pc = "streaming" /\ closing = "none" => Len(wire) = 1 + Len(s.text)
    BY <1>2, <1>4 DEF TurnRight, SubmittingRight
  <2>2. <<>> \in Seq({turn}) /\ Len(<<>>) = 0
    BY EmptySeq
  <2>3. s.text \in Texts
    BY <1>2, LastTurn DEF ServerRecords, s
  <2>4. Len(s.text) \in Nat
    BY <2>3 DEF Texts
  <2>5. StreamingRight(s, wire', new, "streaming", turn, a, pending, closing, final)
    <3>1. ASSUME s.pc = "streaming", closing = "none", NEW i \in DOMAIN new, new[i].id = a
          PROVE  new[i].text \in Seq({turn}) /\ Len(new[i].text) + Len(pending) + Len(wire') = Len(s.text)
      <4>1. new[i].text = <<>> /\ pending = <<>> /\ Len(wire) = 1 + Len(s.text)
        BY <1>5, <1>12, <2>1, <3>1
      <4>2. Len(new[i].text) = 0 /\ Len(pending) = 0
        BY <2>2, <4>1
      <4> QED
        BY <1>2, <2>2, <2>4, <4>1, <4>2
    <3> QED
      BY <1>4, <1>5, <1>10, <1>12, <2>2, <3>1 DEF StreamingRight, Unfailed
  <2> QED
    BY <1>2, <1>5, <2>5 DEF TurnRight, AskedRight, SubmittingRight
<1>14. HookTypes'
  BY <1>1, <1>2, <1>7, <1>8 DEF HookInv, HookTypes
<1>15. Finished(s, status', turn, answer', final')
  BY <1>1, <1>5 DEF Finished
<1>16. AnswerRight(s, rows, new, fetch, wire', status', turn, final')
  BY <1>1, <1>5, AnswerAfterReading DEF s
<1>17. Newest(status', turn) = turn /\ answer' = a
  BY <1>1, <1>2 DEF Newest
<1> QED
  BY <1>1, <1>8, <1>11, <1>13, <1>14, <1>15, <1>16, <1>17, Primed DEF HookInv, s

LEMMA ReadDeltaStep ==
  ASSUME HookInv, ReadDelta
  PROVE  HookInv'
<1> DEFINE s == server[turn]
           more == wire[1].text
<1>1. /\ status # "idle" /\ wire # <<>> /\ Took /\ Head(wire).type = "delta"
      /\ pending' = pending \o Head(wire).text
      /\ UNCHANGED <<rows, data, shown, status, turn, answer, closing, server, fetch, final, extra>>
  BY DEF ReadDelta, Reading
<1>2. /\ turn > 0 /\ TurnRight(s, wire, shown, status, turn, answer, pending, closing, final)
      /\ wire' \in Seq(Events) /\ Len(wire) \in Nat /\ Len(wire') = Len(wire) - 1
      /\ 1 \in DOMAIN wire /\ Head(wire) = wire[1] /\ wire[1] \in Events
      /\ \A list, st : WireRight(s, wire', list, st, turn)
  BY <1>1, Tails
<1>3. more = <<turn>> /\ more \in Texts /\ turn \in Nat
  BY <1>1, <1>2, EventKinds, LastTurn DEF TurnRight, WireRight
<1>4. status = "streaming"
  BY <1>1, <1>2 DEF HookInv, HookTypes, TurnRight, SubmittingRight
<1> HIDE DEF more
<1>5. StreamingRight(s, wire, shown, "streaming", turn, answer, pending, closing, final)
  BY <1>2, <1>4 DEF TurnRight
<1>6. final = None /\ s.pc # "asked"
  BY <1>1, <1>5 DEF StreamingRight
<1>7. pending' = pending \o more /\ pending \in Texts
  BY <1>1, <1>2 DEF more, HookInv, HookTypes
<1>8. pending' \in Texts
  BY <1>3, <1>7, ConcatProperties DEF Texts
<1>9. pending \in Seq({turn}) => pending' \in Seq({turn}) /\ Len(pending') = Len(pending) + 1 /\ Len(pending) \in Nat
  <2> SUFFICES ASSUME pending \in Seq({turn})
      PROVE  pending' \in Seq({turn}) /\ Len(pending') = Len(pending) + 1 /\ Len(pending) \in Nat
    OBVIOUS
  <2>1. more \in Seq({turn}) /\ Len(more) = 1
    BY <1>3
  <2>2. pending \o more \in Seq({turn}) /\ Len(pending \o more) = Len(pending) + Len(more)
    BY <2>1, ConcatProperties
  <2> QED
    BY <1>7, <2>1, <2>2
<1>10. TurnRight(s, wire', shown, "streaming", turn, answer, pending', closing, final)
  <2>1. s.text \in Texts /\ shown \in Lists
    BY <1>2, LastTurn DEF ServerRecords, HookInv, HookTypes
  <2>2. \A i \in DOMAIN shown : Len(shown[i].text) \in Nat
    BY <2>1, MessageFields DEF Texts
  <2>3. StreamingRight(s, wire', shown, "streaming", turn, answer, pending', closing, final)
    <3>1. ASSUME s.pc = "streaming", closing = "none", NEW i \in DOMAIN shown, shown[i].id = answer
          PROVE  /\ pending' \in Seq({turn}) /\ shown[i].text \in Seq({turn})
                 /\ Len(shown[i].text) + Len(pending') + Len(wire') = Len(s.text)
      <4>1. /\ pending \in Seq({turn}) /\ shown[i].text \in Seq({turn})
            /\ Len(shown[i].text) + Len(pending) + Len(wire) = Len(s.text)
        BY <1>5, <3>1 DEF StreamingRight
      <4>2. pending' \in Seq({turn}) /\ Len(pending') = Len(pending) + 1 /\ Len(pending) \in Nat
        BY <1>9, <4>1
      <4>3. Len(shown[i].text) \in Nat /\ Len(wire') = Len(wire) - 1 /\ Len(wire) \in Nat
        BY <1>2, <2>2
      <4>4. Len(shown[i].text) + Len(pending') + Len(wire') = Len(s.text)
        <5> DEFINE a == Len(shown[i].text)
                   b == Len(pending)
                   c == Len(wire)
        <5>1. a \in Nat /\ b \in Nat /\ c \in Nat /\ a + b + c = Len(s.text)
          BY <4>1, <4>2, <4>3
        <5>2. Len(pending') = b + 1 /\ Len(wire') = c - 1
          BY <4>2, <4>3
        <5> HIDE DEF a, b, c
        <5>3. a + (b + 1) + (c - 1) = a + b + c
          BY <5>1
        <5>4. a + Len(pending') + Len(wire') = Len(s.text)
          BY <5>1, <5>2, <5>3
        <5> QED
          BY <5>4 DEF a
      <4> QED
        BY <4>1, <4>2, <4>4
    <3>2. s.pc = "streaming" /\ closing = "none" => pending' \in Seq({turn})
      BY <1>5, <1>9 DEF StreamingRight
    <3>3. s.pc = "streaming" \/ (\E i \in DOMAIN wire' : wire'[i].type = "done") => Unfailed(shown, answer)
      BY <1>1, <1>5, Tails DEF StreamingRight
    <3> QED
      BY <1>2, <1>5, <1>6, <3>1, <3>2, <3>3 DEF StreamingRight
  <2> QED
    BY <1>2, <1>6, <2>3 DEF TurnRight, AskedRight, SubmittingRight
<1>11. HookTypes'
  BY <1>1, <1>2, <1>8 DEF HookInv, HookTypes
<1>12. AnswerRight(s, rows, shown, fetch, wire', status', turn, final')
  BY <1>1, <1>6, AnswerAfterReading
<1> QED
  BY <1>1, <1>4, <1>10, <1>11, <1>12, Primed DEF HookInv

LEMMA FlushStep ==
  ASSUME HookInv, flush
  PROVE  HookInv'
<1> DEFINE s == server[turn]
           new == WithMore(shown, answer, pending)
<1>1. /\ status # "idle" /\ pending # <<>> /\ shown' = new /\ pending' = <<>>
      /\ UNCHANGED <<rows, data, status, turn, answer, closing, wire, server, fetch, final, extra>>
  BY DEF flush
<1>2. TurnRight(s, wire, shown, status, turn, answer, pending, closing, final) /\ turn > 0
  BY <1>1 DEF HookInv, TurnRight
<1>3. status = "streaming"
  BY <1>1, <1>2 DEF HookInv, HookTypes, TurnRight, SubmittingRight
<1>4. StreamingRight(s, wire, shown, "streaming", turn, answer, pending, closing, final)
  BY <1>2, <1>3 DEF TurnRight
<1>5. shown \in Lists /\ pending \in Texts /\ turn \in Nat
  BY <1>2, LastTurn DEF HookInv, HookTypes
<1>6. /\ new \in Lists /\ DOMAIN new = DOMAIN shown
      /\ \A i \in DOMAIN shown :
           /\ new[i].id = shown[i].id /\ new[i].role = shown[i].role
           /\ new[i].text = IF shown[i].id = answer THEN shown[i].text \o pending ELSE shown[i].text
           /\ new[i].error = shown[i].error
  BY <1>5, WithMoreFacts
<1> HIDE DEF new
<1>7. \A i \in DOMAIN new : ~Temporary(new[i])
  BY <1>4, <1>6 DEF StreamingRight, Temporary
<1>8. OnScreen(new, Newest(status, turn)) /\ final = None /\ s.pc # "asked" /\ answer \in Ids(new)
  <2>1. OnScreen(shown, Newest(status, turn))
    BY DEF HookInv
  <2>2. final = None /\ s.pc # "asked" /\ answer \in Ids(shown)
    BY <1>1, <1>4 DEF StreamingRight
  <2> QED
    BY <1>6, <1>7, <2>1, <2>2 DEF OnScreen, Temporary, Ids
<1>9. TurnRight(s, wire, new, "streaming", turn, answer, <<>>, closing, final)
  <2>0. <<>> \in Seq({turn}) /\ Len(<<>>) = 0
    BY EmptySeq
  <2>1. ASSUME s.pc = "streaming", closing = "none", NEW i \in DOMAIN new, new[i].id = answer
        PROVE  new[i].text \in Seq({turn}) /\ Len(new[i].text) + Len(<<>>) + Len(wire) = Len(s.text)
    <3>1. /\ pending \in Seq({turn}) /\ shown[i].text \in Seq({turn})
          /\ Len(shown[i].text) + Len(pending) + Len(wire) = Len(s.text)
      BY <1>4, <1>6, <2>1 DEF StreamingRight
    <3>2. new[i].text = shown[i].text \o pending
      BY <1>6, <2>1
    <3>3. new[i].text \in Seq({turn}) /\ Len(new[i].text) = Len(shown[i].text) + Len(pending)
      BY <3>1, <3>2, ConcatProperties
    <3>4. Len(shown[i].text) \in Nat /\ Len(pending) \in Nat /\ Len(wire) \in Nat
      BY <3>1 DEF HookInv, HookTypes
    <3> QED
      BY <2>0, <3>1, <3>3, <3>4
  <2>2. StreamingRight(s, wire, new, "streaming", turn, answer, <<>>, closing, final)
    BY <1>4, <1>6, <1>7, <1>8, <2>0, <2>1 DEF StreamingRight, Unfailed
  <2>3. WireRight(s, wire, new, "streaming", turn)
    BY <1>2, <1>3 DEF TurnRight, WireRight, MetaRight
  <2> QED
    BY <1>2, <1>8, <2>2, <2>3 DEF TurnRight, AskedRight, SubmittingRight
<1>10. HookTypes'
  BY <1>1, <1>6, EmptySeq DEF HookInv, HookTypes, Texts
<1>11. AnswerRight(s, rows, new, fetch, wire, status, turn, final)
  BY <1>8 DEF HookInv, AnswerRight
<1> QED
  BY <1>1, <1>3, <1>8, <1>9, <1>10, <1>11, Primed DEF HookInv

(* No message has the id of an answer that is yet to come. *)
LEMMA NoneIsNoId == None \notin MessageIds
<1> SUFFICES ASSUME None \in MessageIds PROVE FALSE
  OBVIOUS
<1>1. PICK kind \in {"row", "temp"}, role \in {"user", "assistant"}, t \in 1..MaxTurns : None = <<kind, role, t>>
  BY DEF MessageIds, Roles, Turns
<1> QED
  BY <1>1, HookAssumption

(* The last event leaves nothing on the wire. *)
LEMMA LastEvent ==
  ASSUME HookInv, status # "idle", wire # <<>>, Took, wire[1].type \in {"done", "error"}
  PROVE  /\ server[turn].pc = "over" /\ wire' = <<>> /\ final = None
         /\ status = "submitting" => pending = <<>>
<1>1. /\ TurnRight(server[turn], wire, shown, status, turn, answer, pending, closing, final)
      /\ wire' \in Seq(Events) /\ Len(wire') = Len(wire) - 1 /\ 1 \in DOMAIN wire
  BY Tails
<1>2. server[turn].pc = "over" /\ Len(wire) = 1
  BY <1>1 DEF TurnRight, WireRight
<1>3. wire' = <<>>
  BY <1>1, <1>2
<1>4. final = None /\ (status = "submitting" => pending = <<>>)
  BY <1>1 DEF TurnRight, SubmittingRight, StreamingRight, HookInv, HookTypes
<1> QED
  BY <1>2, <1>3, <1>4

LEMMA ReadDoneStep ==
  ASSUME HookInv, ReadDone
  PROVE  HookInv'
<1> DEFINE s == server[turn]
           new == WithContent(shown, answer, s.text)
<1>1. /\ status # "idle" /\ wire # <<>> /\ Took /\ Head(wire).type = "done"
      /\ shown' = WithContent(shown, answer, Head(wire).text) /\ pending' = <<>> /\ final' = Head(wire).text
      /\ UNCHANGED <<rows, data, status, turn, answer, closing, server, fetch, extra>>
  BY DEF ReadDone, Reading
<1>2. /\ turn > 0 /\ TurnRight(s, wire, shown, status, turn, answer, pending, closing, final)
      /\ 1 \in DOMAIN wire /\ Head(wire) = wire[1]
  BY <1>1, Tails
<1>3. wire[1].text = s.text /\ wire[1].type = "done"
  BY <1>1, <1>2 DEF TurnRight, WireRight
<1>4. s.pc = "over" /\ wire' = <<>> /\ status = "streaming"
  BY <1>1, <1>2, <1>3, LastEvent DEF HookInv, HookTypes, TurnRight, SubmittingRight
<1>5. shown' = new /\ final' = s.text
  BY <1>1, <1>2, <1>3
<1>6. StreamingRight(s, wire, shown, "streaming", turn, answer, pending, closing, final)
  BY <1>2, <1>4 DEF TurnRight
<1>7. answer = s.asks /\ answer \in Ids(shown) /\ Unfailed(shown, answer)
      /\ \A i \in DOMAIN shown : ~Temporary(shown[i])
  BY <1>2, <1>3, <1>6 DEF StreamingRight
<1>8. shown \in Lists /\ s.text \in Texts /\ OnScreen(shown, Newest(status, turn)) /\ turn \in Nat
  BY <1>2, LastTurn DEF HookInv, HookTypes, ServerRecords
<1> HIDE DEF s
<1>9. /\ new \in Lists /\ DOMAIN new = DOMAIN shown
      /\ \A i \in DOMAIN shown :
           /\ new[i].id = shown[i].id /\ new[i].role = shown[i].role
           /\ new[i].text = IF shown[i].id = answer THEN s.text ELSE shown[i].text
           /\ new[i].error = shown[i].error
  <2> DEFINE t == s.text
             list == WithContent(shown, answer, t)
  <2>1. t \in Texts
    BY <1>8
  <2> HIDE DEF t
  <2>2. /\ list \in Lists /\ DOMAIN list = DOMAIN shown
        /\ \A i \in DOMAIN shown :
             /\ list[i].id = shown[i].id /\ list[i].role = shown[i].role
             /\ list[i].text = IF shown[i].id = answer THEN t ELSE shown[i].text
             /\ list[i].error = shown[i].error
    BY <1>8, <2>1, WithContentFacts
  <2> QED
    BY <2>2 DEF t
<1> HIDE DEF new
<1>10. /\ \A i \in DOMAIN new : ~Temporary(new[i])
       /\ Unfailed(new, answer)
       /\ OnScreen(new, Newest(status, turn)) /\ answer \in Ids(new)
  BY <1>7, <1>8, <1>9 DEF OnScreen, Temporary, Ids, Unfailed
<1>11. TurnRight(s, <<>>, new, "streaming", turn, answer, <<>>, closing, final')
  BY <1>2, <1>4, <1>7, <1>10 DEF TurnRight, AskedRight, WireRight, SubmittingRight, StreamingRight
<1>12. HookTypes'
  BY <1>1, <1>4, <1>5, <1>9, EmptySeq DEF HookInv, HookTypes, Texts
<1>13. Finished(s, status, turn, answer, final')
  BY <1>2, <1>4, <1>5, <1>7 DEF Finished
<1>14. AnswerRight(s, rows, new, fetch, <<>>, status, turn, final')
  <2> SUFFICES ASSUME s.alone PROVE Whole(rows, s) /\ Whole(new, s)
    BY <1>4 DEF AnswerRight
  <2>1. Whole(rows, s)
    BY <1>1, <1>2, <1>3 DEF HookInv, AnswerRight, s
  <2>2. Whole(new, s)
    BY <1>7, <1>9, <1>10 DEF Whole, Unfailed
  <2> QED
    BY <2>1, <2>2
<1> QED
  BY <1>1, <1>4, <1>5, <1>10, <1>11, <1>12, <1>13, <1>14, Primed DEF HookInv, s

LEMMA ReadErrorStep ==
  ASSUME HookInv, ReadError
  PROVE  HookInv'
<1> DEFINE s == server[turn]
           said == WithMore(shown, answer, pending)
           new == WithError(said, answer)
<1>1. /\ status # "idle" /\ wire # <<>> /\ Took /\ Head(wire).type = "error"
      /\ shown' = new /\ pending' = <<>>
      /\ UNCHANGED <<rows, data, status, turn, answer, closing, server, fetch, final, extra>>
  BY DEF ReadError, Reading
<1>2. /\ turn > 0 /\ TurnRight(s, wire, shown, status, turn, answer, pending, closing, final)
      /\ 1 \in DOMAIN wire /\ Head(wire) = wire[1]
  BY <1>1, Tails
<1>3. s.pc = "over" /\ wire' = <<>> /\ final = None /\ (status = "submitting" => pending = <<>>)
  BY <1>1, <1>2, LastEvent
<1>4. shown \in Lists /\ pending \in Texts /\ OnScreen(shown, Newest(status, turn))
  BY DEF HookInv, HookTypes
<1>5. /\ said \in Lists /\ DOMAIN said = DOMAIN shown
      /\ \A i \in DOMAIN shown :
           /\ said[i].id = shown[i].id /\ said[i].role = shown[i].role
           /\ said[i].text = IF shown[i].id = answer THEN shown[i].text \o pending ELSE shown[i].text
           /\ said[i].error = shown[i].error
  BY <1>4, WithMoreFacts
<1> HIDE DEF said
<1>6. /\ new \in Lists /\ DOMAIN new = DOMAIN said
      /\ \A i \in DOMAIN said :
           /\ new[i].id = said[i].id /\ new[i].role = said[i].role /\ new[i].text = said[i].text
           /\ said[i].id # answer => new[i].error = said[i].error
  BY <1>5, WithErrorFacts
<1> HIDE DEF new
<1>7. \A i \in DOMAIN shown : status = "submitting" => new[i].text = shown[i].text /\ new[i].error = shown[i].error
  <2> SUFFICES ASSUME NEW i \in DOMAIN shown, status = "submitting"
      PROVE  new[i].text = shown[i].text /\ new[i].error = shown[i].error
    OBVIOUS
  <2>0. shown[i].id # answer
    BY <1>2, <1>4, MessageFields, NoneIsNoId DEF TurnRight
  <2>1. shown[i].text \in Seq(Turns) /\ pending = <<>>
    BY <1>3, <1>4, MessageFields DEF Texts
  <2>2. shown[i].text \o <<>> = shown[i].text
    BY <2>1, ConcatEmptySeq
  <2> QED
    BY <1>5, <1>6, <2>0, <2>1, <2>2
<1>8. status = "streaming" =>
        answer = s.asks /\ answer \in Ids(shown) /\ \A i \in DOMAIN shown : ~Temporary(shown[i])
  BY <1>2 DEF TurnRight, StreamingRight
<1>9. DOMAIN new = DOMAIN shown /\ \A i \in DOMAIN shown : new[i].id = shown[i].id /\ new[i].role = shown[i].role
  BY <1>5, <1>6
<1>10. status \in {"submitting", "streaming"}
  BY <1>1 DEF HookInv, HookTypes
<1>11. OnScreen(new, Newest(status, turn))
  BY <1>4, <1>7, <1>8, <1>9, <1>10 DEF OnScreen, Temporary
<1>12. TurnRight(s, <<>>, new, status, turn, answer, <<>>, closing, final)
  BY <1>2, <1>3, <1>8, <1>9 DEF TurnRight, AskedRight, WireRight, SubmittingRight, StreamingRight, Temporary, Ids
<1>13. HookTypes'
  BY <1>1, <1>3, <1>6, EmptySeq DEF HookInv, HookTypes, Texts
<1>14. AnswerRight(s, rows, new, fetch, <<>>, status, turn, final)
  BY <1>3 DEF AnswerRight
<1> QED
  BY <1>1, <1>3, <1>11, <1>12, <1>13, <1>14, Primed DEF HookInv

LEMMA BrowserStep ==
  ASSUME HookInv, Browser
  PROVE  HookInv'
BY ReadMetaStep, ReadDeltaStep, FlushStep, ReadDoneStep, ReadErrorStep, SettleStep DEF Browser

(* The server's route: each step of a turn on the server. *)
LEMMA ServerFacts ==
  ASSUME HookInv, NEW t \in Turns, server[t].pc # "none"
  PROVE  /\ turn > 0 /\ turn \in Turns /\ turn \in Nat /\ t <= turn /\ server[t] \in ServerRecords
         /\ t # turn /\ server[turn].alone => server[t].pc = "over"
<1>1. turn \in 0..MaxTurns /\ server \in [Turns -> ServerRecords] /\ ServerRight(server, turn) /\ MaxTurns \in Nat
  BY HookAssumption DEF HookInv, HookTypes
<1>2. t <= turn /\ t \in Nat \ {0} /\ turn \in Nat
  <2>1. ~(t > turn)
    BY <1>1 DEF ServerRight
  <2>2. t \in Nat \ {0} /\ turn \in Nat
    BY <1>1 DEF Turns
  <2> QED
    BY <2>1, <2>2
<1>3. turn > 0 /\ turn \in Turns
  BY <1>1, <1>2 DEF Turns
<1>4. t # turn => t \in 1..(turn - 1)
  BY <1>2
<1> QED
  BY <1>1, <1>2, <1>3, <1>4 DEF ServerRight

(* One turn's record changes: what that asks of the others. *)
LEMMA ServerChanges ==
  ASSUME HookInv, NEW t \in Turns, server[t].pc # "none", server[t].pc # "over",
         NEW r \in ServerRecords, server' = [server EXCEPT ![t] = r], UNCHANGED turn,
         r.pc \in {"streaming", "over"}, r.alone = server[t].alone, r.text \in Seq({t}),
         r.pc = "streaming" => r.asks \in MessageIds
  PROVE  server' \in [Turns -> ServerRecords] /\ ServerRight(server', turn) /\ Begun(rows, server')
<1>1. server \in [Turns -> ServerRecords] /\ ServerRight(server, turn)
  BY DEF HookInv, HookTypes
<1>2. server' \in [Turns -> ServerRecords] /\ server'[t] = r
      /\ \A u \in Turns : u # t => server'[u] = server[u]
  BY <1>1
<1>3. t <= turn /\ turn \in Turns
  BY ServerFacts
<1>4. ASSUME NEW u \in Turns
      PROVE  /\ u > turn <=> server'[u].pc = "none"
             /\ server'[u].text \in Seq({u})
             /\ server'[u].pc = "asked" =>
                  /\ server'[u].text = <<>>
                  /\ server'[u].intent \in {"send", "edit", "regenerate"}
                  /\ IF server'[u].intent = "send" THEN server'[u].target = None
                     ELSE server'[u].target \in MessageIds
             /\ server'[u].pc = "streaming" => server'[u].asks \in MessageIds
  <2>1. CASE u = t
    BY <1>2, <1>3, <2>1 DEF Turns
  <2>2. CASE u # t
    BY <1>1, <1>2, <2>2 DEF ServerRight
  <2> QED
    BY <2>1, <2>2
<1>5. ASSUME turn > 0, server'[turn].alone, NEW u \in 1..(turn - 1) PROVE server'[u].pc = "over"
  <2>0. u \in Turns
    BY <1>3, HookAssumption DEF Turns
  <2>1. server[turn].alone
    BY <1>2, <1>3, <1>5
  <2>2. server[u].pc = "over"
    BY <1>1, <1>5, <2>1 DEF ServerRight
  <2> QED
    BY <1>2, <2>0, <2>2
<1>6. ServerRight(server', turn)
  BY <1>4, <1>5 DEF ServerRight
<1>7. Begun(rows, server')
  <2>1. ASSUME NEW i \in DOMAIN rows PROVE server'[rows[i].id[3]].pc \in {"streaming", "over"}
    <3>1. rows[i].id[3] \in Turns /\ server[rows[i].id[3]].pc \in {"streaming", "over"}
      BY MessageFields DEF HookInv, HookTypes, Begun, MessageIds
    <3> QED
      BY <1>2, <3>1
  <2> QED
    BY <2>1 DEF Begun
<1> QED
  BY <1>2, <1>6, <1>7

(* What reaches the browser: an event more of the turn that listens, or none. *)
LEMMA Emitted ==
  ASSUME HookInv, NEW t \in Turns, NEW e \in Events, Emit(t, <<e>>)
  PROVE  /\ wire' \in Seq(Events)
         /\ t # turn \/ closing # "none" => wire' = wire
         /\ t = turn /\ closing = "none" =>
              /\ Len(wire) \in Nat /\ Len(wire') = Len(wire) + 1 /\ wire'[Len(wire) + 1] = e
              /\ DOMAIN wire = 1..Len(wire) /\ DOMAIN wire' = 1..(Len(wire) + 1)
              /\ \A i \in DOMAIN wire : wire'[i] = wire[i]
<1>1. wire \in Seq(Events)
  BY DEF HookInv, HookTypes
<1>2. CASE t = turn /\ closing = "none"
  <2> DEFINE T == Events
             one == <<e>>
  <2>1. e \in T /\ wire \in Seq(T) /\ one = <<e>>
    BY <1>1
  <2> HIDE DEF T, one
  <2>2. one \in Seq(T) /\ Len(one) = 1 /\ one[1] = e
    BY <2>1
  <2>3. /\ wire \o one \in Seq(T) /\ Len(wire \o one) = Len(wire) + 1 /\ Len(wire) \in Nat
        /\ \A i \in 1..Len(wire) + 1 : (wire \o one)[i] = IF i <= Len(wire) THEN wire[i] ELSE one[i - Len(wire)]
    BY <2>1, <2>2, ConcatProperties
  <2>4. wire' = wire \o one
    BY <1>2, <2>1 DEF Emit
  <2>5. DOMAIN wire = 1..Len(wire) /\ DOMAIN wire' = 1..(Len(wire) + 1)
    BY <2>1, <2>3, <2>4
  <2>6. wire'[Len(wire) + 1] = e
    BY <2>2, <2>3, <2>4
  <2>7. \A i \in 1..Len(wire) : wire'[i] = wire[i]
    BY <2>3, <2>4
  <2> QED
    BY <1>2, <2>3, <2>4, <2>5, <2>6, <2>7 DEF T
<1>3. CASE ~(t = turn /\ closing = "none")
  BY <1>1, <1>3 DEF Emit
<1> QED
  BY <1>2, <1>3

(* A step on an earlier turn, which the last one does not see. *)
LEMMA EarlierTurn ==
  ASSUME HookInv, NEW t \in Turns, t # turn, server[t].pc # "none", server[t].pc # "over",
         NEW r \in ServerRecords, server' = [server EXCEPT ![t] = r], wire' = wire,
         r.pc \in {"streaming", "over"}, r.alone = server[t].alone, r.text \in Seq({t}),
         r.pc = "streaming" => r.asks \in MessageIds,
         rows' \in Lists, FromServer(rows', turn), Begun(rows', server'),
         UNCHANGED <<data, shown, status, turn, answer, pending, closing, fetch, final, extra>>
  PROVE  HookInv'
<1>1. server' \in [Turns -> ServerRecords] /\ ServerRight(server', turn)
  BY ServerChanges
<1>2. server'[turn] = server[turn] /\ ~server[turn].alone
  BY ServerFacts DEF HookInv, HookTypes
<1>3. HookTypes'
  BY <1>1 DEF HookInv, HookTypes
<1>4. AnswerRight(server'[turn], rows', shown, fetch, wire, status, turn, final)
  BY <1>2 DEF AnswerRight
<1> QED
  BY <1>1, <1>2, <1>3, <1>4, Primed DEF HookInv

(* A step on the last turn. *)
LEMMA LastTurnMoves ==
  ASSUME HookInv, server[turn].pc # "none", server[turn].pc # "over", turn \in Turns,
         NEW r \in ServerRecords, server' = [server EXCEPT ![turn] = r],
         wire' \in Seq(Events),
         r.pc \in {"streaming", "over"}, r.alone = server[turn].alone, r.text \in Seq({turn}),
         r.pc = "streaming" => r.asks \in MessageIds,
         rows' \in Lists, FromServer(rows', turn), Begun(rows', server'),
         status # "idle" => TurnRight(r, wire', shown, status, turn, answer, pending, closing, final),
         r.alone => /\ r.pc = "streaming" /\ status # "idle" => r.asks \in Ids(rows')
                    /\ status # "idle" /\ (\E i \in DOMAIN wire' : wire'[i].type = "done") => Whole(rows', r),
         UNCHANGED <<data, shown, status, turn, answer, pending, closing, fetch, final, extra>>
  PROVE  HookInv'
<1>1. server' \in [Turns -> ServerRecords] /\ ServerRight(server', turn)
  BY ServerChanges
<1>2. server'[turn] = r
  BY DEF HookInv, HookTypes
<1>3. HookTypes'
  BY <1>1 DEF HookInv, HookTypes
<1>4. final = None
  BY DEF HookInv, Finished
<1>5. AnswerRight(r, rows', shown, fetch, wire', status, turn, final)
  BY <1>4 DEF AnswerRight
<1>6. Finished(r, status, turn, answer, final)
  BY <1>4 DEF Finished
<1> QED
  BY <1>1, <1>2, <1>3, <1>5, <1>6, Primed DEF HookInv

(* The steps of the route. *)
LEMMA RefuseStep ==
  ASSUME HookInv, NEW t \in Turns, Refuse(t)
  PROVE  HookInv'
<1>1. PICK old \in ServerRecords : server[t] = old /\ old.pc = "asked"
  BY DEF HookInv, HookTypes, Refuse
<1> DEFINE r == [old EXCEPT !.pc = "over"]
           e == [type |-> "error"]
<1>2. r \in ServerRecords /\ r.pc = "over" /\ r.alone = old.alone /\ r.text = old.text
  BY DEF ServerRecords
<1>3. /\ server' = [server EXCEPT ![t] = r] /\ Emit(t, <<e>>)
      /\ UNCHANGED <<rows, data, shown, status, turn, answer, pending, closing, fetch, final, extra>>
  BY <1>1 DEF Refuse
<1>4. e \in Events /\ e.type = "error"
  BY DEF Events, Refusals
<1> HIDE DEF e, r
<1>5. /\ wire' \in Seq(Events)
      /\ t # turn \/ closing # "none" => wire' = wire
      /\ t = turn /\ closing = "none" =>
              /\ Len(wire) \in Nat /\ Len(wire') = Len(wire) + 1 /\ wire'[Len(wire) + 1] = e
              /\ DOMAIN wire = 1..Len(wire) /\ DOMAIN wire' = 1..(Len(wire) + 1)
              /\ \A i \in DOMAIN wire : wire'[i] = wire[i]
  BY <1>3, <1>4, Emitted
<1>6. r.text \in Seq({t}) /\ rows \in Lists /\ FromServer(rows, turn)
  BY <1>1, <1>2 DEF HookInv, HookTypes, ServerRight
<1>7. Begun(rows, server')
  BY <1>1, <1>2, <1>3, <1>6, ServerChanges
<1>8. turn \in Turns
  BY <1>1, ServerFacts
<1>9. CASE t # turn
  BY <1>1, <1>2, <1>3, <1>5, <1>6, <1>7, <1>9, EarlierTurn
<1>10. CASE t = turn
  <2>1. ASSUME status # "idle"
        PROVE  /\ TurnRight(r, wire', shown, status, turn, answer, pending, closing, final)
               /\ \A i \in DOMAIN wire' : wire'[i].type # "done"
    <3>1. TurnRight(old, wire, shown, status, turn, answer, pending, closing, final)
      BY <1>1, <1>10, <2>1 DEF HookInv
    <3>2. wire = <<>> /\ status = "submitting" /\ turn > 0
      BY <1>1, <3>1 DEF TurnRight, AskedRight
    <3>3. \A i \in DOMAIN wire' : i = 1 /\ i = Len(wire') /\ wire'[i] = e
      <4>1. Len(wire) = 0 /\ (wire' = wire => DOMAIN wire' = {})
        BY <3>2
      <4>2. CASE closing = "none"
        BY <1>5, <1>10, <4>1, <4>2
      <4>3. CASE closing # "none"
        BY <1>5, <4>1, <4>3
      <4> QED
        BY <4>2, <4>3
    <3>4. WireRight(r, wire', shown, status, turn)
      BY <1>2, <1>4, <3>3 DEF WireRight
    <3>5. wire' # <<>> => wire'[1] = e
      BY <1>5, <3>3
    <3>6. SubmittingRight(r, wire', status, pending, closing, final)
      BY <1>2, <1>4, <3>1, <3>5 DEF TurnRight, SubmittingRight
    <3>7. AskedRight(r, wire', shown, status) /\ StreamingRight(r, wire', shown, status, turn, answer, pending, closing, final)
      BY <1>2, <3>2 DEF AskedRight, StreamingRight
    <3> QED
      BY <1>4, <3>1, <3>2, <3>3, <3>4, <3>6, <3>7 DEF TurnRight
  <2> QED
    BY <1>1, <1>2, <1>3, <1>5, <1>6, <1>7, <1>8, <1>10, <2>1, LastTurnMoves
<1> QED
  BY <1>9, <1>10

(* An event of a turn whose answer is arriving: there was no end before it. *)
LEMMA MoreOnWire ==
  ASSUME HookInv, turn \in Turns, status # "idle", server[turn].pc = "streaming",
         NEW e \in Events, Emit(turn, <<e>>), e.type # "meta",
         NEW r \in ServerRecords, r.asks = server[turn].asks,
         e.type = "delta" => e.text = <<turn>>,
         e.type \in {"done", "error"} => r.pc = "over",
         e.type = "done" => e.text = r.text
  PROVE  /\ WireRight(r, wire', shown, status, turn)
         /\ \A i \in DOMAIN wire' : wire'[i].type = "done" => e.type = "done"
         /\ status = "submitting" /\ wire' # <<>> /\ closing = "none" => wire'[1].type \in {"meta", "error"}
<1> DEFINE s == server[turn]
<1>1. TurnRight(s, wire, shown, status, turn, answer, pending, closing, final)
  BY DEF HookInv
<1>2. wire \in Seq(Events) /\ s.text \in Texts
  BY LastTurn DEF HookInv, HookTypes, ServerRecords
<1>3. /\ wire' \in Seq(Events)
      /\ closing # "none" => wire' = wire
      /\ closing = "none" =>
           /\ Len(wire) \in Nat /\ Len(wire') = Len(wire) + 1 /\ wire'[Len(wire) + 1] = e
           /\ DOMAIN wire = 1..Len(wire) /\ DOMAIN wire' = 1..(Len(wire) + 1)
           /\ \A i \in DOMAIN wire : wire'[i] = wire[i]
  BY Emitted
<1>4. ASSUME NEW i \in DOMAIN wire
      PROVE  /\ wire[i].type = "meta" => i = 1 /\ MetaRight(wire[i], r, shown, status, turn)
             /\ wire[i].type = "delta" => wire[i].text = <<turn>>
             /\ wire[i].type \notin {"done", "error"}
  BY <1>1 DEF TurnRight, WireRight, MetaRight
<1>5. ASSUME NEW i \in DOMAIN wire'
      PROVE  /\ wire'[i].type = "meta" => i = 1 /\ MetaRight(wire'[i], r, shown, status, turn)
             /\ wire'[i].type = "delta" => wire'[i].text = <<turn>>
             /\ wire'[i].type \in {"done", "error"} => i = Len(wire') /\ r.pc = "over"
             /\ wire'[i].type = "done" => wire'[i].text = r.text /\ e.type = "done"
  <2>1. CASE closing # "none"
    BY <1>3, <1>4, <2>1
  <2>2. CASE closing = "none"
    <3>1. i = Len(wire) + 1 \/ i \in DOMAIN wire
      BY <1>3, <2>2
    <3>2. CASE i \in DOMAIN wire
      BY <1>3, <1>4, <2>2, <3>2
    <3>3. CASE i = Len(wire) + 1
      BY <1>3, <2>2, <3>3
    <3> QED
      BY <3>1, <3>2, <3>3
  <2> QED
    BY <2>1, <2>2
<1>6. ASSUME status = "submitting", closing = "none" PROVE wire'[1].type \in {"meta", "error"}
  <2>1. Len(s.text) \in Nat
    BY <1>2 DEF Texts
  <2>2. Len(wire) = 1 + Len(s.text)
    BY <1>1, <1>6 DEF TurnRight, SubmittingRight
  <2>3. 1 \in DOMAIN wire /\ wire # <<>>
    BY <1>2, <1>3, <1>6, <2>1, <2>2
  <2>4. wire[1].type \in {"meta", "error"}
    BY <1>1, <1>6, <2>3 DEF TurnRight, SubmittingRight
  <2> QED
    BY <1>3, <1>6, <2>3, <2>4
<1> QED
  BY <1>5, <1>6 DEF WireRight

LEMMA PieceStep ==
  ASSUME HookInv, NEW t \in Turns, Piece(t)
  PROVE  HookInv'
<1>1. PICK old \in ServerRecords : server[t] = old /\ old.pc = "streaming"
  BY DEF HookInv, HookTypes, Piece
<1> DEFINE more == Append(old.text, t)
           r == [old EXCEPT !.text = more]
           e == [type |-> "delta", text |-> <<t>>]
<1>2. old.text \in Seq({t}) /\ old.text \in Texts /\ rows \in Lists /\ FromServer(rows, turn) /\ old.asks \in MessageIds
  BY <1>1 DEF HookInv, HookTypes, ServerRight, ServerRecords
<1>3. more \in Seq({t}) /\ more \in Texts /\ Len(more) = Len(old.text) + 1 /\ Len(old.text) \in Nat
  <2>1. Append(old.text, t) \in Seq({t}) /\ Len(Append(old.text, t)) = Len(old.text) + 1
    BY <1>2, AppendProperties
  <2>2. Append(old.text, t) \in Seq(Turns)
    BY <1>2, AppendProperties DEF Texts
  <2> QED
    BY <1>2, <2>1, <2>2 DEF Texts
<1>4. server' = [server EXCEPT ![t] = r] /\ Emit(t, <<e>>)
      /\ UNCHANGED <<rows, data, shown, status, turn, answer, pending, closing, fetch, final, extra>>
  <2>1. server' = [server EXCEPT ![t].text = Append(@, t)]
    BY DEF Piece
  <2> QED
    BY <1>1, <2>1 DEF Piece
<1> HIDE DEF more
<1>5. r \in ServerRecords /\ r.pc = "streaming" /\ r.alone = old.alone /\ r.text = more /\ r.asks = old.asks
  BY <1>1, <1>3 DEF ServerRecords
<1>6. e \in Events /\ e.type = "delta" /\ e.text = <<t>>
  BY DEF Events, Said, Texts
<1> HIDE DEF e, r
<1>7. Begun(rows, server')
  BY <1>1, <1>2, <1>3, <1>4, <1>5, ServerChanges
<1>8. /\ wire' \in Seq(Events)
      /\ t # turn \/ closing # "none" => wire' = wire
      /\ t = turn /\ closing = "none" => Len(wire) \in Nat /\ Len(wire') = Len(wire) + 1
  BY <1>4, <1>6, Emitted
<1>9. turn \in Turns /\ turn > 0
  BY <1>1, ServerFacts
<1>10. CASE t # turn
  BY <1>1, <1>2, <1>3, <1>4, <1>5, <1>7, <1>8, <1>10, EarlierTurn
<1>11. CASE t = turn
  <2>1. ASSUME status # "idle"
        PROVE  /\ TurnRight(r, wire', shown, status, turn, answer, pending, closing, final)
               /\ \A i \in DOMAIN wire' : wire'[i].type # "done"
    <3>1. TurnRight(old, wire, shown, status, turn, answer, pending, closing, final)
      BY <1>1, <1>11, <2>1 DEF HookInv
    <3>2. /\ WireRight(r, wire', shown, status, turn)
          /\ \A i \in DOMAIN wire' : wire'[i].type # "done"
          /\ status = "submitting" /\ wire' # <<>> /\ closing = "none" => wire'[1].type \in {"meta", "error"}
      BY <1>1, <1>4, <1>5, <1>6, <1>9, <1>11, <2>1, MoreOnWire
    <3>3. SubmittingRight(r, wire', status, pending, closing, final)
      BY <1>3, <1>5, <1>8, <1>11, <1>1, <3>1, <3>2 DEF TurnRight, SubmittingRight
    <3>4. StreamingRight(r, wire', shown, status, turn, answer, pending, closing, final)
      <4> SUFFICES ASSUME status = "streaming"
          PROVE  StreamingRight(r, wire', shown, "streaming", turn, answer, pending, closing, final)
        BY DEF StreamingRight
      <4>1. StreamingRight(old, wire, shown, "streaming", turn, answer, pending, closing, final)
        BY <3>1 DEF TurnRight
      <4>2. ASSUME closing = "none", NEW i \in DOMAIN shown, shown[i].id = answer
            PROVE  /\ pending \in Seq({turn}) /\ shown[i].text \in Seq({turn})
                   /\ Len(shown[i].text) + Len(pending) + Len(wire') = Len(r.text)
        <5> DEFINE a == Len(shown[i].text)
                   b == Len(pending)
                   c == Len(wire)
        <5>1. pending \in Seq({turn}) /\ shown[i].text \in Seq({turn}) /\ a + b + c = Len(old.text)
          BY <1>1, <4>1, <4>2 DEF StreamingRight
        <5>2. a \in Nat /\ b \in Nat /\ c \in Nat /\ Len(wire') = c + 1
          BY <1>8, <1>11, <4>2, <5>1
        <5> HIDE DEF a, b, c
        <5>3. a + b + (c + 1) = Len(old.text) + 1
          BY <5>1, <5>2
        <5>4. a + b + Len(wire') = Len(r.text)
          BY <1>3, <1>5, <5>2, <5>3
        <5> QED
          BY <5>1, <5>4 DEF a, b
      <4>3. final # None => FALSE
        BY <1>1, <1>11 DEF HookInv, Finished
      <4>4. closing = "none" => pending \in Seq({turn})
        BY <1>1, <4>1 DEF StreamingRight
      <4> QED
        BY <1>1, <1>5, <4>1, <4>2, <4>3, <4>4 DEF StreamingRight
    <3> QED
      BY <1>5, <3>1, <3>2, <3>3, <3>4 DEF TurnRight, AskedRight
  <2>2. r.alone /\ status # "idle" => r.asks \in Ids(rows)
    BY <1>1, <1>5, <1>9, <1>11 DEF HookInv, AnswerRight
  <2> QED
    BY <1>1, <1>2, <1>3, <1>4, <1>5, <1>7, <1>8, <1>9, <1>11, <2>1, <2>2, LastTurnMoves
<1> QED
  BY <1>10, <1>11

LEMMA FinalizeStep ==
  ASSUME HookInv, NEW t \in Turns, NEW type \in {"done", "error"}, Finalize(t, type)
  PROVE  HookInv'
<1>1. PICK old \in ServerRecords : server[t] = old /\ old.pc = "streaming"
  BY DEF HookInv, HookTypes, Finalize
<1> DEFINE r == [old EXCEPT !.pc = "over"]
           e == [type |-> type, text |-> old.text]
           said == WithText(rows, old.asks, old.text)
           failed == WithError(said, old.asks)
<1>2. old.text \in Seq({t}) /\ old.text \in Texts /\ rows \in Lists /\ FromServer(rows, turn) /\ Begun(rows, server)
  BY <1>1 DEF HookInv, HookTypes, ServerRight, ServerRecords
<1>3. /\ server' = [server EXCEPT ![t] = r] /\ Emit(t, <<e>>)
      /\ rows' = IF type = "error" THEN failed ELSE said
      /\ UNCHANGED <<data, shown, status, turn, answer, pending, closing, fetch, final, extra>>
  <2>1. server' = [server EXCEPT ![t].pc = "over"]
    BY DEF Finalize
  <2> QED
    BY <1>1, <2>1 DEF Finalize
<1>4. r \in ServerRecords /\ r.pc = "over" /\ r.alone = old.alone /\ r.text = old.text /\ r.asks = old.asks
  BY <1>1 DEF ServerRecords
<1>5. e \in Events /\ e.type = type /\ e.text = old.text
  BY <1>2 DEF Events, Said
<1>6. /\ said \in Lists /\ DOMAIN said = DOMAIN rows
      /\ \A i \in DOMAIN rows : /\ said[i].id = rows[i].id
                                /\ said[i].text = IF rows[i].id = old.asks THEN old.text ELSE rows[i].text
                                /\ rows[i].id = old.asks => ~said[i].error
  BY <1>2, WithTextFacts
<1> HIDE DEF said
<1>7. failed \in Lists /\ DOMAIN failed = DOMAIN said /\ \A i \in DOMAIN said : failed[i].id = said[i].id
  BY <1>6, WithErrorFacts
<1> HIDE DEF e, r, failed
<1>8. rows' \in Lists /\ DOMAIN rows' = DOMAIN rows /\ \A i \in DOMAIN rows : rows'[i].id = rows[i].id
  BY <1>3, <1>6, <1>7
<1>9. Begun(rows, server')
  BY <1>1, <1>2, <1>3, <1>4, ServerChanges
<1>10. FromServer(rows', turn) /\ Begun(rows', server')
  BY <1>2, <1>8, <1>9 DEF FromServer, Begun
<1>11. wire' \in Seq(Events) /\ (t # turn => wire' = wire)
  BY <1>3, <1>5, Emitted
<1>12. turn \in Turns /\ turn > 0
  BY <1>1, ServerFacts
<1>13. CASE t # turn
  BY <1>1, <1>2, <1>3, <1>4, <1>8, <1>10, <1>11, <1>13, EarlierTurn
<1>14. CASE t = turn
  <2>1. ASSUME status # "idle"
        PROVE  /\ TurnRight(r, wire', shown, status, turn, answer, pending, closing, final)
               /\ \A i \in DOMAIN wire' : wire'[i].type = "done" => type = "done"
    <3>1. TurnRight(old, wire, shown, status, turn, answer, pending, closing, final)
      BY <1>1, <1>14, <2>1 DEF HookInv
    <3>2. /\ WireRight(r, wire', shown, status, turn)
          /\ \A i \in DOMAIN wire' : wire'[i].type = "done" => type = "done"
          /\ status = "submitting" /\ wire' # <<>> /\ closing = "none" => wire'[1].type \in {"meta", "error"}
      BY <1>1, <1>3, <1>4, <1>5, <1>12, <1>14, <2>1, MoreOnWire
    <3>3. closing # "none" => wire' = wire
      BY <1>3, <1>5, Emitted
    <3>4. final = None
      BY <1>1, <1>14 DEF HookInv, Finished
    <3>5. SubmittingRight(r, wire', status, pending, closing, final)
      BY <1>4, <3>1, <3>2, <3>3 DEF TurnRight, SubmittingRight
    <3>6. StreamingRight(r, wire', shown, status, turn, answer, pending, closing, final)
      BY <1>1, <1>4, <3>1, <3>4 DEF TurnRight, StreamingRight
    <3> QED
      BY <1>4, <3>1, <3>2, <3>5, <3>6 DEF TurnRight, AskedRight
  <2>2. ASSUME r.alone, status # "idle", type = "done" PROVE Whole(rows', r)
    <3>1. old.asks \in Ids(rows)
      BY <1>1, <1>4, <1>12, <1>14, <2>2 DEF HookInv, AnswerRight
    <3>2. rows' = said
      BY <1>3, <2>2
    <3>3. \A i \in DOMAIN rows' : rows'[i].id = old.asks => rows'[i].text = old.text /\ ~rows'[i].error
      BY <1>6, <3>2
    <3>4. old.asks \in Ids(rows')
      BY <1>8, <3>1 DEF Ids
    <3> QED
      BY <1>4, <3>3, <3>4 DEF Whole
  <2> QED
    BY <1>1, <1>2, <1>3, <1>4, <1>8, <1>10, <1>11, <1>12, <1>14, <2>1, <2>2, LastTurnMoves
<1> QED
  BY <1>13, <1>14

(* A list cut after a message that is rewritten: what an edit and a new answer do to the
   rows and to the screen. *)
LEMMA Rewritten ==
  ASSUME NEW list \in Lists, NEW id, id \in Ids(list), NEW text \in Texts
  PROVE  LET new == WithText(UpTo(list, id), id, text)
         IN /\ new \in Lists /\ DOMAIN new \subseteq DOMAIN list /\ id \in Ids(new)
            /\ Len(new) \in DOMAIN new /\ list[Len(new)].id = id
            /\ \A i \in DOMAIN new :
                 /\ i <= Len(new) /\ new[i].id = list[i].id /\ new[i].role = list[i].role
                 /\ new[i].text = IF list[i].id = id THEN text ELSE list[i].text
                 /\ list[i].id = id => ~new[i].error
                 /\ list[i].id # id => new[i].error = list[i].error
<1> DEFINE cut == UpTo(list, id)
           new == WithText(cut, id, text)
<1>1. /\ cut \in Lists /\ Len(cut) \in DOMAIN cut /\ DOMAIN cut \subseteq DOMAIN list /\ cut[Len(cut)].id = id
      /\ id \in Ids(cut) /\ \A i \in DOMAIN cut : cut[i] = list[i]
  BY UpToFacts
<1> HIDE DEF cut
<1>2. /\ new \in Lists /\ Len(new) = Len(cut) /\ DOMAIN new = DOMAIN cut
      /\ \A i \in DOMAIN cut :
           /\ new[i].id = cut[i].id /\ new[i].role = cut[i].role
           /\ new[i].text = IF cut[i].id = id THEN text ELSE cut[i].text
           /\ cut[i].id = id => ~new[i].error
           /\ cut[i].id # id => new[i].error = cut[i].error
  BY <1>1, WithTextFacts
<1> HIDE DEF new
<1>3. \A i \in DOMAIN new : i <= Len(new)
  BY <1>2, ListDomain
<1>4. id \in Ids(new)
  BY <1>1, <1>2 DEF Ids
<1>5. Len(new) \in DOMAIN new /\ list[Len(new)].id = id
  BY <1>1, <1>2
<1>6. \A i \in DOMAIN new :
        /\ new[i].id = list[i].id /\ new[i].role = list[i].role
        /\ new[i].text = IF list[i].id = id THEN text ELSE list[i].text
        /\ list[i].id = id => ~new[i].error
        /\ list[i].id # id => new[i].error = list[i].error
  BY <1>1, <1>2
<1> QED
  BY <1>1, <1>2, <1>3, <1>4, <1>5, <1>6 DEF new, cut

(* The rows stay the server's when a transaction rewrites or adds one. *)
LEMMA RewrittenRows ==
  ASSUME NEW list \in Lists, NEW id, id \in Ids(list), NEW text \in Texts, NEW n, NEW srv,
         FromServer(list, n), Begun(list, srv)
  PROVE  LET new == WithText(UpTo(list, id), id, text)
         IN new \in Lists /\ FromServer(new, n) /\ Begun(new, srv) /\ id \in Ids(new)
<1> DEFINE new == WithText(UpTo(list, id), id, text)
<1>1. /\ new \in Lists /\ DOMAIN new \subseteq DOMAIN list /\ id \in Ids(new)
      /\ \A i \in DOMAIN new : new[i].id = list[i].id
  BY Rewritten
<1> HIDE DEF new
<1>2. FromServer(new, n) /\ Begun(new, srv)
  BY <1>1 DEF FromServer, Begun
<1> QED
  BY <1>1, <1>2 DEF new

LEMMA AppendedRow ==
  ASSUME NEW list \in Lists, NEW m \in Message, NEW n, NEW srv, FromServer(list, n), Begun(list, srv),
         Given(m.id, n), srv[m.id[3]].pc \in {"streaming", "over"}
  PROVE  LET new == Append(list, m)
         IN new \in Lists /\ FromServer(new, n) /\ Begun(new, srv) /\ m.id \in Ids(new)
<1> DEFINE new == Append(list, m)
<1>1. /\ new \in Lists /\ DOMAIN new = DOMAIN list \cup {Len(list) + 1}
      /\ new[Len(list) + 1] = m /\ \A i \in DOMAIN list : new[i] = list[i]
  BY AppendFacts
<1> HIDE DEF new
<1>2. FromServer(new, n) /\ Begun(new, srv)
  BY <1>1 DEF FromServer, Begun
<1>3. m.id \in Ids(new)
  BY <1>1 DEF Ids
<1> QED
  BY <1>1, <1>2, <1>3 DEF new

LEMMA RowIds ==
  ASSUME NEW t \in Turns, NEW role \in Roles
  PROVE  /\ Row(t, role) \in MessageIds /\ Row(t, role)[1] = "row" /\ Row(t, role)[3] = t
         /\ \A text \in Texts : LET m == [id |-> Row(t, role), role |-> role, text |-> text, error |-> FALSE]
                                IN m \in Message /\ m.id = Row(t, role)
BY DEF Row, MessageIds, Message

(* The rows as a turn finds them and leaves them, and what its meta event names. *)
LEMMA PreparedRows ==
  ASSUME HookInv, NEW t \in Turns, Prepare(t),
         FromServer(rows, turn), Begun(rows, server'), server'[t].pc = "streaming"
  PROVE  LET old == server[t]
             asked == IF old.intent = "send" THEN Row(t, "user") ELSE old.target
             reply == IF old.intent = "regenerate" THEN old.target ELSE Row(t, "assistant")
         IN /\ rows' \in Lists /\ FromServer(rows', turn) /\ Begun(rows', server')
            /\ reply \in Ids(rows') /\ asked \in MessageIds /\ reply \in MessageIds
            /\ Given(asked, turn) /\ Given(reply, turn)
            /\ old.intent # "regenerate" => asked # reply
<1> DEFINE old == server[t]
           asked == IF old.intent = "send" THEN Row(t, "user") ELSE old.target
           reply == IF old.intent = "regenerate" THEN old.target ELSE Row(t, "assistant")
           question == [id |-> Row(t, "user"), role |-> "user", text |-> <<t>>, error |-> FALSE]
           blank == [id |-> Row(t, "assistant"), role |-> "assistant", text |-> <<>>, error |-> FALSE]
<1>1. old.pc = "asked" /\ old.target \in Ids(rows) \cup {None}
  BY DEF Prepare
<1>2. /\ old.intent \in {"send", "edit", "regenerate"} /\ rows \in Lists
      /\ old.intent # "send" => old.target \in MessageIds
  BY <1>1 DEF HookInv, HookTypes, ServerRight
<1>3. <<>> \in Texts /\ <<t>> \in Texts
  BY DEF Texts
<1>4. /\ question \in Message /\ question.id = Row(t, "user") /\ blank \in Message /\ blank.id = Row(t, "assistant")
      /\ Row(t, "user") \in MessageIds /\ Row(t, "user")[1] = "row" /\ Row(t, "user")[3] = t
      /\ Row(t, "assistant") \in MessageIds /\ Row(t, "assistant")[1] = "row" /\ Row(t, "assistant")[3] = t
  BY <1>3, RowIds DEF Roles
<1>5. t <= turn
  BY <1>1, ServerFacts
<1>6. Given(Row(t, "user"), turn) /\ Given(Row(t, "assistant"), turn) /\ Row(t, "user") # Row(t, "assistant")
  BY <1>4, <1>5 DEF Given, Row
<1>7. ASSUME old.intent # "send"
      PROVE  old.target \in Ids(rows) /\ Given(old.target, turn) /\ old.target # Row(t, "assistant")
  <2>1. old.target # None
    BY <1>2, <1>7, HookAssumption DEF MessageIds, Roles, Turns
  <2>2. PICK i \in DOMAIN rows : rows[i].id = old.target
    BY <1>1, <2>1 DEF Ids
  <2>3. Given(old.target, turn)
    BY <2>2 DEF FromServer
  <2>4. server[old.target[3]].pc \in {"streaming", "over"}
    BY <2>2 DEF HookInv, Begun
  <2> QED
    BY <1>1, <1>4, <2>2, <2>3, <2>4 DEF Ids
<1> HIDE DEF question, blank
<1>8. CASE old.intent = "send"
  <2>1. rows' = Append(Append(rows, question), blank)
    BY <1>2, <1>4, <1>8, TwoMore DEF Prepare, question, blank
  <2>2. LET new == Append(rows, question)
        IN new \in Lists /\ FromServer(new, turn) /\ Begun(new, server') /\ question.id \in Ids(new)
    BY <1>2, <1>4, <1>6, AppendedRow
  <2>3. rows' \in Lists /\ FromServer(rows', turn) /\ Begun(rows', server') /\ blank.id \in Ids(rows')
    BY <1>4, <1>6, <2>1, <2>2, AppendedRow
  <2> QED
    BY <1>4, <1>6, <1>8, <2>3
<1>9. CASE old.intent = "edit"
  <2> DEFINE cut == WithText(UpTo(rows, old.target), old.target, <<t>>)
  <2>1. cut \in Lists /\ FromServer(cut, turn) /\ Begun(cut, server')
    BY <1>2, <1>3, <1>7, <1>9, RewrittenRows
  <2>2. rows' = Append(cut, blank)
    BY <1>9 DEF Prepare, blank
  <2> HIDE DEF cut
  <2>3. rows' \in Lists /\ FromServer(rows', turn) /\ Begun(rows', server') /\ blank.id \in Ids(rows')
    BY <1>4, <1>6, <2>1, <2>2, AppendedRow
  <2> QED
    BY <1>2, <1>4, <1>6, <1>7, <1>9, <2>3
<1>10. CASE old.intent = "regenerate"
  <2>1. rows' = WithText(UpTo(rows, old.target), old.target, <<>>)
    BY <1>10 DEF Prepare
  <2>2. rows' \in Lists /\ FromServer(rows', turn) /\ Begun(rows', server') /\ old.target \in Ids(rows')
    BY <1>2, <1>3, <1>7, <1>10, <2>1, RewrittenRows
  <2> QED
    BY <1>2, <1>7, <1>10, <2>2
<1> QED
  BY <1>2, <1>8, <1>9, <1>10

LEMMA PrepareStep ==
  ASSUME HookInv, NEW t \in Turns, Prepare(t)
  PROVE  HookInv'
<1>1. PICK old \in ServerRecords : server[t] = old /\ old.pc = "asked"
  BY DEF HookInv, HookTypes, Prepare
<1> DEFINE asked == IF old.intent = "send" THEN Row(t, "user") ELSE old.target
           reply == IF old.intent = "regenerate" THEN old.target ELSE Row(t, "assistant")
           r == [old EXCEPT !.pc = "streaming", !.asks = reply]
           e == [type |-> "meta", user |-> asked, assistant |-> reply]
<1>2. /\ server' = [server EXCEPT ![t] = r] /\ Emit(t, <<e>>)
      /\ UNCHANGED <<data, shown, status, turn, answer, pending, closing, fetch, final, extra>>
  <2>1. server' = [server EXCEPT ![t].pc = "streaming", ![t].asks = reply]
    BY <1>1 DEF Prepare
  <2> QED
    BY <1>1, <2>1 DEF Prepare
<1>3. /\ ServerRight(server, turn) /\ FromServer(rows, turn)
      /\ old.text = <<>> /\ old.text \in Seq({t})
      /\ old.intent \in {"send", "edit", "regenerate"}
      /\ old.intent # "send" => old.target \in MessageIds
  BY <1>1 DEF HookInv, ServerRight
<1>4. reply \in MessageIds
  BY <1>3, RowIds DEF Roles
<1> HIDE DEF reply
<1>5. r \in ServerRecords /\ r.pc = "streaming" /\ r.alone = old.alone /\ r.text = old.text /\ r.asks = reply
  BY <1>4 DEF ServerRecords
<1> HIDE DEF r
<1>6. Begun(rows, server')
  BY <1>1, <1>2, <1>3, <1>4, <1>5, ServerChanges
<1>7. server'[t].pc = "streaming"
  BY <1>2, <1>5 DEF HookInv, HookTypes
<1>8. /\ rows' \in Lists /\ FromServer(rows', turn) /\ Begun(rows', server')
      /\ reply \in Ids(rows') /\ asked \in MessageIds
      /\ Given(asked, turn) /\ Given(reply, turn)
      /\ old.intent # "regenerate" => asked # reply
  BY <1>1, <1>3, <1>6, <1>7, PreparedRows DEF reply
<1> HIDE DEF asked
<1>9. e \in Events /\ e.type = "meta" /\ e.user = asked /\ e.assistant = reply
  BY <1>4, <1>8 DEF Events, Metas
<1> HIDE DEF e
<1>10. /\ wire' \in Seq(Events)
       /\ t # turn \/ closing # "none" => wire' = wire
       /\ t = turn /\ closing = "none" =>
              /\ Len(wire) \in Nat /\ Len(wire') = Len(wire) + 1 /\ wire'[Len(wire) + 1] = e
              /\ DOMAIN wire = 1..Len(wire) /\ DOMAIN wire' = 1..(Len(wire) + 1)
              /\ \A i \in DOMAIN wire : wire'[i] = wire[i]
  BY <1>2, <1>9, Emitted
<1>11. turn \in Turns /\ turn > 0
  BY <1>1, ServerFacts
<1>12. CASE t # turn
  BY <1>1, <1>2, <1>3, <1>4, <1>5, <1>8, <1>10, <1>12, EarlierTurn
<1>13. CASE t = turn
  <2>1. ASSUME status # "idle"
        PROVE  /\ TurnRight(r, wire', shown, status, turn, answer, pending, closing, final)
               /\ \A i \in DOMAIN wire' : wire'[i].type # "done"
    <3>1. TurnRight(old, wire, shown, status, turn, answer, pending, closing, final)
      BY <1>1, <1>13, <2>1 DEF HookInv
    <3>2. /\ wire = <<>> /\ status = "submitting"
          /\ IF old.intent = "regenerate" THEN old.target[1] = "row" => Empties(shown, old.target)
             ELSE Awaits(shown)
      BY <1>1, <3>1 DEF TurnRight, AskedRight
    <3>3. MetaRight(e, r, shown, status, turn)
      <4>1. old.intent = "regenerate" => Empties(shown, reply)
        BY <1>8, <3>2 DEF Given, reply
      <4>2. old.intent # "regenerate" => reply = Row(turn, "assistant") /\ asked # reply /\ Awaits(shown)
        BY <1>8, <1>13, <3>2 DEF reply
      <4> QED
        BY <1>5, <1>8, <1>9, <3>2, <4>1, <4>2 DEF MetaRight
    <3>4. Len(wire) = 0 /\ (wire' = wire => DOMAIN wire' = {})
      BY <3>2
    <3>5. \A i \in DOMAIN wire' : i = 1 /\ wire'[i] = e
      <4>1. CASE closing = "none"
        BY <1>10, <1>13, <3>4, <4>1
      <4>2. CASE closing # "none"
        BY <1>10, <3>4, <4>2
      <4> QED
        BY <4>1, <4>2
    <3>6. WireRight(r, wire', shown, status, turn)
      BY <1>9, <3>3, <3>5 DEF WireRight
    <3>7. (wire' # <<>> => wire'[1] = e) /\ (closing = "none" => Len(wire') = 1)
      BY <1>10, <1>13, <3>2, <3>4
    <3>8. Len(r.text) = 0
      BY <1>3, <1>5
    <3>9. SubmittingRight(r, wire', status, pending, closing, final)
      BY <1>9, <3>1, <3>7, <3>8 DEF TurnRight, SubmittingRight
    <3>10. AskedRight(r, wire', shown, status) /\ StreamingRight(r, wire', shown, status, turn, answer, pending, closing, final)
      BY <1>5, <3>2 DEF AskedRight, StreamingRight
    <3> QED
      BY <1>9, <1>11, <3>1, <3>5, <3>6, <3>9, <3>10 DEF TurnRight
  <2> QED
    BY <1>1, <1>2, <1>3, <1>4, <1>5, <1>8, <1>10, <1>11, <1>13, <2>1, LastTurnMoves
<1> QED
  BY <1>12, <1>13

(* What the user does. *)
LEMMA TurnBegins ==
  ASSUME HookInv, status = "idle", NEW intent \in {"send", "edit", "regenerate"}, NEW target, NEW list \in Lists,
         runTurn(intent, target, list), OnScreen(list, turn),
         IF intent = "send" THEN target = None ELSE target \in MessageIds,
         IF intent = "regenerate" THEN target[1] = "row" => Empties(list, target) ELSE Awaits(list)
  PROVE  HookInv'
<1> DEFINE alone == \A t \in 1..turn : server[t].pc = "over"
           r == [Resting EXCEPT !.pc = "asked", !.intent = intent, !.target = target, !.alone = alone]
<1>1. /\ turn' = turn + 1 /\ turn < MaxTurns /\ status' = "submitting" /\ answer' = None /\ pending' = <<>>
      /\ closing' = "none" /\ wire' = <<>> /\ final' = None /\ shown' = list
      /\ server' = [server EXCEPT ![turn + 1] = r] /\ UNCHANGED <<rows, data, fetch, extra>>
  BY DEF runTurn
<1>2. turn \in Nat /\ turn + 1 \in Turns /\ server \in [Turns -> ServerRecords] /\ ServerRight(server, turn)
  BY <1>1, HookAssumption DEF HookInv, HookTypes, Turns
<1>3. /\ Resting \in ServerRecords /\ Resting.text = <<>> /\ \A t : <<>> \in Seq({t})
  BY EmptySeq DEF Resting, ServerRecords, Texts
<1>4. alone \in BOOLEAN /\ (alone => \A t \in 1..turn : server[t].pc = "over")
  OBVIOUS
<1> HIDE DEF alone
<1>5. <<>> \in Texts /\ \A t : <<>> \in Seq({t})
  BY EmptySeq DEF Texts
<1>6. /\ r \in ServerRecords /\ r.pc = "asked" /\ r.intent = intent /\ r.target = target /\ r.text = <<>>
      /\ r.alone = alone
  <2>1. target \in MessageIds \cup {None}
    BY Zenon
  <2>2. intent \in {None, "send", "edit", "regenerate"}
    OBVIOUS
  <2>3. PICK old \in ServerRecords : old = Resting
    BY <1>3
  <2>4. r = [old EXCEPT !.pc = "asked", !.intent = intent, !.target = target, !.alone = alone]
    BY <2>3
  <2> HIDE DEF r
  <2>5. r \in ServerRecords
    BY <1>4, <2>1, <2>2, <2>4 DEF ServerRecords
  <2> QED
    BY <1>3, <2>3, <2>4, <2>5 DEF ServerRecords
<1> HIDE DEF r
<1>7. /\ server' \in [Turns -> ServerRecords] /\ server'[turn + 1] = r
      /\ \A t \in Turns : t # turn + 1 => server'[t] = server[t]
  BY <1>1, <1>2, <1>6
<1>8. HookTypes'
  BY <1>1, <1>2, <1>5, <1>7, EmptySeq DEF HookInv, HookTypes, Turns
<1>9. ServerRight(server', turn + 1)
  <2>1. ASSUME NEW t \in Turns
        PROVE  /\ t > turn + 1 <=> server'[t].pc = "none"
               /\ server'[t].text \in Seq({t})
               /\ server'[t].pc = "asked" =>
                    /\ server'[t].text = <<>>
                    /\ server'[t].intent \in {"send", "edit", "regenerate"}
                    /\ IF server'[t].intent = "send" THEN server'[t].target = None
                       ELSE server'[t].target \in MessageIds
               /\ server'[t].pc = "streaming" => server'[t].asks \in MessageIds
    <3>1. CASE t = turn + 1
      <4>1. server'[t] = r
        BY <1>7, <3>1
      <4>2. ~(t > turn + 1)
        BY <1>2, <3>1
      <4> QED
        BY <1>5, <1>6, <4>1, <4>2
    <3>2. CASE t # turn + 1
      <4>1. t > turn + 1 <=> t > turn
        BY <1>2, <3>2 DEF Turns
      <4>2. server'[t] = server[t]
        BY <1>7, <3>2
      <4> DEFINE old == server[t]
      <4>3. /\ t > turn <=> old.pc = "none"
            /\ old.text \in Seq({t})
            /\ old.pc = "asked" =>
                 /\ old.text = <<>>
                 /\ old.intent \in {"send", "edit", "regenerate"}
                 /\ IF old.intent = "send" THEN old.target = None ELSE old.target \in MessageIds
            /\ old.pc = "streaming" => old.asks \in MessageIds
        BY <1>2 DEF ServerRight
      <4> HIDE DEF old
      <4>4. server'[t] = old
        BY <4>2 DEF old
      <4> QED
        BY <4>1, <4>3, <4>4
    <3> QED
      BY <3>1, <3>2
  <2>2. PICK m \in Turns : m = turn + 1
    BY <1>2
  <2>3. ASSUME m > 0 /\ server'[m].alone, NEW t \in 1..(m - 1) PROVE server'[t].pc = "over"
    <3>1. t \in 1..turn /\ t \in Turns /\ t # turn + 1
      BY <1>2, <2>2, HookAssumption DEF Turns
    <3>2. alone
      BY <1>6, <1>7, <2>2, <2>3
    <3> QED
      BY <1>4, <1>7, <3>1, <3>2
  <2>4. ASSUME NEW t \in Turns
        PROVE  /\ t > m <=> server'[t].pc = "none"
               /\ server'[t].text \in Seq({t})
               /\ server'[t].pc = "asked" =>
                    /\ server'[t].text = <<>>
                    /\ server'[t].intent \in {"send", "edit", "regenerate"}
                    /\ IF server'[t].intent = "send" THEN server'[t].target = None
                       ELSE server'[t].target \in MessageIds
               /\ server'[t].pc = "streaming" => server'[t].asks \in MessageIds
    BY <2>1, <2>2
  <2>5. ServerRight(server', m)
    BY <2>3, <2>4 DEF ServerRight
  <2> QED
    BY <2>2, <2>5
<1>10. /\ rows \in Lists /\ data \in Lists /\ fetch.rows \in Lists
       /\ FromServer(rows, turn) /\ FromServer(data, turn) /\ FromServer(fetch.rows, turn) /\ Begun(rows, server)
  BY DEF HookInv, HookTypes
<1>11. \A l \in Lists : FromServer(l, turn) => FromServer(l, turn + 1)
  <2>1. \A l \in Lists : \A i \in DOMAIN l : l[i].id[3] \in Nat
    BY MessageFields DEF MessageIds, Turns
  <2> QED
    BY <1>2, <2>1 DEF FromServer, Given
<1>12. Begun(rows, server')
  <2>1. ASSUME NEW i \in DOMAIN rows PROVE server'[rows[i].id[3]].pc \in {"streaming", "over"}
    <3>1. rows[i].id[3] \in Turns /\ rows[i].id[3] <= turn
      BY <1>10, MessageFields DEF FromServer, Given, MessageIds
    <3>2. rows[i].id[3] # turn + 1
      BY <1>2, <3>1 DEF Turns
    <3>3. server[rows[i].id[3]].pc \in {"streaming", "over"}
      BY <1>10 DEF Begun
    <3> QED
      BY <1>7, <3>1, <3>2, <3>3
  <2> QED
    BY <2>1 DEF Begun
<1>13. Newest(status', turn') = turn
  BY <1>1, <1>2 DEF Newest
<1>14. TurnRight(r, <<>>, list, "submitting", turn + 1, None, <<>>, "none", None)
  BY <1>2, <1>6 DEF TurnRight, AskedRight, WireRight, SubmittingRight, StreamingRight
<1>15. AnswerRight(r, rows, list, fetch, <<>>, "submitting", turn + 1, None)
  BY <1>6 DEF AnswerRight
<1>16. Finished(r, "submitting", turn + 1, None, None)
  BY DEF Finished
<1> QED
  BY <1>1, <1>7, <1>8, <1>9, <1>10, <1>11, <1>12, <1>13, <1>14, <1>15, <1>16, Primed

(* What the hook shows before the server has answered. *)
LEMMA Blank ==
  ASSUME NEW t \in Turns, NEW role \in Roles, NEW text \in Texts
  PROVE  LET m == emptyMessage(t, role, text)
         IN m \in Message /\ m.id[1] = "temp" /\ m.id[2] = role /\ m.role = role /\ m.text = text /\ ~m.error
BY DEF emptyMessage, Message, MessageIds

LEMMA OneMoreOnScreen ==
  ASSUME NEW list \in Lists, NEW n, OnScreen(list, n), NEW m \in Message, Temporary(m), m.id[2] = m.role,
         m.role = "assistant" => m.text = <<>> /\ ~m.error
  PROVE  LET new == Append(list, m)
         IN new \in Lists /\ OnScreen(new, n) /\ (m.role = "assistant" => Awaits(new))
<1> DEFINE new == Append(list, m)
<1>1. /\ new \in Lists /\ DOMAIN new = DOMAIN list \cup {Len(list) + 1}
      /\ new[Len(list) + 1] = m /\ \A i \in DOMAIN list : new[i] = list[i]
  BY AppendFacts
<1>2. Len(list) \in Nat /\ DOMAIN list = 1..Len(list)
  BY ListDomain
<1> HIDE DEF new
<1>3. ASSUME NEW i \in DOMAIN new, Temporary(new[i])
      PROVE  /\ new[i].id[2] = new[i].role
             /\ new[i].role = "assistant" => new[i].text = <<>> /\ ~new[i].error
             /\ \A j \in DOMAIN new : i <= j => Temporary(new[j])
  <2>1. CASE i = Len(list) + 1
    <3>1. \A j \in DOMAIN new : i <= j => j = i
      BY <1>1, <1>2, <2>1
    <3> QED
      BY <1>1, <2>1, <3>1
  <2>2. CASE i \in DOMAIN list
    BY <1>1, <1>3, <2>2 DEF OnScreen
  <2> QED
    BY <1>1, <2>1, <2>2
<1>4. ASSUME NEW i \in DOMAIN new, ~Temporary(new[i]) PROVE Given(new[i].id, n)
  BY <1>1, <1>4 DEF OnScreen
<1>5. OnScreen(new, n)
  BY <1>3, <1>4 DEF OnScreen
<1>6. m.role = "assistant" => Awaits(new)
  BY <1>1 DEF Awaits
<1> QED
  BY <1>1, <1>5, <1>6 DEF new

LEMMA RewrittenScreen ==
  ASSUME NEW list \in Lists, NEW n, OnScreen(list, n), NEW i \in DOMAIN list, NEW text \in Texts,
         text = <<>> \/ list[i].role = "user"
  PROVE  LET id == list[i].id
             new == WithText(UpTo(list, id), id, text)
         IN /\ id \in MessageIds /\ new \in Lists /\ OnScreen(new, n)
            /\ id[1] = "row" /\ text = <<>> => Empties(new, id)
<1> DEFINE id == list[i].id
           new == WithText(UpTo(list, id), id, text)
           last == Len(new)
<1>1. id \in Ids(list) /\ id \in MessageIds
  BY MessageFields DEF Ids
<1>2. /\ new \in Lists /\ DOMAIN new \subseteq DOMAIN list /\ id \in Ids(new)
      /\ last \in DOMAIN new /\ list[last].id = id
      /\ \A j \in DOMAIN new :
           /\ j <= last /\ new[j].id = list[j].id /\ new[j].role = list[j].role
           /\ new[j].text = IF list[j].id = id THEN text ELSE list[j].text
           /\ list[j].id = id => ~new[j].error
           /\ list[j].id # id => new[j].error = list[j].error
  BY <1>1, Rewritten
<1> HIDE DEF new, last
<1>3. ASSUME NEW j \in DOMAIN new, Temporary(list[j]), list[j].role = "assistant"
      PROVE  new[j].text = <<>> /\ ~new[j].error
  <2>1. list[j].text = <<>> /\ ~list[j].error /\ list[j].id[2] = "assistant"
    BY <1>2, <1>3 DEF OnScreen
  <2>2. ASSUME list[j].id = id PROVE text = <<>>
    <3>1. Temporary(list[i])
      BY <1>3, <2>2 DEF Temporary
    <3>2. list[i].role = "assistant"
      BY <2>1, <2>2, <3>1 DEF OnScreen
    <3> QED
      BY <3>2
  <2> QED
    BY <1>2, <2>1, <2>2
<1>4. OnScreen(new, n)
  <2>1. ASSUME NEW j \in DOMAIN new
        PROVE  IF Temporary(new[j])
               THEN /\ new[j].id[2] = new[j].role
                    /\ new[j].role = "assistant" => new[j].text = <<>> /\ ~new[j].error
                    /\ \A k \in DOMAIN new : j <= k => Temporary(new[k])
               ELSE Given(new[j].id, n)
    <3>1. Temporary(new[j]) <=> Temporary(list[j])
      BY <1>2 DEF Temporary
    <3>2. CASE Temporary(list[j])
      <4>1. \A k \in DOMAIN new : j <= k => Temporary(new[k])
        BY <1>2, <3>2 DEF OnScreen, Temporary
      <4> QED
        BY <1>2, <1>3, <3>1, <3>2, <4>1 DEF OnScreen
    <3>3. CASE ~Temporary(list[j])
      BY <1>2, <3>1, <3>3 DEF OnScreen
    <3> QED
      BY <3>2, <3>3
  <2> QED
    BY <2>1 DEF OnScreen
<1>5. ASSUME id[1] = "row", text = <<>> PROVE Empties(new, id)
  <2>1. ASSUME NEW j \in DOMAIN new PROVE ~Temporary(new[j])
    <3>1. ~Temporary(list[last])
      BY <1>2, <1>5 DEF Temporary
    <3>2. ~Temporary(list[j])
      BY <1>2, <3>1 DEF OnScreen
    <3> QED
      BY <1>2, <3>2 DEF Temporary
  <2> QED
    BY <1>2, <1>5, <2>1 DEF Empties
<1> QED
  BY <1>1, <1>2, <1>4, <1>5 DEF new

(* Sending, editing and regenerating begin a turn. *)
LEMMA UserStep ==
  ASSUME HookInv, User
  PROVE  HookInv'
<1>1. CASE status = "idle" /\ send
  <2> DEFINE q == emptyMessage(turn + 1, "user", <<turn + 1>>)
             a == emptyMessage(turn + 1, "assistant", <<>>)
  <2>1. turn + 1 \in Turns /\ shown \in Lists /\ OnScreen(shown, turn)
    BY <1>1, HookAssumption DEF send, runTurn, HookInv, HookTypes, Turns, Newest
  <2>2. <<turn + 1>> \in Texts /\ <<>> \in Texts
    BY <2>1 DEF Texts
  <2>3. /\ q \in Message /\ Temporary(q) /\ q.id[2] = q.role /\ q.role = "user"
        /\ a \in Message /\ Temporary(a) /\ a.id[2] = a.role /\ a.role = "assistant" /\ a.text = <<>> /\ ~a.error
    BY <2>1, <2>2, Blank DEF Roles, Temporary
  <2>4. runTurn("send", None, shown \o <<q, a>>)
    BY <1>1 DEF send
  <2> HIDE DEF q, a
  <2>5. shown \o <<q, a>> = Append(Append(shown, q), a)
    BY <2>1, <2>3, TwoMore
  <2> DEFINE one == Append(shown, q)
             two == Append(one, a)
  <2>6. one \in Lists /\ OnScreen(one, turn)
    BY <2>1, <2>3, OneMoreOnScreen
  <2> HIDE DEF one
  <2>7. two \in Lists /\ OnScreen(two, turn) /\ Awaits(two)
    BY <2>3, <2>6, OneMoreOnScreen
  <2>8. runTurn("send", None, two)
    BY <2>4, <2>5 DEF one
  <2> HIDE DEF two
  <2> QED
    BY <1>1, <2>7, <2>8, TurnBegins
<1>2. CASE status # "idle" /\ stop
  BY <1>2, InterruptSteps
<1>3. ASSUME NEW i \in DOMAIN shown, ActionRow(shown[i]) PROVE HookInv'
  <2>1. status = "idle" /\ shown \in Lists /\ OnScreen(shown, turn)
    BY <1>3 DEF ActionRow, HookInv, HookTypes, Newest
  <2> DEFINE id == shown[i].id
  <2>2. CASE shown[i].role = "user" /\ editMessage(id)
    <3> DEFINE cut == WithText(UpTo(shown, id), id, <<turn + 1>>)
               a == emptyMessage(turn + 1, "assistant", <<>>)
               list == Append(cut, a)
    <3>1. runTurn("edit", id, list)
      BY <2>2 DEF editMessage
    <3>2. turn + 1 \in Turns
      BY <3>1, HookAssumption DEF runTurn, HookInv, HookTypes, Turns
    <3>3. <<turn + 1>> \in Texts /\ <<>> \in Texts
      BY <3>2 DEF Texts
    <3>4. id \in MessageIds /\ cut \in Lists /\ OnScreen(cut, turn)
      BY <2>1, <2>2, <3>3, RewrittenScreen
    <3>5. a \in Message /\ Temporary(a) /\ a.id[2] = a.role /\ a.role = "assistant" /\ a.text = <<>> /\ ~a.error
      BY <3>2, <3>3, Blank DEF Roles, Temporary
    <3> HIDE DEF cut, a
    <3>6. list \in Lists /\ OnScreen(list, turn) /\ Awaits(list)
      BY <3>4, <3>5, OneMoreOnScreen
    <3> HIDE DEF list
    <3> QED
      BY <2>1, <3>1, <3>4, <3>6, TurnBegins
  <2>3. CASE regenerate(id)
    <3> DEFINE list == WithText(UpTo(shown, id), id, <<>>)
    <3>1. <<>> \in Texts
      BY DEF Texts
    <3>2. id \in MessageIds /\ list \in Lists /\ OnScreen(list, turn) /\ (id[1] = "row" => Empties(list, id))
      BY <2>1, <3>1, RewrittenScreen
    <3>3. runTurn("regenerate", id, list)
      BY <2>3 DEF regenerate
    <3> HIDE DEF list
    <3> QED
      BY <2>1, <3>2, <3>3, TurnBegins
  <2>4. CASE shown[i].error /\ handleDelete(id)
    BY <2>1, <2>4, DeleteStep
  <2> QED
    BY <1>3, <2>2, <2>3, <2>4 DEF ActionRow
<1> QED
  BY <1>1, <1>2, <1>3 DEF User, Composer

LEMMA HookStarts == Init => HookInv
<1> SUFFICES ASSUME Init PROVE HookInv
  OBVIOUS
<1>1. Resting \in ServerRecords /\ Resting.pc = "none" /\ Resting.text = <<>>
  BY EmptySeq DEF Resting, ServerRecords, Texts
<1>2. \A t \in Turns : server[t] = Resting
  BY DEF Init
<1>3. HookTypes
  BY <1>1, HookAssumption, NoRows, EmptySeq DEF Init, HookTypes, Texts
<1>4. ServerRight(server, turn)
  <2>1. \A t \in Turns : t > 0
    BY DEF Turns
  <2>2. \A t \in Turns : <<>> \in Seq({t})
    BY EmptySeq
  <2>3. turn = 0
    BY DEF Init
  <2>4. ASSUME NEW t \in Turns
        PROVE  /\ t > turn <=> server[t].pc = "none"
               /\ server[t].text \in Seq({t})
               /\ server[t].pc # "asked" /\ server[t].pc # "streaming"
    BY <1>1, <1>2, <2>1, <2>2, <2>3
  <2>5. \A t \in Turns :
          /\ t > turn <=> server[t].pc = "none"
          /\ server[t].text \in Seq({t})
          /\ server[t].pc # "asked" /\ server[t].pc # "streaming"
    BY <2>4
  <2>6. ~(turn > 0)
    BY <2>3
  <2> QED
    BY <2>5, <2>6 DEF ServerRight
<1> QED
  BY <1>3, <1>4, NoRows DEF Init, HookInv, FromServer, Begun, OnScreen, Finished, AnswerRight

LEMMA HookStep ==
  ASSUME HookInv, [Next]_vars
  PROVE  HookInv'
<1>1. CASE UNCHANGED vars
  <2>1. HookTypes'
    BY <1>1 DEF vars, HookInv, HookTypes
  <2> QED
    BY <1>1, <2>1, Primed DEF vars, HookInv
<1> QED
  BY <1>1, UserStep, BrowserStep, InterruptSteps, RefuseStep, PrepareStep, PieceStep, FinalizeStep, FetchSteps
  DEF Next, Ends

(* The inductive invariant of the chat hook: what the server has said of the answer that
   arrives is on the wire, waits for a frame or is on the screen, and nothing that a refetch
   brings can be older than the end of the last turn. *)
THEOREM HookInvariant == Spec => []HookInv
<1>1. Init => HookInv
  BY HookStarts
<1>2. HookInv /\ [Next]_vars => HookInv'
  BY HookStep
<1> QED
  BY <1>1, <1>2, PTL DEF Spec

(* No refetch wipes an answer that is arriving: screen, pending text and wire always add up
   to what the server has said, for any number of turns and pieces. *)
THEOREM AnswerIsNotWiped == Spec => []NothingWiped
<1>1. HookInv => NothingWiped
  <2> SUFFICES ASSUME HookInv, status = "streaming", closing = "none", final = None
      PROVE  /\ answer \in Ids(shown)
             /\ server[turn].pc = "streaming" =>
                  Received \o [i \in DOMAIN wire |-> wire[i].text[1]] = server[turn].text
    BY DEF NothingWiped
  <2> DEFINE s == server[turn]
             coming == [i \in DOMAIN wire |-> wire[i].text[1]]
  <2>1. TurnRight(s, wire, shown, "streaming", turn, answer, pending, closing, final)
    BY DEF HookInv
  <2>2. StreamingRight(s, wire, shown, "streaming", turn, answer, pending, closing, final) /\ answer \in Ids(shown)
    BY <2>1 DEF TurnRight, StreamingRight
  <2>3. ASSUME s.pc = "streaming" PROVE Received \o coming = s.text
    <3> DEFINE n == At(shown, answer)
               text == shown[n].text
    <3>1. n \in DOMAIN shown /\ shown[n].id = answer /\ Received = text \o pending
      <4>1. LET new == UpTo(shown, answer)
            IN Len(new) = n /\ n \in DOMAIN shown /\ new[n] = shown[n] /\ new[n].id = answer
        BY <2>2, UpToFacts DEF HookInv, HookTypes
      <4> QED
        BY <4>1 DEF Received
    <3>2. /\ pending \in Seq({turn}) /\ text \in Seq({turn})
          /\ Len(text) + Len(pending) + Len(wire) = Len(s.text)
      BY <2>2, <2>3, <3>1 DEF StreamingRight
    <3>3. coming \in Seq({turn}) /\ Len(coming) = Len(wire) /\ Len(wire) \in Nat
      <4>1. wire \in Seq(Events)
        BY DEF HookInv, HookTypes
      <4>2. Len(wire) \in Nat /\ DOMAIN wire = 1..Len(wire)
        BY <4>1
      <4>3. ASSUME NEW i \in DOMAIN wire PROVE coming[i] = turn
        <5>1. wire[i] \in Events
          BY <4>1, <4>2
        <5>2. wire[i].type = "delta"
          BY <2>1, <2>3, <5>1, EventKinds DEF TurnRight, WireRight, MetaRight
        <5>3. wire[i].text = <<turn>>
          BY <2>1, <5>2 DEF TurnRight, WireRight
        <5> QED
          BY <5>3
      <4>4. coming \in [1..Len(wire) -> {turn}]
        BY <4>2, <4>3
      <4> HIDE DEF coming
      <4>5. coming \in Seq({turn})
        BY <4>2, <4>4, ListOf
      <4> QED
        BY <4>2, <4>4, <4>5, LenProperties
    <3>4. s.text \in Seq({turn})
      <4>1. turn \in Turns
        BY <2>1, LastTurn DEF TurnRight
      <4> QED
        BY <4>1 DEF HookInv, ServerRight
    <3> HIDE DEF coming, text, s
    <3>5. Len(text) + Len(pending) + Len(coming) = Len(s.text)
      BY <3>2, <3>3
    <3>6. (text \o pending) \o coming = s.text
      BY <3>2, <3>3, <3>4, <3>5, SumOfTexts
    <3> QED
      BY <3>1, <3>6
  <2> QED
    BY <2>2, <2>3
<1> QED
  BY <1>1, HookInvariant, PTL

(* A finished answer stays on the screen as it was finished, whatever refetch had begun. *)
THEOREM FinishedAnswerStays == Spec => []AnswerStays
<1>1. HookInv => AnswerStays
  <2> SUFFICES ASSUME HookInv, status = "idle", final # None, server[turn].alone
      PROVE  \E i \in DOMAIN shown : shown[i].id = answer /\ shown[i].text = final
    BY DEF AnswerStays
  <2>1. turn > 0 /\ answer = server[turn].asks /\ final = server[turn].text
    BY DEF HookInv, Finished
  <2>2. Whole(shown, server[turn])
    BY <2>1 DEF HookInv, AnswerRight
  <2> QED
    BY <2>1, <2>2 DEF Whole, Ids
<1> QED
  BY <1>1, HookInvariant, PTL
=============================================================================
