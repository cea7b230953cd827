---------------------------- MODULE BrowserProofs ----------------------------
(***************************************************************************)
(* Proofs about what the browser keeps: the sidebar's lists (ChatList), the   *)
(* way to a page and through the sign-in (SignIn), the palette, and answers   *)
(* on the screen (AnswerView), for any tabs, chats, commands and lines.       *)
(***************************************************************************)
EXTENDS ChatList, SignIn, Palette, AnswerView, ListLemmas

Queries == {"chats", "folders"}
Updates == {"move", "share"}
ChangeKinds == Updates \cup {"removeChat", "removeFolder", "create", "createFolder"}
Row == [folder : Folders \cup {None}, slug : Nat \cup {None}]
Table == [Chats -> Row \cup {None}]
Slot == [pc : {"free", "sent", "read", "answered"}, tab : {"none", "here", "elsewhere", "nobody"},
         kind : ChangeKinds \cup {"none"}, on : Chats \cup Folders \cup {None},
         to : Folders \cup BOOLEAN \cup {None}, seen : Nat \cup {None},
         before : Table \cup {None}, ok : BOOLEAN]
Cached == Table \cup (SUBSET Folders) \cup {None}
Fetch == [pc : {"none", "asked", "read"}, rows : Cached]

SlotInv(r) ==
  /\ req[r].pc = "free" => req[r].tab = "none"
  /\ req[r].pc # "free" => req[r].kind \in ChangeKinds
  /\ req[r].pc = "read" => req[r].kind \in Updates
  /\ req[r].kind \in Updates \cup {"removeChat", "create"} => req[r].on \in Chats
  /\ req[r].kind \in {"removeFolder", "createFolder"} => req[r].on \in Folders
  /\ req[r].kind \in Updates /\ req[r].tab = "here" => req[r].before \in Table
  /\ req[r].kind = "move" => req[r].to \in Folders \cup {None}

RowsInv ==
  /\ chats \in Table /\ folders \subseteq Folders /\ slugs \in Nat

TabInv ==
  /\ list \in Table /\ shelf \subseteq Folders /\ drift \subseteq Queries
  /\ fetch \in [Queries -> Fetch]
  /\ fetch["chats"].pc = "read" => fetch["chats"].rows \in Table
  /\ fetch["folders"].pc = "read" => fetch["folders"].rows \subseteq Folders

SlotsInv == req \in [Requests -> Slot] /\ \A r \in Requests : SlotInv(r)

TypeInv == RowsInv /\ TabInv /\ SlotsInv

(* A chat is in a folder that exists, or in none. *)
Shelved == \A c \in Chats : chats[c] # None => chats[c].folder \in folders \cup {None}

(* Requests of the tab that will fetch a list again when they are over. *)
Pends(r, q) ==
  /\ req[r].tab = "here"
  /\ \/ req[r].kind \in Updates
     \/ req[r].pc = "answered" /\ req[r].ok /\ q \in Refreshes(req[r].kind, TRUE)

Settled(q) == q \notin drift /\ ~\E r \in Requests : Pends(r, q)
RowsOf(q) == IF q = "chats" THEN chats ELSE folders
Copy(q) == IF q = "chats" THEN list ELSE shelf

(* What the tab shows, or is about to show, differs from the rows only while a refetch
   is still to come, or if the tab cannot know. *)
Follows(q) ==
  Settled(q) => /\ fetch[q].pc = "none" => Copy(q) = RowsOf(q)
                /\ fetch[q].pc = "read" => fetch[q].rows = RowsOf(q)

ListInv == TypeInv /\ Shelved /\ \A q \in Queries : Follows(q)

Making(r) == req[r].pc = "sent" /\ req[r].kind = "create"
Sharing(r) == req[r].pc = "read" /\ req[r].kind = "share" /\ req[r].to

(* A chat is made once: by one request, before any other request reads it. *)
MadeInv ==
  /\ \A c \in Chats : chats[c] # None => c \in made
  /\ \A r \in Requests : Making(r) => req[r].on \in Chats /\ chats[req[r].on] = None
  /\ \A r, q \in Requests :
       Making(r) /\ q # r /\ (Making(q) \/ req[q].pc = "read") => req[q].on # req[r].on

(* A link belongs to one chat for good: to no other one, nor to a request of another
   one that read it; and no request that is sharing a chat brings back one that ended,
   unless the chat is gone too, so that its update fails. *)
LinkInv ==
  /\ gone \subseteq 1 .. slugs
  /\ \A c \in Chats : chats[c] # None => chats[c].slug \in (1 .. slugs) \cup {None}
  /\ \A r \in Requests : req[r].pc = "read" => req[r].seen \in (1 .. slugs) \cup {None}
  /\ \A c, d \in Chats : c # d /\ chats[c] # None /\ chats[d] # None /\ chats[c].slug # None =>
       chats[c].slug # chats[d].slug
  /\ \A r \in Requests, d \in Chats :
       req[r].pc = "read" /\ req[r].seen # None /\ d # req[r].on /\ chats[d] # None =>
         chats[d].slug # req[r].seen
  /\ \A r, q \in Requests :
       req[r].pc = "read" /\ req[q].pc = "read" /\ req[r].seen # None /\ req[r].on # req[q].on =>
         req[r].seen # req[q].seen
  /\ \A r \in Requests :
       Sharing(r) /\ req[r].seen # None => req[r].seen \notin gone \/ chats[req[r].on] = None
  /\ LinksEndForGood

PromptInv ==
  /\ stored # None => \A s \in sent : s.prompt # stored
  /\ PromptsSentOnce

----------------------------------------------------------------------------
(* How the request that acts changes: it starts, has read, is answered, is given up or
   is over. *)
Others(r) == req' \in [Requests -> Slot] /\ \A q \in Requests \ {r} : req'[q] = req[q]

Started(r, from, kind, on, to) ==
  /\ Others(r) /\ req[r].pc = "free" /\ req'[r].pc = "sent" /\ req'[r].tab = from
  /\ req'[r].kind = kind /\ req'[r].on = on /\ req'[r].to = to
  /\ req'[r].before = IF from = "here" /\ kind \in Updates THEN list ELSE None

SameRequest(r) ==
  /\ req'[r].kind = req[r].kind /\ req'[r].on = req[r].on /\ req'[r].to = req[r].to
  /\ Others(r)

Answered(r, ok) ==
  /\ SameRequest(r) /\ req'[r].tab = req[r].tab /\ req'[r].before = req[r].before
  /\ req'[r].pc = "answered" /\ req'[r].ok = ok

HasRead(r, slug) ==
  /\ SameRequest(r) /\ req'[r].tab = req[r].tab /\ req'[r].before = req[r].before
  /\ req'[r].pc = "read" /\ req'[r].seen = slug

GivenUp(r) ==
  /\ SameRequest(r) /\ req'[r].tab = "nobody" /\ req'[r].pc = req[r].pc /\ req'[r].seen = req[r].seen

IsOver(r) == Others(r) /\ req'[r] = Free

LEMMA FreeFacts == Free \in Slot /\ Free.pc = "free" /\ Free.tab = "none" /\ Free.kind = "none"
  BY DEF Free, Slot

LEMMA StartFacts ==
  ASSUME TypeInv, NEW r \in Requests, NEW from \in {"here", "elsewhere"}, NEW kind \in ChangeKinds,
         NEW on \in Chats \cup Folders, NEW to \in Folders \cup BOOLEAN \cup {None},
         Starts(r, from, kind, on, to)
  PROVE  Started(r, from, kind, on, to)
<1> DEFINE kept == IF from = "here" /\ kind \in {"move", "share"} THEN list ELSE None
           s == [Free EXCEPT !.pc = "sent", !.tab = from, !.kind = kind, !.on = on,
                             !.to = to, !.before = kept]
<1>1. kept \in Table \cup {None}
  BY DEF TypeInv, TabInv
<1> HIDE DEF kept
<1>2. /\ s \in Slot /\ s.pc = "sent" /\ s.tab = from /\ s.kind = kind /\ s.on = on /\ s.to = to
      /\ s.before = kept
  BY <1>1 DEF Free, Slot
<1>3. req' = [req EXCEPT ![r] = s] /\ req[r].pc = "free"
  BY DEF Starts, kept
<1> HIDE DEF s
<1> QED
  BY <1>2, <1>3 DEF Started, Others, TypeInv, SlotsInv, Updates, kept

LEMMA AnswerFacts ==
  ASSUME TypeInv, NEW r \in Requests, NEW ok \in BOOLEAN, Answers(r, ok)
  PROVE  Answered(r, ok)
<1> DEFINE s == [req[r] EXCEPT !.pc = "answered", !.ok = ok]
<1>1. req[r] \in Slot
  BY DEF TypeInv, SlotsInv
<1>2. /\ s \in Slot /\ s.pc = "answered" /\ s.ok = ok /\ s.tab = req[r].tab /\ s.kind = req[r].kind
      /\ s.on = req[r].on /\ s.to = req[r].to /\ s.before = req[r].before
  BY <1>1 DEF Slot
<1>3. req' = [req EXCEPT ![r] = s]
  BY DEF Answers
<1> HIDE DEF s
<1> QED
  BY <1>2, <1>3 DEF Answered, SameRequest, Others, TypeInv, SlotsInv

LEMMA ReadFacts ==
  ASSUME TypeInv, NEW r \in Requests, NEW slug \in Nat \cup {None},
         req' = [req EXCEPT ![r].pc = "read", ![r].seen = slug]
  PROVE  HasRead(r, slug)
<1> DEFINE s == [req[r] EXCEPT !.pc = "read", !.seen = slug]
<1>1. req[r] \in Slot
  BY DEF TypeInv, SlotsInv
<1>2. /\ s \in Slot /\ s.pc = "read" /\ s.seen = slug /\ s.tab = req[r].tab /\ s.kind = req[r].kind
      /\ s.on = req[r].on /\ s.to = req[r].to /\ s.before = req[r].before
  BY <1>1 DEF Slot
<1>3. req' = [req EXCEPT ![r] = s]
  OBVIOUS
<1> HIDE DEF s
<1> QED
  BY <1>2, <1>3 DEF HasRead, SameRequest, Others, TypeInv, SlotsInv

LEMMA LoseFacts ==
  ASSUME TypeInv, NEW r \in Requests, Loses(r)
  PROVE  GivenUp(r)
<1> DEFINE s == [req[r] EXCEPT !.tab = "nobody", !.before = None]
<1>1. req[r] \in Slot
  BY DEF TypeInv, SlotsInv
<1>2. /\ s \in Slot /\ s.pc = req[r].pc /\ s.seen = req[r].seen /\ s.tab = "nobody"
      /\ s.kind = req[r].kind /\ s.on = req[r].on /\ s.to = req[r].to
  BY <1>1 DEF Slot
<1>3. req' = [req EXCEPT ![r] = s]
  BY DEF Loses
<1> HIDE DEF s
<1> QED
  BY <1>2, <1>3 DEF GivenUp, SameRequest, Others, TypeInv, SlotsInv

LEMMA OverFacts ==
  ASSUME TypeInv, NEW r \in Requests, req' = [req EXCEPT ![r] = Free]
  PROVE  IsOver(r)
BY FreeFacts DEF IsOver, Others, TypeInv, SlotsInv

(* Every step, by what it does to the requests. *)
LEMMA SlotsKept ==
  ASSUME TypeInv, NEW r \in Requests, Others(r), SlotInv(r)'
  PROVE  SlotsInv'
<1>1. ASSUME NEW q \in Requests, q # r PROVE SlotInv(q)'
  <2>1. req'[q] = req[q] /\ SlotInv(q)
    BY <1>1 DEF Others, TypeInv, SlotsInv
  <2> QED
    BY <2>1 DEF SlotInv
<1> QED
  BY <1>1 DEF Others, SlotsInv

(* A request that has begun stays well-formed through each of its later steps. *)
LEMMA SlotMoves ==
  ASSUME TypeInv, NEW r \in Requests
  PROVE  /\ \A ok \in BOOLEAN : Answered(r, ok) /\ req[r].pc # "free" => SlotsInv'
         /\ \A slug : HasRead(r, slug) /\ req[r].kind \in Updates => SlotsInv'
         /\ GivenUp(r) /\ req[r].pc # "free" => SlotsInv'
         /\ IsOver(r) => SlotsInv'
<1>1. SlotInv(r) /\ req[r] \in Slot
  BY DEF TypeInv, SlotsInv
<1>2. ASSUME NEW ok \in BOOLEAN, Answered(r, ok), req[r].pc # "free" PROVE SlotsInv'
  <2>1. SlotInv(r)'
    BY <1>1, <1>2 DEF Answered, SameRequest, SlotInv
  <2> QED
    BY <1>2, <2>1, SlotsKept DEF Answered, SameRequest
<1>3. ASSUME NEW slug, HasRead(r, slug), req[r].kind \in Updates PROVE SlotsInv'
  <2>1. SlotInv(r)'
    BY <1>1, <1>3 DEF HasRead, SameRequest, SlotInv, ChangeKinds
  <2> QED
    BY <1>3, <2>1, SlotsKept DEF HasRead, SameRequest
<1>4. ASSUME GivenUp(r), req[r].pc # "free" PROVE SlotsInv'
  <2>1. SlotInv(r)'
    BY <1>1, <1>4 DEF GivenUp, SameRequest, SlotInv
  <2> QED
    BY <1>4, <2>1, SlotsKept DEF GivenUp, SameRequest
<1>5. ASSUME IsOver(r) PROVE SlotsInv'
  <2>1. SlotInv(r)'
    BY <1>5, FreeFacts DEF IsOver, SlotInv, ChangeKinds, Updates
  <2> QED
    BY <1>5, <2>1, SlotsKept DEF IsOver
<1> QED
  BY <1>2, <1>3, <1>4, <1>5

(* A request that starts is well-formed if it is given what its kind needs. *)
LEMMA SlotStarts ==
  ASSUME TypeInv, NEW r \in Requests, NEW from, NEW kind \in ChangeKinds, NEW on, NEW to,
         Started(r, from, kind, on, to),
         kind \in Updates \cup {"removeChat", "create"} => on \in Chats,
         kind \in {"removeFolder", "createFolder"} => on \in Folders,
         kind = "move" => to \in Folders \cup {None}
  PROVE  SlotsInv'
<1>1. SlotInv(r)'
  BY DEF Started, SlotInv, TypeInv, TabInv
<1> QED
  BY <1>1, SlotsKept DEF Started
----------------------------------------------------------------------------
(* A request starts, of the tab or of another one: what it shows changes only if the
   change is optimistic, and then no refetch of the chats is under way. *)
Shows(from, kind) ==
  IF from = "here" /\ kind \in Updates
    THEN list' \in Table /\ fetch' = [fetch EXCEPT !["chats"] = NoFetch] /\ UNCHANGED <<shelf, drift>>
    ELSE UNCHANGED tab

Types == UNCHANGED <<stored, sent>> \/ (sent' = sent /\ \A s \in sent : s.prompt # stored')

(* A new chat gets an id that neither a chat nor a request has had. *)
Fresh(kind, on) == kind = "create" => on \notin made /\ \A q \in Requests : req[q].on # on

Begins(r) ==
  /\ UNCHANGED server /\ Types /\ SlotsInv'
  /\ \E from \in {"here", "elsewhere"}, kind \in ChangeKinds, on \in Chats \cup Folders,
        to \in Folders \cup BOOLEAN \cup {None} :
       Started(r, from, kind, on, to) /\ Shows(from, kind) /\ Fresh(kind, on)

(* What a start has to show to be one that Begins. *)
LEMMA BeginsIf ==
  ASSUME TypeInv, NEW r \in Requests, NEW from \in {"here", "elsewhere"}, NEW kind \in ChangeKinds,
         NEW on \in Chats \cup Folders, NEW to \in Folders \cup BOOLEAN \cup {None},
         Starts(r, from, kind, on, to), UNCHANGED server, Types, Shows(from, kind), Fresh(kind, on),
         kind \in Updates \cup {"removeChat", "create"} => on \in Chats,
         kind \in {"removeFolder", "createFolder"} => on \in Folders,
         kind = "move" => to \in Folders \cup {None}
  PROVE  Begins(r)
<1>1. Started(r, from, kind, on, to)
  BY StartFacts
<1>2. SlotsInv'
  BY <1>1, SlotStarts
<1> QED
  BY <1>1, <1>2 DEF Begins

(* The optimistic changes of the tab. *)
LEMMA Clicks ==
  ASSUME TypeInv, NEW r \in Requests, NEW c \in Chats
  PROVE  /\ \A f \in Folders \cup {None} : Move(r, c, f) => Begins(r)
         /\ \A on \in BOOLEAN : Share(r, c, on) => Begins(r)
         /\ RemoveChat(r, c) => Begins(r)
<1>t. list \in Table /\ shelf \subseteq Folders
  BY DEF TypeInv, TabInv
<1>1. ASSUME NEW f \in Folders \cup {None}, Move(r, c, f) PROVE Begins(r)
  <2>1. PICK row \in Row : row = list[c]
    BY <1>t, <1>1 DEF Table, Move
  <2>2. [row EXCEPT !.folder = f] \in Row
    BY DEF Row
  <2>3. [list EXCEPT ![c].folder = f] = [list EXCEPT ![c] = [row EXCEPT !.folder = f]]
    BY <2>1
  <2>4. [list EXCEPT ![c].folder = f] \in Table
    BY <1>t, <2>2, <2>3 DEF Table
  <2>5. Shows("here", "move") /\ UNCHANGED server /\ Types
    BY <1>1, <2>4 DEF Shows, Move, Optimistic, Updates, Types, prompt
  <2>6. Starts(r, "here", "move", c, f)
    BY <1>1 DEF Move
  <2> QED
    BY <2>5, <2>6, BeginsIf DEF ChangeKinds, Updates, Fresh
<1>2. ASSUME NEW on \in BOOLEAN, Share(r, c, on) PROVE Begins(r)
  <2>1. Shows("here", "share") /\ UNCHANGED server /\ Types
    BY <1>2, <1>t DEF Shows, Share, Optimistic, Updates, Types, prompt
  <2>2. Starts(r, "here", "share", c, on)
    BY <1>2 DEF Share
  <2> QED
    BY <2>1, <2>2, BeginsIf DEF ChangeKinds, Updates, Fresh
<1>3. ASSUME RemoveChat(r, c) PROVE Begins(r)
  <2>1. Shows("here", "removeChat") /\ UNCHANGED server /\ Types
    BY <1>3 DEF Shows, RemoveChat, Updates, Types, prompt
  <2>2. Starts(r, "here", "removeChat", c, None)
    BY <1>3 DEF RemoveChat
  <2> QED
    BY <2>1, <2>2, BeginsIf DEF ChangeKinds, Updates, Fresh
<1> QED
  BY <1>1, <1>2, <1>3

(* The changes the tab waits for. *)
LEMMA Makes ==
  ASSUME TypeInv, NEW r \in Requests
  PROVE  /\ Creating(r, None) => Begins(r)
         /\ \A p \in Prompts : Launch(r, p) => Begins(r)
         /\ NewFolderDialog(r) => Begins(r)
         /\ \A f : RemoveFolder(r, f) => Begins(r)
<1>1. ASSUME NEW p, Creating(r, p), Types PROVE Begins(r)
  <2>1. PICK c \in Chats : Starts(r, "here", "create", c, None) /\ Fresh("create", c)
    BY <1>1 DEF Creating, Fresh
  <2>2. Shows("here", "create") /\ UNCHANGED server
    BY <1>1 DEF Shows, Creating, Updates
  <2> QED
    BY <1>1, <2>1, <2>2, BeginsIf DEF ChangeKinds, Updates, Fresh
<1>2. Creating(r, None) => Types
  BY DEF Creating, Types
<1>3. ASSUME NEW p \in Prompts, Launch(r, p) PROVE Types
  BY <1>3 DEF Launch, Creating, Types
<1>4. ASSUME NewFolderDialog(r) PROVE Begins(r)
  <2>1. PICK f \in Folders : Starts(r, "here", "createFolder", f, None)
    BY <1>4 DEF NewFolderDialog
  <2>2. Shows("here", "createFolder") /\ UNCHANGED server /\ Types
    BY <1>4 DEF Shows, NewFolderDialog, Updates, Types, prompt
  <2> QED
    BY <2>1, <2>2, BeginsIf DEF ChangeKinds, Updates, Fresh
<1>5. ASSUME NEW f, RemoveFolder(r, f) PROVE Begins(r)
  <2>1. Starts(r, "here", "removeFolder", f, None) /\ f \in Folders
    BY <1>5 DEF RemoveFolder, TypeInv, TabInv
  <2>2. Shows("here", "removeFolder") /\ UNCHANGED server /\ Types
    BY <1>5 DEF Shows, RemoveFolder, Updates, Types, prompt
  <2> QED
    BY <2>1, <2>2, BeginsIf DEF ChangeKinds, Updates, Fresh
<1>6. ASSUME NEW p \in Prompts, Launch(r, p) PROVE Creating(r, p)
  BY <1>6 DEF Launch
<1> QED
  BY <1>1, <1>2, <1>3, <1>4, <1>5, <1>6

LEMMA OtherTabs ==
  ASSUME TypeInv, NEW r \in Requests, Elsewhere(r)
  PROVE  Begins(r)
<1>1. UNCHANGED server /\ UNCHANGED tab /\ Types
  BY DEF Elsewhere, Types, prompt
<1>2. PICK c \in Chats, f \in Folders, on \in BOOLEAN,
           kind \in {"move", "share", "removeChat", "removeFolder"} :
        Starts(r, "elsewhere", kind, IF kind = "removeFolder" THEN f ELSE c,
               CASE kind = "move" -> f [] kind = "share" -> on [] OTHER -> None)
  BY DEF Elsewhere
<1>3. PICK what \in Chats \cup Folders : what = IF kind = "removeFolder" THEN f ELSE c
  OBVIOUS
<1>4. PICK to \in Folders \cup BOOLEAN \cup {None} :
        to = CASE kind = "move" -> f [] kind = "share" -> on [] OTHER -> None
  OBVIOUS
<1>5. Starts(r, "elsewhere", kind, what, to)
  BY <1>2, <1>3, <1>4
<1>6. /\ kind \in ChangeKinds
      /\ kind \in Updates \cup {"removeChat", "create"} => what \in Chats
      /\ kind \in {"removeFolder", "createFolder"} => what \in Folders
      /\ kind = "move" => to \in Folders \cup {None}
  BY <1>3, <1>4 DEF ChangeKinds, Updates
<1>7. Shows("elsewhere", kind) /\ Fresh(kind, what)
  BY <1>1 DEF Shows, Fresh
<1> QED
  BY <1>1, <1>5, <1>6, <1>7, BeginsIf

(* So every start, of the tab or of another one, Begins. *)
LEMMA EveryStart ==
  ASSUME TypeInv, NEW r \in Requests, UserActs(r) \/ Elsewhere(r)
  PROVE  Begins(r)
BY Clicks, Makes, OtherTabs
   DEF UserActs, Sidebar, Rail, ChatNavigation, FolderSection, ChatListItem, ChatHeader, CommandPalette
----------------------------------------------------------------------------
(* The server reads for a request, refuses it, or carries it out: then it differs from
   what the tab shows only in what the tab will fetch when the request is over. *)
Served(r) ==
  /\ UNCHANGED <<list, shelf, fetch, prompt>> /\ drift' \in {drift, Queries}
  /\ req[r].pc \in {"sent", "read"} /\ req[r].kind \in ChangeKinds
  /\ \/ UNCHANGED <<chats, folders>> /\ \E slug : HasRead(r, slug)
     \/ UNCHANGED <<chats, folders>> /\ Answered(r, FALSE)
     \/ /\ Answered(r, TRUE)
        /\ req[r].tab # "here" => drift' = Queries
        /\ \A q \in Queries \ Refreshes(req[r].kind, TRUE) : RowsOf(q)' = RowsOf(q)

Whole == RowsInv /\ SlotsInv /\ Shelved

(* A chat that exists has a row. *)
LEMMA RowIn ==
  ASSUME TypeInv, NEW c \in Chats, chats[c] # None
  PROVE  chats[c] \in Row
BY DEF TypeInv, RowsInv, Table

LEMMA ReadServes ==
  ASSUME ListInv, NEW r \in Requests, Read(r)
  PROVE  Served(r) /\ Whole'
<1> USE DEF ListInv
<1>1. req[r].on \in Chats /\ req[r].kind \in Updates /\ req[r].pc = "sent"
  BY DEF Read, TypeInv, SlotsInv, SlotInv, Updates
<1>2. UNCHANGED server /\ UNCHANGED tab /\ UNCHANGED prompt
  BY DEF Read
<1>3. RowsInv' /\ Shelved'
  BY <1>2 DEF server, TypeInv, RowsInv, Shelved
<1>4. \/ Answered(r, FALSE)
      \/ \E slug : HasRead(r, slug)
  <2>1. CASE Answers(r, FALSE)
    BY <2>1, AnswerFacts
  <2>2. CASE /\ chats[req[r].on] # None
             /\ req' = [req EXCEPT ![r].pc = "read", ![r].seen = chats[req[r].on].slug]
    <3>1. chats[req[r].on].slug \in Nat \cup {None}
      BY <1>1, <2>2, RowIn DEF Row
    <3> QED
      BY <2>2, <3>1, ReadFacts
  <2> QED
    BY <2>1, <2>2 DEF Read
<1>5. SlotsInv'
  BY <1>1, <1>4, SlotMoves
<1>6. Served(r)
  BY <1>1, <1>2, <1>4 DEF Served, server, tab, ChangeKinds
<1> QED
  BY <1>3, <1>5, <1>6 DEF Whole

LEMMA UpdateServes ==
  ASSUME ListInv, NEW r \in Requests, Update(r)
  PROVE  Served(r) /\ Whole'
<1> USE DEF ListInv
<1>1. /\ req[r].on \in Chats /\ req[r].kind \in Updates /\ req[r].pc = "read" /\ req[r].kind \in ChangeKinds
      /\ req[r] \in Slot
  BY DEF Update, TypeInv, SlotsInv, SlotInv, Updates, ChangeKinds
<1>2. UNCHANGED <<list, shelf, fetch, prompt>>
  BY DEF Update
<1>a. \A ok \in BOOLEAN : Answers(r, ok) => Answered(r, ok) /\ SlotsInv'
  BY <1>1, AnswerFacts, SlotMoves
<1>3. CASE Answers(r, FALSE) /\ UNCHANGED <<server, drift>>
  <2>1. RowsInv' /\ Shelved'
    BY <1>3 DEF server, TypeInv, RowsInv, Shelved
  <2>2. Served(r)
    BY <1>1, <1>2, <1>3, <1>a DEF Served, server
  <2> QED
    BY <1>3, <1>a, <2>1, <2>2 DEF Whole
<1>4. CASE /\ chats[req[r].on] # None /\ Answers(r, TRUE) /\ Drifts(r) /\ UNCHANGED <<folders, made>>
           /\ req[r].kind = "move" => req[r].to \in folders \cup {None}
           /\ IF req[r].kind = "move"
                THEN /\ chats' = [chats EXCEPT ![req[r].on].folder = req[r].to]
                     /\ UNCHANGED <<slugs, dead, gone>>
                ELSE /\ chats' = [chats EXCEPT ![req[r].on].slug = IF req[r].to THEN Link(r) ELSE None]
                     /\ slugs' = IF req[r].to /\ Link(r) = slugs + 1 THEN slugs + 1 ELSE slugs
  <2>1. PICK row \in Row : row = chats[req[r].on]
    BY <1>1, <1>4, RowIn
  <2>2. Link(r) \in Nat
    BY <1>1 DEF Link, TypeInv, RowsInv, Slot
  <2>3. PICK new \in Row : chats' = [chats EXCEPT ![req[r].on] = new] /\ new.folder \in folders \cup {None}
    <3>1. CASE req[r].kind = "move"
      <4>1. [row EXCEPT !.folder = req[r].to] \in Row /\ [row EXCEPT !.folder = req[r].to].folder = req[r].to
        BY <1>4, <3>1 DEF Row, TypeInv, RowsInv
      <4> QED
        BY <1>4, <2>1, <3>1, <4>1
    <3>2. CASE req[r].kind # "move"
      <4>1. PICK slug \in Nat \cup {None} : slug = IF req[r].to THEN Link(r) ELSE None
        BY <2>2
      <4>2. [row EXCEPT !.slug = slug] \in Row /\ [row EXCEPT !.slug = slug].folder = row.folder
        BY DEF Row
      <4>3. row.folder \in folders \cup {None}
        BY <1>1, <1>4, <2>1 DEF Shelved
      <4> QED
        BY <1>4, <2>1, <3>2, <4>1, <4>2, <4>3
    <3> QED
      BY <3>1, <3>2
  <2>4. slugs' \in Nat
    BY <1>4 DEF TypeInv, RowsInv
  <2>5. RowsInv'
    BY <1>4, <2>3, <2>4 DEF TypeInv, RowsInv, Table
  <2>6. Shelved'
    BY <1>4, <2>3 DEF Shelved, TypeInv, RowsInv, Table
  <2>7. Answered(r, TRUE) /\ SlotsInv'
    BY <1>4, <1>a
  <2>8. Refreshes(req[r].kind, TRUE) = Queries
    BY <1>1 DEF Refreshes, Updates, Queries
  <2>9. Served(r)
    BY <1>1, <1>2, <1>4, <2>7, <2>8 DEF Served, Drifts, Queries
  <2> QED
    BY <2>5, <2>6, <2>7, <2>9 DEF Whole
<1> QED
  BY <1>3, <1>4 DEF Update

LEMMA DeleteServes ==
  ASSUME ListInv, NEW r \in Requests, deleteChat(r) \/ deleteFolder(r)
  PROVE  Served(r) /\ Whole'
<1> USE DEF ListInv
<1>1. /\ req[r].pc = "sent" /\ req[r].kind \in {"removeChat", "removeFolder"}
      /\ req[r].kind \in ChangeKinds /\ UNCHANGED <<list, shelf, fetch, prompt>> /\ UNCHANGED slugs
  BY DEF deleteChat, deleteFolder, ChangeKinds
<1>a. \A ok \in BOOLEAN : Answers(r, ok) => Answered(r, ok) /\ SlotsInv'
  BY <1>1, AnswerFacts, SlotMoves
<1>2. Refreshes(req[r].kind, TRUE) = Queries
  BY <1>1 DEF Refreshes, Queries
<1>3. PICK ok \in BOOLEAN :
        /\ Answers(r, ok) /\ Drifts(r) /\ RowsInv' /\ Shelved'
        /\ ~ok => UNCHANGED <<chats, folders>>
  <2>1. CASE deleteChat(r)
    <3>1. req[r].on \in Chats
      BY <2>1 DEF deleteChat, TypeInv, SlotsInv, SlotInv
    <3>2. RowsInv' /\ Shelved'
      BY <2>1, <3>1 DEF deleteChat, TypeInv, RowsInv, Shelved, Table
    <3>3. chats[req[r].on] = None => UNCHANGED <<chats, folders>>
      BY <2>1, <3>1 DEF deleteChat, TypeInv, RowsInv, Table
    <3> QED
      BY <2>1, <3>2, <3>3 DEF deleteChat
  <2>2. CASE deleteFolder(r)
    <3>1. ASSUME NEW c \in Chats
          PROVE  /\ chats'[c] \in Row \cup {None}
                 /\ chats'[c] # None => chats'[c].folder \in folders' \cup {None}
                 /\ req[r].on \notin folders => chats'[c] = chats[c]
      <4>1. CASE chats[c] = None
        BY <2>2, <4>1 DEF deleteFolder
      <4>2. CASE chats[c] # None
        <5>1. PICK row \in Row : row = chats[c] /\ row.folder \in folders \cup {None}
          BY <4>2, RowIn DEF Shelved
        <5>2. [row EXCEPT !.folder = None] \in Row /\ [row EXCEPT !.folder = None].folder = None
          BY DEF Row
        <5>3. chats'[c] = IF row.folder = req[r].on THEN [row EXCEPT !.folder = None] ELSE row
          BY <2>2, <4>2, <5>1 DEF deleteFolder
        <5>4. folders' = folders \ {req[r].on}
          BY <2>2 DEF deleteFolder
        <5>5. CASE row.folder # req[r].on
          BY <5>1, <5>3, <5>4, <5>5
        <5>6. CASE row.folder = req[r].on
          <6>1. chats'[c] = [row EXCEPT !.folder = None]
            BY <5>3, <5>6
          <6>2. CASE req[r].on \in folders
            BY <5>2, <6>1, <6>2
          <6>3. CASE req[r].on \notin folders
            <7>1. row.folder = None
              BY <5>1, <5>6, <6>3
            <7>2. [row EXCEPT !.folder = None] = row
              BY <7>1 DEF Row
            <7> QED
              BY <5>1, <5>2, <6>1, <7>2
          <6> QED
            BY <6>2, <6>3
        <5> QED
          BY <5>5, <5>6
      <4> QED
        BY <4>1, <4>2
    <3>2. chats' = [c \in Chats |-> chats'[c]] /\ folders' \subseteq Folders
      BY <2>2 DEF deleteFolder, TypeInv, RowsInv
    <3>3. RowsInv'
      BY <1>1, <3>1, <3>2 DEF TypeInv, RowsInv, Table
    <3>4. Shelved'
      BY <3>1 DEF Shelved
    <3>5. req[r].on \notin folders => UNCHANGED <<chats, folders>>
      BY <2>2, <3>1, <3>2 DEF deleteFolder, TypeInv, RowsInv, Table
    <3>6. Drifts(r) /\ Answers(r, req[r].on \in folders)
      BY <2>2 DEF deleteFolder
    <3>7. CASE req[r].on \in folders
      <4>1. (req[r].on \in folders) = TRUE
        BY <3>7
      <4> QED
        BY <3>3, <3>4, <3>6, <4>1
    <3>8. CASE req[r].on \notin folders
      <4>1. (req[r].on \in folders) = FALSE
        BY <3>8
      <4> QED
        BY <3>3, <3>4, <3>5, <3>6, <3>8, <4>1
    <3> QED
      BY <3>7, <3>8
  <2> QED
    BY <2>1, <2>2
<1>4. Answered(r, ok) /\ SlotsInv'
  BY <1>3, <1>a
<1>5. Served(r)
  BY <1>1, <1>2, <1>3, <1>4 DEF Served, Drifts, Queries
<1> QED
  BY <1>3, <1>4, <1>5 DEF Whole

(* A new chat is in no folder and has no link; a new folder is empty. *)
LEMMA CreateServes ==
  ASSUME ListInv, NEW r \in Requests, createChat(r) \/ createFolder(r)
  PROVE  Served(r) /\ Whole'
<1> USE DEF ListInv
<1>1. /\ req[r].pc = "sent" /\ req[r].kind \in {"create", "createFolder"} /\ req[r].kind \in ChangeKinds
      /\ UNCHANGED <<list, shelf, fetch, prompt>> /\ UNCHANGED slugs
      /\ Answers(r, TRUE) /\ Drifts(r)
  BY DEF createChat, createFolder, ChangeKinds
<1>2. Answered(r, TRUE) /\ SlotsInv'
  BY <1>1, AnswerFacts, SlotMoves
<1>3. RowsInv' /\ Shelved' /\ \A q \in Queries \ Refreshes(req[r].kind, TRUE) : RowsOf(q)' = RowsOf(q)
  <2>1. CASE createChat(r)
    <3> DEFINE row == [folder |-> None, slug |-> None]
    <3>1. row \in Row /\ row.folder = None
      BY DEF Row
    <3>2. chats' = [chats EXCEPT ![req[r].on] = row] /\ UNCHANGED folders /\ req[r].on \in Chats
      BY <2>1 DEF createChat, TypeInv, SlotsInv, SlotInv
    <3> HIDE DEF row
    <3>3. RowsInv' /\ Shelved'
      BY <1>1, <3>1, <3>2 DEF TypeInv, RowsInv, Shelved, Table
    <3> QED
      BY <2>1, <3>2, <3>3 DEF createChat, RowsOf, Refreshes, Queries
  <2>2. CASE createFolder(r)
    <3>1. req[r].on \in Folders
      BY <2>2 DEF createFolder, TypeInv, SlotsInv, SlotInv
    <3>2. RowsInv' /\ Shelved'
      BY <2>2, <3>1 DEF createFolder, TypeInv, RowsInv, Shelved
    <3> QED
      BY <2>2, <3>2 DEF createFolder, RowsOf, Refreshes, Queries
  <2> QED
    BY <2>1, <2>2
<1>4. Served(r)
  BY <1>1, <1>2, <1>3 DEF Served, Drifts, Queries
<1> QED
  BY <1>2, <1>3, <1>4 DEF Whole

(* So every step of the server is one that Served describes. *)
LEMMA ServerServes ==
  ASSUME ListInv, NEW r \in Requests, ChatsRoute(r) \/ FoldersRoute(r)
  PROVE  Served(r) /\ Whole'
BY ReadServes, UpdateServes, DeleteServes, CreateServes DEF ChatsRoute, FoldersRoute
----------------------------------------------------------------------------
(* The rest of the steps are the tab's. *)
LEMMA NextCases ==
  ASSUME ListInv, Next
  PROVE  \/ \E r \in Requests :
              \/ Begins(r) \/ ChatsRoute(r) \/ FoldersRoute(r)
              \/ Concludes(r) \/ Loses(r) \/ Vanishes(r)
         \/ \E c \in Chats : Open(c)
         \/ \E q \in Queries : Refetch(q) \/ FetchReads(q) \/ Lands(q) \/ FetchFails(q)
<1>1. DOMAIN fetch = Queries
  BY DEF ListInv, TypeInv, TabInv
<1> QED
  BY <1>1, EveryStart DEF Next, ListInv

LEMMA FetchFacts ==
  /\ NoFetch \in Fetch /\ NoFetch.pc = "none"
  /\ Asked \in Fetch /\ Asked.pc = "asked"
  /\ "chats" \in Queries /\ "folders" \in Queries
<1>1. None \in Cached
  BY DEF Cached
<1> QED
  BY <1>1 DEF NoFetch, Asked, Fetch, Queries

LEMMA TypeInit ==
  ASSUME Init
  PROVE  ListInv
<1>1. TypeInv
  <2>1. RowsInv /\ list \in Table /\ shelf \subseteq Folders
    <3>1. PICK there \in SUBSET Chats :
            chats = [c \in Chats |-> IF c \in there THEN [folder |-> None, slug |-> None] ELSE None]
      BY DEF Init
    <3>2. [folder |-> None, slug |-> None] \in Row
      BY DEF Row
    <3> QED
      BY <3>1, <3>2 DEF Init, RowsInv, Table
  <2>2. TabInv
    <3>1. NoFetch \in Fetch /\ NoFetch.pc = "none"
      BY FetchFacts
    <3>2. fetch = [q \in Queries |-> NoFetch]
      BY DEF Init, Queries
    <3>3. "chats" \in Queries /\ "folders" \in Queries /\ drift = {}
      BY DEF Queries, Init
    <3> QED
      BY <2>1, <3>1, <3>2, <3>3 DEF TabInv
  <2>3. SlotsInv
    BY FreeFacts DEF Init, SlotsInv, SlotInv, Updates
  <2> QED
    BY <2>1, <2>2, <2>3 DEF TypeInv
<1>2. Shelved
  BY DEF Init, Shelved
<1>3. ASSUME NEW q \in Queries PROVE Follows(q)
  <2>1. Copy(q) = RowsOf(q)
    BY DEF Init, Copy, RowsOf
  <2>2. fetch[q].pc = "none"
    BY <1>3 DEF Init, NoFetch, Queries
  <2> QED
    BY <2>1, <2>2 DEF Follows
<1> QED
  BY <1>1, <1>2, <1>3 DEF ListInv

(* A refetch is asked for. *)
LEMMA Invalidated ==
  ASSUME TypeInv, NEW asked, Invalidate(asked)
  PROVE  /\ fetch' \in [Queries -> Fetch]
         /\ \A q \in Queries : IF q \in asked THEN fetch'[q] = Asked ELSE fetch'[q] = fetch[q]
<1>1. Asked \in Fetch
  BY FetchFacts
<1> QED
  BY <1>1 DEF Invalidate, TypeInv, TabInv

(* Nothing of what the tab holds of the lists gets into a state it cannot be in. *)
LEMMA TabKept ==
  ASSUME TypeInv, list' \in Table, shelf' \subseteq Folders, drift' \subseteq Queries,
         fetch' \in [Queries -> Fetch],
         \A q \in Queries : fetch'[q] = fetch[q] \/ fetch'[q].pc # "read"
  PROVE  TabInv'
<1>1. "chats" \in Queries /\ "folders" \in Queries
  BY DEF Queries
<1> QED
  BY <1>1 DEF TypeInv, TabInv

LEMMA WholeKept ==
  ASSUME ListInv, UNCHANGED server, SlotsInv'
  PROVE  Whole'
BY DEF ListInv, TypeInv, RowsInv, Shelved, Whole, server

(* What a rollback puts back is a list. *)
LEMMA RestoredIn ==
  ASSUME TypeInv, NEW r \in Requests, req[r].tab = "here"
  PROVE  Restored(r) \in Table
BY DEF TypeInv, TabInv, SlotsInv, SlotInv, Restored, Updates

LEMMA TypesOfRequests ==
  ASSUME ListInv, NEW r \in Requests,
         Begins(r) \/ ChatsRoute(r) \/ FoldersRoute(r) \/ Concludes(r) \/ Loses(r) \/ Vanishes(r)
  PROVE  Whole' /\ TabInv'
<1>t. TypeInv /\ list \in Table /\ shelf \subseteq Folders /\ drift \subseteq Queries /\ fetch \in [Queries -> Fetch]
  BY DEF ListInv, TypeInv, TabInv
<1>1. CASE Begins(r)
  <2>1. Whole'
    BY <1>1, WholeKept DEF Begins
  <2>2. PICK from, kind : Shows(from, kind)
    BY <1>1 DEF Begins
  <2>3. /\ list' \in Table /\ shelf' = shelf /\ drift' = drift
        /\ fetch' = fetch \/ fetch' = [fetch EXCEPT !["chats"] = NoFetch]
    BY <1>t, <2>2 DEF Shows, tab
  <2>4. fetch' \in [Queries -> Fetch] /\ \A q \in Queries : fetch'[q] = fetch[q] \/ fetch'[q].pc # "read"
    BY <1>t, <2>3, FetchFacts
  <2>5. TabInv'
    BY <1>t, <2>3, <2>4, TabKept
  <2> QED
    BY <2>1, <2>5
<1>2. CASE ChatsRoute(r) \/ FoldersRoute(r)
  <2>1. Served(r) /\ Whole'
    BY <1>2, ServerServes
  <2>2. TabInv'
    BY <1>t, <2>1, TabKept DEF Served
  <2> QED
    BY <2>1, <2>2
<1>3. CASE Concludes(r)
  <2>1. Whole'
    BY <1>t, <1>3, OverFacts, SlotMoves, WholeKept DEF Concludes
  <2>2. list' \in Table
    BY <1>t, <1>3, RestoredIn DEF Concludes
  <2>3. /\ fetch' \in [Queries -> Fetch]
        /\ \A q \in Queries : fetch'[q] = fetch[q] \/ fetch'[q].pc # "read"
    BY <1>t, <1>3, Invalidated, FetchFacts DEF Concludes
  <2>4. TabInv'
    BY <1>t, <1>3, <2>2, <2>3, TabKept DEF Concludes
  <2> QED
    BY <2>1, <2>4
<1>4. CASE Loses(r)
  <2>1. Whole'
    BY <1>t, <1>4, LoseFacts, SlotMoves, WholeKept DEF Loses
  <2>2. list' \in Table
    BY <1>t, <1>4, RestoredIn DEF Loses
  <2>3. /\ fetch' \in [Queries -> Fetch]
        /\ \A q \in Queries : fetch'[q] = fetch[q] \/ fetch'[q].pc # "read"
    BY <1>t, <1>4, Invalidated, FetchFacts DEF Loses
  <2>4. drift' \subseteq Queries /\ shelf' = shelf
    BY <1>4 DEF Loses, Queries
  <2>5. TabInv'
    BY <1>t, <2>2, <2>3, <2>4, TabKept
  <2> QED
    BY <2>1, <2>5
<1>5. CASE Vanishes(r)
  <2>1. Whole'
    BY <1>t, <1>5, OverFacts, SlotMoves, WholeKept DEF Vanishes
  <2>2. TabInv'
    BY <1>t, <1>5, TabKept DEF Vanishes, tab
  <2> QED
    BY <2>1, <2>2
<1> QED
  BY <1>1, <1>2, <1>3, <1>4, <1>5

LEMMA TypesOfFetches ==
  ASSUME ListInv, NEW q \in Queries, Refetch(q) \/ FetchReads(q) \/ Lands(q) \/ FetchFails(q)
  PROVE  Whole' /\ TabInv'
<1>t. TypeInv /\ list \in Table /\ shelf \subseteq Folders /\ drift \subseteq Queries /\ fetch \in [Queries -> Fetch]
  BY DEF ListInv, TypeInv, TabInv
<1>1. UNCHANGED server /\ UNCHANGED req
  BY DEF Refetch, FetchReads, Lands, FetchFails
<1>2. SlotsInv'
  BY <1>1, <1>t DEF TypeInv, SlotsInv, SlotInv
<1>3. Whole'
  BY <1>1, <1>2, WholeKept
<1>4. CASE Refetch(q)
  <2>1. /\ fetch' \in [Queries -> Fetch]
        /\ \A p \in Queries : fetch'[p] = fetch[p] \/ fetch'[p].pc # "read"
    BY <1>t, <1>4, Invalidated, FetchFacts DEF Refetch
  <2> QED
    BY <1>t, <1>3, <1>4, <2>1, TabKept DEF Refetch
<1>5. CASE FetchFails(q)
  <2>1. /\ fetch' \in [Queries -> Fetch]
        /\ \A p \in Queries : fetch'[p] = fetch[p] \/ fetch'[p].pc # "read"
    BY <1>t, <1>5, FetchFacts DEF FetchFails
  <2> QED
    BY <1>t, <1>3, <1>5, <2>1, TabKept DEF FetchFails
<1>6. CASE Lands(q)
  <2>1. /\ fetch' \in [Queries -> Fetch]
        /\ \A p \in Queries : fetch'[p] = fetch[p] \/ fetch'[p].pc # "read"
    BY <1>t, <1>6, FetchFacts DEF Lands
  <2>2. list' \in Table /\ shelf' \subseteq Folders
    BY <1>t, <1>6 DEF Lands, TypeInv, TabInv, Queries
  <2> QED
    BY <1>t, <1>3, <1>6, <2>1, <2>2, TabKept DEF Lands
<1>7. CASE FetchReads(q)
  <2>1. PICK rows \in Table \cup (SUBSET Folders) :
          /\ rows = IF q = "chats" THEN chats ELSE folders
          /\ q = "chats" => rows \in Table
          /\ q = "folders" => rows \subseteq Folders
    BY <1>t DEF TypeInv, RowsInv
  <2>2. [pc |-> "read", rows |-> rows] \in Fetch
    BY DEF Fetch, Cached
  <2>3. PICK new \in Fetch : new.rows = rows /\ fetch' = [fetch EXCEPT ![q] = new]
    BY <1>7, <2>1, <2>2 DEF FetchReads
  <2>4. TabInv'
    BY <1>t, <1>7, <2>1, <2>3 DEF FetchReads, TypeInv, TabInv, Queries
  <2> QED
    BY <1>3, <2>4
<1> QED
  BY <1>4, <1>5, <1>6, <1>7 DEF Refetch, FetchReads, Lands, FetchFails
----------------------------------------------------------------------------
(* What a step must show: the tab cannot know, a change of its own is still to be fetched,
   the refetch will read the rows, or nothing of it changed and nothing that was still
   to come is over. *)
LEMMA StillFollows ==
  ASSUME NEW q \in Queries, Follows(q),
         \/ q \in drift'
         \/ \E r \in Requests : Pends(r, q)'
         \/ fetch'[q].pc = "asked"
         \/ /\ fetch'[q] = fetch[q] /\ Copy(q)' = Copy(q) /\ RowsOf(q)' = RowsOf(q)
            /\ q \notin drift' => q \notin drift
            /\ \A r \in Requests : Pends(r, q) => Pends(r, q)'
  PROVE  Follows(q)'
BY DEF Follows, Settled

(* The other requests are as they were, and so is what they will fetch. *)
LEMMA OthersPend ==
  ASSUME NEW r \in Requests, NEW q \in Queries, Others(r), ~Pends(r, q)
  PROVE  \A p \in Requests : Pends(p, q) => Pends(p, q)'
BY DEF Others, Pends

(* Invariant Follows, by the four kinds of step. *)
LEMMA StartFollows ==
  ASSUME ListInv, NEW r \in Requests, NEW q \in Queries, Begins(r)
  PROVE  Follows(q)'
<1>1. PICK from, kind, on, to : Started(r, from, kind, on, to) /\ Shows(from, kind)
  BY DEF Begins
<1>2. ~Pends(r, q)
  BY <1>1 DEF Started, Pends, ListInv, TypeInv, SlotsInv, SlotInv
<1>3. CASE from = "here" /\ kind \in Updates
  <2>1. Pends(r, q)'
    BY <1>1, <1>3 DEF Started, Pends
  <2> QED
    BY <2>1, StillFollows DEF ListInv
<1>4. CASE ~(from = "here" /\ kind \in Updates)
  <2>1. /\ fetch'[q] = fetch[q] /\ Copy(q)' = Copy(q) /\ RowsOf(q)' = RowsOf(q) /\ drift' = drift
    BY <1>1, <1>4 DEF Shows, tab, server, Copy, RowsOf, Begins
  <2>2. \A p \in Requests : Pends(p, q) => Pends(p, q)'
    BY <1>1, <1>2, OthersPend DEF Started
  <2> QED
    BY <2>1, <2>2, StillFollows DEF ListInv
<1> QED
  BY <1>3, <1>4

LEMMA ServerFollows ==
  ASSUME ListInv, NEW r \in Requests, NEW q \in Queries, Served(r)
  PROVE  Follows(q)'
<1>1. CASE drift' = Queries
  BY <1>1, StillFollows DEF ListInv
<1>2. CASE drift' = drift
  <2>1. fetch'[q] = fetch[q] /\ Copy(q)' = Copy(q)
    BY DEF Served, Copy
  <2>2. Pends(r, q) => req[r].tab = "here" /\ req[r].kind \in Updates
    BY DEF Served, Pends
  <2>3. CASE UNCHANGED <<chats, folders>> /\ (Answered(r, FALSE) \/ \E slug : HasRead(r, slug))
    <3>1. Others(r) /\ (Pends(r, q) => Pends(r, q)')
      BY <2>2, <2>3 DEF Answered, HasRead, SameRequest, Pends
    <3>2. \A p \in Requests : Pends(p, q) => Pends(p, q)'
      BY <3>1 DEF Others, Pends
    <3> QED
      BY <1>2, <2>1, <2>3, <3>2, StillFollows DEF ListInv, RowsOf
  <2>4. CASE /\ Answered(r, TRUE)
             /\ req[r].tab # "here" => drift' = Queries
             /\ \A p \in Queries \ Refreshes(req[r].kind, TRUE) : RowsOf(p)' = RowsOf(p)
    <3>1. CASE req[r].tab # "here"
      BY <1>1, <2>4, <3>1
    <3>2. CASE req[r].tab = "here" /\ q \in Refreshes(req[r].kind, TRUE)
      <4>1. Pends(r, q)'
        <5>1. PICK k : k = req[r].kind
          OBVIOUS
        <5>2. q \in Refreshes(k, TRUE) /\ req'[r].kind = k
          BY <2>4, <3>2, <5>1 DEF Answered, SameRequest
        <5>3. q \in Refreshes(req'[r].kind, TRUE)
          BY <5>2
        <5> QED
          BY <2>4, <3>2, <5>3 DEF Answered, SameRequest, Pends
      <4> QED
        BY <4>1, StillFollows DEF ListInv
    <3>3. CASE q \notin Refreshes(req[r].kind, TRUE)
      <4>1. req[r].kind \notin Updates
        BY <3>3 DEF Refreshes, Updates, Queries
      <4>2. \A p \in Requests : Pends(p, q) => Pends(p, q)'
        BY <2>2, <2>4, <4>1, OthersPend DEF Answered, SameRequest
      <4> QED
        BY <1>2, <2>1, <2>4, <3>3, <4>2, StillFollows DEF ListInv
    <3> QED
      BY <3>1, <3>2, <3>3
  <2> QED
    BY <2>3, <2>4 DEF Served
<1> QED
  BY <1>1, <1>2 DEF Served

LEMMA OverFollows ==
  ASSUME ListInv, NEW r \in Requests, NEW q \in Queries, Concludes(r) \/ Loses(r) \/ Vanishes(r)
  PROVE  Follows(q)'
<1>t. TypeInv /\ Follows(q)
  BY DEF ListInv
<1>1. CASE Concludes(r)
  <2>1. /\ IsOver(r) /\ drift' = drift /\ RowsOf(q)' = RowsOf(q) /\ shelf' = shelf
        /\ req[r].pc = "answered" /\ req[r].kind \in ChangeKinds /\ req[r].ok \in BOOLEAN
    BY <1>t, <1>1, OverFacts DEF Concludes, server, RowsOf, TypeInv, SlotsInv, SlotInv, Slot
  <2>2. CASE q \in Refreshes(req[r].kind, req[r].ok)
    <3>1. fetch'[q] = Asked
      BY <1>t, <1>1, <2>2, Invalidated DEF Concludes
    <3> QED
      BY <1>t, <3>1, FetchFacts, StillFollows
  <2>3. CASE q \notin Refreshes(req[r].kind, req[r].ok)
    <3>1. fetch'[q] = fetch[q]
      BY <1>t, <1>1, <2>3, Invalidated DEF Concludes
    <3>2. req[r].kind \notin Updates
      BY <2>3 DEF Refreshes, Updates, Queries
    <3>3. list' = list
      BY <1>1, <3>2 DEF Concludes, Restored, Updates
    <3>4. ~Pends(r, q)
      <4>1. PICK k, ok : k = req[r].kind /\ ok = req[r].ok
        OBVIOUS
      <4>2. ok \in BOOLEAN /\ q \notin Refreshes(k, ok)
        BY <2>1, <2>3, <4>1
      <4>3. ~(ok /\ q \in Refreshes(k, TRUE))
        <5>1. CASE ok = TRUE
          BY <4>2, <5>1
        <5>2. CASE ok = FALSE
          BY <5>2
        <5> QED
          BY <4>2, <5>1, <5>2
      <4> QED
        BY <3>2, <4>1, <4>3 DEF Pends
    <3>5. \A p \in Requests : Pends(p, q) => Pends(p, q)'
      BY <2>1, <3>4, OthersPend DEF IsOver
    <3> QED
      BY <1>t, <2>1, <3>1, <3>3, <3>5, StillFollows DEF Copy
  <2> QED
    BY <2>2, <2>3
<1>2. CASE Loses(r)
  BY <1>t, <1>2, StillFollows DEF Loses, Queries
<1>3. CASE Vanishes(r)
  <2>1. ~Pends(r, q) /\ Others(r)
    BY <1>t, <1>3, OverFacts DEF Vanishes, Pends, IsOver
  <2>2. \A p \in Requests : Pends(p, q) => Pends(p, q)'
    BY <2>1, OthersPend
  <2> QED
    BY <1>t, <1>3, <2>2, StillFollows DEF Vanishes, server, tab, Copy, RowsOf
<1> QED
  BY <1>1, <1>2, <1>3

LEMMA FetchFollows ==
  ASSUME ListInv, NEW a \in Queries, NEW q \in Queries,
         Refetch(a) \/ FetchReads(a) \/ Lands(a) \/ FetchFails(a)
  PROVE  Follows(q)'
<1>t. TypeInv /\ Follows(q) /\ fetch \in [Queries -> Fetch]
  BY DEF ListInv, TypeInv, TabInv
<1>1. UNCHANGED req /\ RowsOf(q)' = RowsOf(q)
  BY DEF Refetch, FetchReads, Lands, FetchFails, server, RowsOf
<1>2. \A r \in Requests : Pends(r, q) <=> Pends(r, q)'
  BY <1>1 DEF Pends
<1>3. CASE a # q
  <2>1. fetch'[q] = fetch[q]
    <3>1. Refetch(a) => fetch'[q] = fetch[q]
      BY <1>t, <1>3, Invalidated DEF Refetch
    <3> QED
      BY <1>3, <1>t, <3>1 DEF FetchReads, Lands, FetchFails
  <2>2. Copy(q)' = Copy(q)
    BY <1>3 DEF Refetch, FetchReads, Lands, FetchFails, Copy, Queries
  <2>3. q \notin drift' => q \notin drift
    BY <1>3 DEF Refetch, FetchReads, Lands, FetchFails
  <2> QED
    BY <1>t, <1>1, <1>2, <2>1, <2>2, <2>3, StillFollows
<1>4. CASE a = q /\ Refetch(q)
  <2>1. fetch'[q] = Asked
    BY <1>t, <1>4, Invalidated DEF Refetch
  <2> QED
    BY <1>t, <2>1, FetchFacts, StillFollows
<1>5. CASE a = q /\ FetchFails(q)
  BY <1>t, <1>5, StillFollows DEF FetchFails
<1>6. CASE a = q /\ FetchReads(q)
  <2>1. fetch'[q].pc = "read" /\ fetch'[q].rows = RowsOf(q)
    BY <1>t, <1>6 DEF FetchReads, RowsOf
  <2> QED
    BY <1>1, <2>1 DEF Follows
<1>7. CASE a = q /\ Lands(q)
  <2>1. fetch[q].pc = "read" /\ drift' = drift /\ fetch'[q].pc = "none" /\ Copy(q)' = fetch[q].rows
    BY <1>t, <1>7, FetchFacts DEF Lands, Copy, Queries
  <2>2. Settled(q)' => Settled(q)
    BY <1>2, <2>1 DEF Settled
  <2>3. Settled(q) => fetch[q].rows = RowsOf(q)
    BY <1>t, <2>1 DEF Follows
  <2> QED
    BY <1>1, <2>1, <2>2, <2>3 DEF Follows
<1> QED
  BY <1>3, <1>4, <1>5, <1>6, <1>7

(* A step in which rows, tab and requests stay as they are. *)
LEMMA ListIdles ==
  ASSUME ListInv, UNCHANGED <<server, tab, req>>
  PROVE  ListInv'
<1>1. TypeInv'
  BY DEF ListInv, TypeInv, RowsInv, TabInv, SlotsInv, SlotInv, server, tab
<1>2. Shelved'
  BY DEF ListInv, Shelved, server
<1>3. ASSUME NEW q \in Queries PROVE Follows(q)'
  BY <1>3 DEF ListInv, Follows, Settled, Pends, Copy, RowsOf, server, tab
<1> QED
  BY <1>1, <1>2, <1>3 DEF ListInv

LEMMA ListStep ==
  ASSUME ListInv, [Next]_vars
  PROVE  ListInv'
<1>1. CASE UNCHANGED vars
  BY <1>1, ListIdles DEF vars
<1>2. CASE \E c \in Chats : Open(c)
  BY <1>2, ListIdles DEF Open
<1>3. ASSUME NEW r \in Requests,
             \/ Begins(r) \/ ChatsRoute(r) \/ FoldersRoute(r)
             \/ Concludes(r) \/ Loses(r) \/ Vanishes(r)
      PROVE ListInv'
  <2>1. Whole' /\ TabInv'
    BY <1>3, TypesOfRequests
  <2>2. \A q \in Queries : Follows(q)'
    BY <1>3, StartFollows, ServerServes, ServerFollows, OverFollows
  <2> QED
    BY <2>1, <2>2 DEF Whole, ListInv, TypeInv
<1>4. ASSUME NEW q \in Queries, Refetch(q) \/ FetchReads(q) \/ Lands(q) \/ FetchFails(q)
      PROVE ListInv'
  <2>1. Whole' /\ TabInv'
    BY <1>4, TypesOfFetches
  <2>2. \A p \in Queries : Follows(p)'
    BY <1>4, FetchFollows
  <2> QED
    BY <2>1, <2>2 DEF Whole, ListInv, TypeInv
<1> QED
  BY <1>1, <1>2, <1>3, <1>4, NextCases

(* Requests, refetches and rows are what they can be; a chat is in a folder that exists; and
   what the tab shows follows the rows whenever nothing of its own is still to come
   (useUpdateChat, useDeleteChat and their invalidations). *)
THEOREM ListInvariant == Spec => []ListInv
<1>1. Init => ListInv
  BY TypeInit
<1>2. ListInv /\ [Next]_vars => ListInv'
  BY ListStep
<1> QED
  BY <1>1, <1>2, PTL DEF Spec

(* When the tab's own changes are over and its refetches have arrived, its lists are the
   rows, whatever successes, failures and rollbacks came between (onMutate, onError and
   onSettled of useUpdateChat). *)
THEOREM ListSettles == Spec => []ListConverges
<1>1. ListInv => ListConverges
  <2> SUFFICES ASSUME ListInv, Quiet
               PROVE /\ "chats" \notin drift => list = chats
                     /\ "folders" \notin drift => shelf = folders
    BY DEF ListConverges
  <2>1. ASSUME NEW q \in Queries, q \notin drift PROVE Copy(q) = RowsOf(q)
    <3>1. Settled(q)
      BY <2>1 DEF Quiet, Settled, Pends
    <3>2. fetch[q].pc = "none"
      BY <2>1 DEF Quiet, ListInv, TypeInv, TabInv
    <3> QED
      BY <3>1, <3>2, <2>1 DEF ListInv, Follows
  <2> QED
    BY <2>1 DEF Copy, RowsOf, Queries
<1> QED
  BY <1>1, ListInvariant, PTL
----------------------------------------------------------------------------
(* A request that is answered has read nothing any more. *)
LEMMA AnsweredOnly ==
  ASSUME TypeInv, NEW r \in Requests, NEW ok, Answers(r, ok)
  PROVE  \A q \in Requests : req'[q].pc = "read" => req'[q] = req[q] /\ q # r
<1>1. PICK old \in Slot : old = req[r]
  BY DEF TypeInv, SlotsInv
<1>2. [old EXCEPT !.pc = "answered", !.ok = ok].pc = "answered"
  BY DEF Slot
<1>3. req' = [req EXCEPT ![r] = [old EXCEPT !.pc = "answered", !.ok = ok]]
  BY <1>1 DEF Answers
<1> QED
  BY <1>2, <1>3 DEF TypeInv, SlotsInv

(* No chat comes to exist, and what is read is a chat that does. *)
LEMMA MadeKept ==
  ASSUME MadeInv, made \subseteq made',
         \A c \in Chats : chats'[c] # None => chats[c] # None,
         \A r \in Requests : Making(r)' => Making(r) /\ req'[r].on = req[r].on,
         \A r \in Requests : req'[r].pc = "read" =>
           \/ req[r].pc = "read" /\ req'[r].on = req[r].on
           \/ chats[req'[r].on] # None
  PROVE  MadeInv'
<1>1. \A c \in Chats : chats'[c] # None => c \in made'
  BY DEF MadeInv
<1>2. \A r \in Requests : Making(r)' => req'[r].on \in Chats /\ chats'[req'[r].on] = None
  BY DEF MadeInv
<1>3. ASSUME NEW r \in Requests, NEW q \in Requests, Making(r)', q # r, Making(q)' \/ req'[q].pc = "read"
      PROVE  req'[q].on # req'[r].on
  BY <1>3 DEF MadeInv
<1> QED
  BY <1>1, <1>2, <1>3 DEF MadeInv

(* What the requests do that no step of the server is needed for. *)
LEMMA MadeIdles ==
  ASSUME MadeInv, UNCHANGED server,
         \/ UNCHANGED req
         \/ \E r \in Requests : IsOver(r) \/ GivenUp(r)
  PROVE  MadeInv'
<1>1. \A r \in Requests : req'[r].pc \in {"sent", "read"} =>
        req'[r].pc = req[r].pc /\ req'[r].kind = req[r].kind /\ req'[r].on = req[r].on
  BY FreeFacts DEF IsOver, GivenUp, SameRequest, Others
<1> QED
  BY <1>1, MadeKept DEF server, Making

LEMMA MadeBegins ==
  ASSUME MadeInv, NEW r \in Requests, Begins(r)
  PROVE  MadeInv'
<1>1. PICK from \in {"here", "elsewhere"}, kind \in ChangeKinds, on \in Chats \cup Folders,
           to \in Folders \cup BOOLEAN \cup {None} :
        Started(r, from, kind, on, to) /\ Fresh(kind, on)
  BY DEF Begins
<1>2. /\ req'[r].pc = "sent" /\ req'[r].kind = kind /\ req'[r].on = on
      /\ \A q \in Requests \ {r} : req'[q] = req[q]
  BY <1>1 DEF Started, Others
<1>3. chats' = chats /\ made' = made
  BY DEF Begins, server
<1>4. \A q \in Requests \ {r} : Making(q)' <=> Making(q)
  BY <1>2 DEF Making
<1>5. CASE kind # "create"
  <2>1. ~Making(r)'
    BY <1>2, <1>5 DEF Making
  <2> QED
    BY <1>2, <1>3, <1>4, <2>1 DEF MadeInv
<1>6. CASE kind = "create"
  <2>1. on \notin made /\ \A q \in Requests : req[q].on # on
    BY <1>1, <1>6 DEF Fresh
  <2>2. on \in Chats
    BY <1>2, <1>6 DEF Begins, SlotsInv, SlotInv
  <2>3. chats[on] = None
    BY <2>1, <2>2 DEF MadeInv
  <2>4. \A q \in Requests : Making(q)' => req'[q].on \in Chats /\ chats'[req'[q].on] = None
    BY <1>2, <1>3, <1>4, <2>2, <2>3 DEF MadeInv
  <2>5. ASSUME NEW p \in Requests, NEW q \in Requests, Making(p)', q # p, Making(q)' \/ req'[q].pc = "read"
        PROVE  req'[q].on # req'[p].on
    BY <1>2, <1>4, <2>1, <2>5 DEF MadeInv
  <2> QED
    BY <1>3, <2>4, <2>5 DEF MadeInv
<1> QED
  BY <1>5, <1>6

LEMMA MadeServed ==
  ASSUME ListInv, MadeInv, NEW r \in Requests, ChatsRoute(r) \/ FoldersRoute(r)
  PROVE  MadeInv'
<1>t. TypeInv
  BY DEF ListInv
<1>1. req[r].pc \in {"sent", "read"} /\ SameRequest(r) /\ req'[r].pc \in {"read", "answered"}
  BY ServerServes DEF Served, Answered, HasRead
<1>2. /\ req'[r].on = req[r].on /\ ~Making(r)'
      /\ \A q \in Requests \ {r} : req'[q] = req[q] /\ (Making(q)' <=> Making(q))
  BY <1>1 DEF SameRequest, Others, Making
<1>3. CASE createChat(r)
  <2>1. /\ Making(r) /\ req[r].on \in Chats /\ made' = made \cup {req[r].on}
        /\ \E ok \in BOOLEAN : Answers(r, ok)
    BY <1>3, <1>t DEF createChat, Making, TypeInv, SlotsInv, SlotInv
  <2>2. /\ req'[r].pc = "answered"
        /\ \A c \in Chats \ {req[r].on} : chats'[c] = chats[c]
    BY <1>3, <2>1, <1>t, AnswerFacts DEF Answered, createChat, TypeInv, RowsInv, Table
  <2>3. \A c \in Chats : chats'[c] # None => c \in made'
    BY <2>1, <2>2 DEF MadeInv
  <2>4. \A q \in Requests : Making(q)' => req'[q].on \in Chats /\ chats'[req'[q].on] = None
    BY <1>2, <2>1, <2>2 DEF MadeInv
  <2>5. ASSUME NEW p \in Requests, NEW q \in Requests, Making(p)', q # p, Making(q)' \/ req'[q].pc = "read"
        PROVE  req'[q].on # req'[p].on
    BY <1>2, <2>2, <2>5 DEF MadeInv
  <2> QED
    BY <2>3, <2>4, <2>5 DEF MadeInv
<1>4. CASE Read(r)
  <2>1. UNCHANGED server /\ req[r].on \in Chats
    BY <1>4, <1>t DEF Read, TypeInv, SlotsInv, SlotInv, Updates
  <2>2. req'[r].pc = "read" => chats[req[r].on] # None
    BY <1>4, <1>t, AnswerFacts DEF Read, Answered
  <2> QED
    BY <1>2, <2>1, <2>2, MadeKept DEF server
<1>5. CASE Update(r) \/ deleteChat(r) \/ deleteFolder(r) \/ createFolder(r)
  <2>1. made \subseteq made' /\ \E ok : Answers(r, ok)
    BY <1>5 DEF Update, server, deleteChat, deleteFolder, createFolder
  <2>2. req'[r].pc # "read"
    BY <2>1, <1>t, AnsweredOnly
  <2>3. \A c \in Chats : chats'[c] # None => chats[c] # None
    <3>1. CASE Update(r)
      BY <3>1, <1>t DEF Update, server, TypeInv, RowsInv, Table
    <3>2. CASE deleteChat(r) \/ deleteFolder(r) \/ createFolder(r)
      BY <3>2, <1>t DEF deleteChat, deleteFolder, createFolder, TypeInv, RowsInv, Table
    <3> QED
      BY <1>5, <3>1, <3>2
  <2> QED
    BY <1>2, <2>1, <2>2, <2>3, MadeKept
<1> QED
  BY <1>3, <1>4, <1>5 DEF ChatsRoute, FoldersRoute

LEMMA MadeStep ==
  ASSUME ListInv, MadeInv, [Next]_vars
  PROVE  MadeInv'
<1>t. TypeInv
  BY DEF ListInv
<1>1. CASE UNCHANGED vars
  BY <1>1, MadeIdles DEF vars
<1>2. CASE \E c \in Chats : Open(c)
  BY <1>2, MadeIdles DEF Open
<1>3. CASE \E q \in Queries : Refetch(q) \/ FetchReads(q) \/ Lands(q) \/ FetchFails(q)
  BY <1>3, MadeIdles DEF Refetch, FetchReads, Lands, FetchFails
<1>4. ASSUME NEW r \in Requests, Begins(r) PROVE MadeInv'
  BY <1>4, MadeBegins
<1>5. ASSUME NEW r \in Requests, ChatsRoute(r) \/ FoldersRoute(r) PROVE MadeInv'
  BY <1>5, MadeServed
<1>6. ASSUME NEW r \in Requests, Concludes(r) \/ Vanishes(r) PROVE MadeInv'
  <2>1. IsOver(r) /\ UNCHANGED server
    BY <1>t, <1>6, OverFacts DEF Concludes, Vanishes
  <2> QED
    BY <2>1, MadeIdles
<1>7. ASSUME NEW r \in Requests, Loses(r) PROVE MadeInv'
  BY <1>t, <1>7, LoseFacts, MadeIdles DEF Loses
<1> QED
  BY <1>1, <1>2, <1>3, <1>4, <1>5, <1>6, <1>7, NextCases

(* "No link" is none that ended. *)
LEMMA NoneEnded ==
  ASSUME TypeInv, LinkInv
  PROVE  None \notin 1 .. slugs /\ None \notin gone
<1>1. gone \subseteq 1 .. slugs /\ slugs \in Nat
  BY DEF LinkInv, TypeInv, RowsInv
<1>2. \A x \in 1 .. slugs : x \in Nat
  BY <1>1
<1> QED
  BY <1>1, <1>2, ListAssumption

(* No request learns a link, and no chat gets one. *)
LEMMA LinksKept ==
  ASSUME TypeInv, LinkInv, gone' = gone, slugs' = slugs,
         \A c \in Chats : chats'[c] # None =>
           chats'[c].slug = None \/ (chats[c] # None /\ chats'[c].slug = chats[c].slug),
         \A r \in Requests : req'[r].pc = "read" =>
           /\ req[r].pc = "read" /\ req'[r].seen = req[r].seen /\ req'[r].on = req[r].on
           /\ req'[r].kind = req[r].kind /\ req'[r].to = req[r].to
           /\ chats[req[r].on] = None => chats'[req[r].on] = None
  PROVE  LinkInv'
<1>1. None \notin gone
  BY NoneEnded
<1>2. /\ gone' \subseteq 1 .. slugs'
      /\ \A c \in Chats : chats'[c] # None => chats'[c].slug \in (1 .. slugs') \cup {None}
      /\ \A r \in Requests : req'[r].pc = "read" => req'[r].seen \in (1 .. slugs') \cup {None}
  BY DEF LinkInv
<1>3. \A c, d \in Chats :
        c # d /\ chats'[c] # None /\ chats'[d] # None /\ chats'[c].slug # None =>
          chats'[c].slug # chats'[d].slug
  BY DEF LinkInv
<1>4. \A r \in Requests, d \in Chats :
        req'[r].pc = "read" /\ req'[r].seen # None /\ d # req'[r].on /\ chats'[d] # None =>
          chats'[d].slug # req'[r].seen
  BY DEF LinkInv
<1>5. \A r, q \in Requests :
        req'[r].pc = "read" /\ req'[q].pc = "read" /\ req'[r].seen # None /\ req'[r].on # req'[q].on =>
          req'[r].seen # req'[q].seen
  BY DEF LinkInv
<1>6. ASSUME NEW r \in Requests, Sharing(r)', req'[r].seen # None
      PROVE  req'[r].seen \notin gone' \/ chats'[req'[r].on] = None
  <2>1. Sharing(r) /\ req[r].seen # None
    BY <1>6 DEF Sharing
  <2> QED
    BY <1>6, <2>1 DEF LinkInv, Sharing
<1>7. LinksEndForGood'
  BY <1>1 DEF LinkInv, LinksEndForGood
<1> QED
  BY <1>2, <1>3, <1>4, <1>5, <1>6, <1>7 DEF LinkInv

(* What the requests do that no step of the server is needed for. *)
LEMMA NothingLearnt ==
  ASSUME TypeInv, LinkInv, UNCHANGED server,
         \/ UNCHANGED req
         \/ \E r \in Requests :
              \/ Others(r) /\ req'[r].pc # "read"
              \/ GivenUp(r)
              \/ \E ok : Answered(r, ok)
  PROVE  LinkInv'
<1>1. \A r \in Requests : req'[r].pc = "read" =>
        /\ req[r].pc = "read" /\ req'[r].seen = req[r].seen /\ req'[r].on = req[r].on
        /\ req'[r].kind = req[r].kind /\ req'[r].to = req[r].to
  BY DEF Others, GivenUp, Answered, SameRequest
<1> QED
  BY <1>1, LinksKept DEF server

LEMMA ReadLinks ==
  ASSUME ListInv, LinkInv, NEW r \in Requests, Read(r)
  PROVE  LinkInv'
<1>t. TypeInv /\ UNCHANGED server
  BY DEF ListInv, Read
<1>1. CASE Answers(r, FALSE)
  BY <1>1, <1>t, AnswerFacts, NothingLearnt
<1>2. CASE /\ chats[req[r].on] # None
           /\ req' = [req EXCEPT ![r].pc = "read", ![r].seen = chats[req[r].on].slug]
  <2>0. PICK c \in Chats : c = req[r].on
    BY <1>t DEF Read, TypeInv, SlotsInv, SlotInv, Updates
  <2>1. PICK slug \in Nat \cup {None} : slug = chats[c].slug
    BY <2>0, <1>2, <1>t, RowIn DEF Row
  <2>2. HasRead(r, slug) /\ chats[c] # None
    BY <1>t, <1>2, <2>0, <2>1, ReadFacts
  <2>3. /\ req'[r].pc = "read" /\ req'[r].seen = slug /\ req'[r].on = c
        /\ \A q \in Requests \ {r} : req'[q] = req[q]
    BY <2>0, <2>2 DEF HasRead, SameRequest, Others
  <2>4. chats' = chats /\ gone' = gone /\ slugs' = slugs
    BY <1>t DEF server
  <2>5. slug \in (1 .. slugs) \cup {None}
    BY <2>1, <2>2 DEF LinkInv
  <2>6. \A q \in Requests : req'[q].pc = "read" => req'[q].seen \in (1 .. slugs) \cup {None}
    BY <2>3, <2>5 DEF LinkInv
  <2>7. \A d \in Chats : d # c /\ chats[d] # None /\ slug # None => chats[d].slug # slug
    BY <2>1, <2>2 DEF LinkInv
  <2>8. \A q \in Requests, d \in Chats :
          req'[q].pc = "read" /\ req'[q].seen # None /\ d # req'[q].on /\ chats[d] # None =>
            chats[d].slug # req'[q].seen
    BY <2>3, <2>7 DEF LinkInv
  <2>9. \A q \in Requests \ {r} :
          req[q].pc = "read" /\ req[q].seen # None /\ c # req[q].on => slug # req[q].seen
    BY <2>1, <2>2 DEF LinkInv
  <2>10. \A p, q \in Requests :
           req'[p].pc = "read" /\ req'[q].pc = "read" /\ req'[p].seen # None /\ req'[p].on # req'[q].on =>
             req'[p].seen # req'[q].seen
    BY <2>3, <2>9 DEF LinkInv
  <2>11. slug \notin gone /\ LinksEndForGood'
    BY <2>1, <2>2, <2>4 DEF LinkInv, LinksEndForGood
  <2>12. ASSUME NEW q \in Requests, Sharing(q)', req'[q].seen # None
         PROVE  req'[q].seen \notin gone \/ chats[req'[q].on] = None
    <3>1. CASE q = r
      BY <2>3, <2>11, <3>1
    <3>2. CASE q # r
      <4>1. req'[q] = req[q] /\ Sharing(q)
        BY <2>3, <2>12, <3>2 DEF Sharing
      <4> QED
        BY <2>12, <4>1 DEF LinkInv
    <3> QED
      BY <3>1, <3>2
  <2> QED
    BY <2>4, <2>6, <2>8, <2>10, <2>11, <2>12 DEF LinkInv
<1> QED
  BY <1>1, <1>2 DEF Read

(* The chat has another link, or none: the one it had has ended if nobody holds it. *)
LEMMA LinkEnds ==
  ASSUME ListInv, LinkInv, NEW r \in Requests, NEW c \in Chats, NEW slug,
         chats[c] # None, chats'[c].slug = slug,
         \A d \in Chats \ {c} : chats'[d] = chats[d],
         \A q \in Requests : req'[q].pc = "read" => q # r /\ req'[q] = req[q],
         slug = None \/ slug \notin gone, slugs' \in {slugs, slugs + 1},
         gone' = gone \cup ({chats[c].slug} \ (Held(r) \cup {slug, None}))
  PROVE  /\ gone' \subseteq 1 .. slugs'
         /\ \A q \in Requests :
              Sharing(q)' /\ req'[q].seen # None => req'[q].seen \notin gone' \/ chats'[req'[q].on] = None
         /\ LinksEndForGood'
<1>t. TypeInv /\ slugs \in Nat /\ None \notin gone
  BY NoneEnded DEF ListInv, TypeInv, RowsInv
<1>1. gone \subseteq 1 .. slugs /\ chats[c].slug \in (1 .. slugs) \cup {None}
  BY DEF LinkInv
<1>2. gone' \subseteq 1 .. slugs /\ None \notin gone'
  BY <1>t, <1>1
<1>3. gone' \subseteq 1 .. slugs'
  BY <1>t, <1>2
<1>4. ASSUME NEW q \in Requests, Sharing(q)', req'[q].seen # None
      PROVE  req'[q].seen \notin gone' \/ chats'[req'[q].on] = None
  <2>1. q # r /\ req'[q] = req[q] /\ Sharing(q)
    BY <1>4 DEF Sharing
  <2>2. req[q].seen \in Held(r)
    BY <2>1 DEF Sharing, Held
  <2>3. req[q].seen \notin gone \/ chats[req[q].on] = None
    BY <1>4, <2>1 DEF LinkInv
  <2>4. chats[req[q].on] = None => req[q].on # c
    OBVIOUS
  <2>5. req[q].on \in Chats
    BY <1>t, <2>1 DEF Sharing, TypeInv, SlotsInv, SlotInv, Updates
  <2> QED
    BY <2>1, <2>2, <2>3, <2>4, <2>5
<1>5. ASSUME NEW d \in Chats, chats'[d] # None PROVE chats'[d].slug \notin gone'
  <2>1. CASE d = c
    BY <1>2, <2>1
  <2>2. CASE d # c
    <3>1. chats[d] # None /\ chats'[d].slug = chats[d].slug /\ chats[d].slug \notin gone
      BY <1>5, <2>2 DEF LinkInv, LinksEndForGood
    <3>2. chats[c].slug = None \/ chats[c].slug # chats[d].slug
      BY <2>2, <3>1 DEF LinkInv
    <3> QED
      BY <3>1, <3>2
  <2> QED
    BY <2>1, <2>2
<1> QED
  BY <1>3, <1>4, <1>5 DEF LinksEndForGood

(* The chat gets the link that the request read, or the next new one. *)
LEMMA ShareLinks ==
  ASSUME ListInv, LinkInv, NEW r \in Requests, NEW c \in Chats, NEW slug,
         c = req[r].on, Sharing(r), chats[c] # None, Answered(r, TRUE),
         chats' = [chats EXCEPT ![c].slug = slug],
         slug = Link(r), slugs' = IF slug = slugs + 1 THEN slugs + 1 ELSE slugs,
         gone' = gone \cup ({chats[c].slug} \ (Held(r) \cup {slug, None}))
  PROVE  LinkInv'
<1>t. TypeInv /\ slugs \in Nat /\ req[r].pc = "read"
  BY DEF ListInv, TypeInv, RowsInv, Sharing
<1>1. PICK row \in Row : row = chats[c]
  BY <1>t, RowIn
<1>2. /\ chats'[c] = [row EXCEPT !.slug = slug] /\ [row EXCEPT !.slug = slug].slug = slug
      /\ \A d \in Chats \ {c} : chats'[d] = chats[d]
  BY <1>t, <1>1 DEF TypeInv, RowsInv, Table, Row
<1>3. chats'[c].slug = slug /\ \A d \in Chats \ {c} : chats'[d] = chats[d]
  BY <1>2
<1>4. \A q \in Requests : req'[q].pc = "read" => q # r /\ req'[q] = req[q]
  BY DEF Answered, SameRequest, Others
<1>5. CASE req[r].seen # None
  <2>1. slug = req[r].seen /\ slug \in 1 .. slugs
    BY <1>5, <1>t DEF Link, LinkInv
  <2>2. slugs' = slugs
    BY <1>t, <2>1
  <2>3. /\ \A d \in Chats : chats'[d] # None => chats'[d].slug \in (1 .. slugs) \cup {None}
        /\ \A q \in Requests : req'[q].pc = "read" => req'[q].seen \in (1 .. slugs) \cup {None}
    BY <1>3, <1>4, <2>1 DEF LinkInv
  <2>4. \A d \in Chats \ {c} : chats[d] # None => chats[d].slug # slug
    BY <2>1, <1>5, <1>t DEF LinkInv
  <2>5. \A d, e \in Chats :
          d # e /\ chats'[d] # None /\ chats'[e] # None /\ chats'[d].slug # None =>
            chats'[d].slug # chats'[e].slug
    BY <1>3, <2>4 DEF LinkInv
  <2>6. \A q \in Requests :
          req[q].pc = "read" /\ req[q].seen # None /\ req[q].on # c => slug # req[q].seen
    BY <2>1, <1>t DEF LinkInv
  <2>7. \A q \in Requests, d \in Chats :
          req'[q].pc = "read" /\ req'[q].seen # None /\ d # req'[q].on /\ chats'[d] # None =>
            chats'[d].slug # req'[q].seen
    BY <1>3, <1>4, <2>6 DEF LinkInv
  <2>8. \A p, q \in Requests :
          req'[p].pc = "read" /\ req'[q].pc = "read" /\ req'[p].seen # None /\ req'[p].on # req'[q].on =>
            req'[p].seen # req'[q].seen
    BY <1>4 DEF LinkInv
  <2>9. slug \notin gone
    BY <2>1, <1>5 DEF LinkInv
  <2>10. /\ gone' \subseteq 1 .. slugs'
         /\ \A q \in Requests :
              Sharing(q)' /\ req'[q].seen # None => req'[q].seen \notin gone' \/ chats'[req'[q].on] = None
         /\ LinksEndForGood'
    BY <1>3, <1>4, <2>2, <2>9, LinkEnds
  <2> QED
    BY <2>2, <2>3, <2>5, <2>7, <2>8, <2>10 DEF LinkInv
<1>6. CASE req[r].seen = None
  <2>1. slug = slugs + 1 /\ slugs' = slugs + 1 /\ slug # None
    BY <1>6, <1>t, ListAssumption DEF Link
  <2>2. \A x \in (1 .. slugs) \cup {None} : x \in (1 .. slugs') \cup {None} /\ x # slug
    BY <1>t, <2>1
  <2>3. slug \in 1 .. slugs' /\ slug \notin gone
    BY <1>t, <2>1 DEF LinkInv
  <2>4. \A d \in Chats : chats[d] # None => chats[d].slug \in (1 .. slugs') \cup {None} /\ chats[d].slug # slug
    BY <2>2 DEF LinkInv
  <2>5. \A q \in Requests : req'[q].pc = "read" =>
          req'[q].seen \in (1 .. slugs') \cup {None} /\ req'[q].seen # slug
    BY <1>4, <2>2 DEF LinkInv
  <2>6. \A d \in Chats : chats'[d] # None => chats'[d].slug \in (1 .. slugs') \cup {None}
    BY <1>3, <2>3, <2>4
  <2>7. \A d, e \in Chats :
          d # e /\ chats'[d] # None /\ chats'[e] # None /\ chats'[d].slug # None =>
            chats'[d].slug # chats'[e].slug
    BY <1>3, <2>4 DEF LinkInv
  <2>8. \A q \in Requests, d \in Chats :
          req'[q].pc = "read" /\ req'[q].seen # None /\ d # req'[q].on /\ chats'[d] # None =>
            chats'[d].slug # req'[q].seen
    BY <1>3, <1>4, <2>5 DEF LinkInv
  <2>9. \A p, q \in Requests :
          req'[p].pc = "read" /\ req'[q].pc = "read" /\ req'[p].seen # None /\ req'[p].on # req'[q].on =>
            req'[p].seen # req'[q].seen
    BY <1>4 DEF LinkInv
  <2>10. /\ gone' \subseteq 1 .. slugs'
         /\ \A q \in Requests :
              Sharing(q)' /\ req'[q].seen # None => req'[q].seen \notin gone' \/ chats'[req'[q].on] = None
         /\ LinksEndForGood'
    BY <1>3, <1>4, <2>1, <2>3, LinkEnds
  <2> QED
    BY <2>5, <2>6, <2>7, <2>8, <2>9, <2>10 DEF LinkInv
<1> QED
  BY <1>5, <1>6

(* The link of the chat is revoked: no other chat has it. *)
LEMMA RevokeLinks ==
  ASSUME ListInv, LinkInv, NEW r \in Requests, NEW c \in Chats,
         chats[c] # None, Answered(r, TRUE), chats' = [chats EXCEPT ![c].slug = None],
         gone' = gone \cup ({chats[c].slug} \ (Held(r) \cup {None, None})), slugs' = slugs
  PROVE  LinkInv'
<1>t. TypeInv
  BY DEF ListInv
<1>1. PICK row \in Row : row = chats[c]
  BY <1>t, RowIn
<1>2. /\ chats'[c] = [row EXCEPT !.slug = None] /\ [row EXCEPT !.slug = None].slug = None
      /\ \A d \in Chats \ {c} : chats'[d] = chats[d]
  BY <1>t, <1>1 DEF TypeInv, RowsInv, Table, Row
<1>3. chats'[c].slug = None /\ \A d \in Chats \ {c} : chats'[d] = chats[d]
  BY <1>2
<1>4. \A q \in Requests : req'[q].pc = "read" => q # r /\ req'[q] = req[q]
  BY DEF Answered, SameRequest, Others
<1>5. /\ \A d \in Chats : chats'[d] # None => chats'[d].slug \in (1 .. slugs) \cup {None}
      /\ \A q \in Requests : req'[q].pc = "read" => req'[q].seen \in (1 .. slugs) \cup {None}
  BY <1>3, <1>4 DEF LinkInv
<1>6. \A d, e \in Chats :
        d # e /\ chats'[d] # None /\ chats'[e] # None /\ chats'[d].slug # None =>
          chats'[d].slug # chats'[e].slug
  BY <1>3 DEF LinkInv
<1>7. \A q \in Requests, d \in Chats :
        req'[q].pc = "read" /\ req'[q].seen # None /\ d # req'[q].on /\ chats'[d] # None =>
          chats'[d].slug # req'[q].seen
  BY <1>3, <1>4 DEF LinkInv
<1>8. \A p, q \in Requests :
        req'[p].pc = "read" /\ req'[q].pc = "read" /\ req'[p].seen # None /\ req'[p].on # req'[q].on =>
          req'[p].seen # req'[q].seen
  BY <1>4 DEF LinkInv
<1>9. /\ gone' \subseteq 1 .. slugs'
      /\ \A q \in Requests :
           Sharing(q)' /\ req'[q].seen # None => req'[q].seen \notin gone' \/ chats'[req'[q].on] = None
      /\ LinksEndForGood'
  BY <1>3, <1>4, LinkEnds
<1> QED
  BY <1>5, <1>6, <1>7, <1>8, <1>9 DEF LinkInv

LEMMA UpdateLinks ==
  ASSUME ListInv, LinkInv, NEW r \in Requests, Update(r)
  PROVE  LinkInv'
<1>t. TypeInv
  BY DEF ListInv
<1>1. PICK c \in Chats : c = req[r].on /\ req[r].pc = "read"
  BY <1>t DEF Update, TypeInv, SlotsInv, SlotInv, Updates
<1>2. CASE Answers(r, FALSE) /\ UNCHANGED server
  BY <1>2, <1>t, AnswerFacts, NothingLearnt
<1>3. CASE /\ chats[c] # None /\ Answers(r, TRUE) /\ req[r].kind = "move"
           /\ chats' = [chats EXCEPT ![c].folder = req[r].to] /\ UNCHANGED <<slugs, gone>>
  <2>1. PICK row \in Row : row = chats[c]
    BY <1>t, <1>3, RowIn
  <2>2. [row EXCEPT !.folder = req[r].to].slug = row.slug
    BY DEF Row
  <2>3. \A d \in Chats : chats'[d] # None => chats[d] # None /\ chats'[d].slug = chats[d].slug
    BY <1>3, <1>t, <2>1, <2>2 DEF TypeInv, RowsInv, Table
  <2>4. \A q \in Requests : req'[q].pc = "read" => req'[q] = req[q]
    BY <1>3, <1>t, AnswerFacts DEF Answered, SameRequest, Others
  <2> QED
    BY <1>t, <1>3, <2>3, <2>4, LinksKept
<1>4. CASE /\ chats[c] # None /\ Answers(r, TRUE) /\ req[r].to
           /\ req[r].kind = "share"
           /\ chats' = [chats EXCEPT ![c].slug = Link(r)]
           /\ slugs' = IF Link(r) = slugs + 1 THEN slugs + 1 ELSE slugs
           /\ gone' = gone \cup ({chats[c].slug} \ (Held(r) \cup {Link(r), None}))
  <2>1. Answered(r, TRUE)
    BY <1>4, <1>t, AnswerFacts
  <2>2. PICK slug : slug = Link(r)
    OBVIOUS
  <2>3. /\ chats' = [chats EXCEPT ![c].slug = slug] /\ slugs' = IF slug = slugs + 1 THEN slugs + 1 ELSE slugs
        /\ gone' = gone \cup ({chats[c].slug} \ (Held(r) \cup {slug, None}))
    BY <1>4, <2>2
  <2>4. Sharing(r)
    BY <1>1, <1>4 DEF Sharing
  <2> QED
    BY <1>1, <1>4, <2>1, <2>2, <2>3, <2>4, ShareLinks
<1>5. CASE /\ chats[c] # None /\ Answers(r, TRUE) /\ ~req[r].to
           /\ chats' = [chats EXCEPT ![c].slug = None]
           /\ gone' = gone \cup ({chats[c].slug} \ (Held(r) \cup {None, None})) /\ slugs' = slugs
  <2>1. Answered(r, TRUE)
    BY <1>5, <1>t, AnswerFacts
  <2> QED
    BY <1>5, <2>1, RevokeLinks
<1>6. CASE /\ chats[c] # None /\ Answers(r, TRUE) /\ req[r].kind # "move"
           /\ chats' = [chats EXCEPT ![c].slug = IF req[r].to THEN Link(r) ELSE None]
           /\ slugs' = IF req[r].to /\ Link(r) = slugs + 1 THEN slugs + 1 ELSE slugs
           /\ gone' = gone \cup ({chats[c].slug} \ (Held(r) \cup {chats'[c].slug, None}))
  <2>1. PICK row \in Row : row = chats[c]
    BY <1>t, <1>6, RowIn
  <2>2. PICK slug : slug = IF req[r].to THEN Link(r) ELSE None
    OBVIOUS
  <2>3. [row EXCEPT !.slug = slug].slug = slug
    BY DEF Row
  <2>4. chats'[c] = [row EXCEPT !.slug = slug]
    BY <1>t, <1>6, <2>1, <2>2 DEF TypeInv, RowsInv, Table
  <2>5. chats'[c].slug = slug
    BY <2>3, <2>4
  <2>6. req[r].kind = "share"
    BY <1>1, <1>6, <1>t DEF TypeInv, SlotsInv, SlotInv, Updates
  <2>7. CASE req[r].to
    BY <1>4, <1>6, <2>2, <2>5, <2>6, <2>7
  <2>8. CASE ~req[r].to
    BY <1>5, <1>6, <2>2, <2>5, <2>8
  <2> QED
    BY <2>7, <2>8
<1> QED
  BY <1>1, <1>2, <1>3, <1>6 DEF Update

(* The link of a chat that is deleted ends, whoever has read it: their updates fail. *)
LEMMA DeleteLinks ==
  ASSUME ListInv, LinkInv, NEW r \in Requests, deleteChat(r)
  PROVE  LinkInv'
<1>t. TypeInv /\ None \notin gone
  BY NoneEnded DEF ListInv
<1>1. PICK c \in Chats : c = req[r].on
  BY <1>t DEF deleteChat, TypeInv, SlotsInv, SlotInv
<1>2. chats'[c] = None /\ (\A d \in Chats \ {c} : chats'[d] = chats[d]) /\ slugs' = slugs
  BY <1>1, <1>t DEF deleteChat, TypeInv, RowsInv, Table
<1>3. \A q \in Requests : req'[q].pc = "read" => req'[q] = req[q] /\ q # r
  BY <1>t, AnsweredOnly DEF deleteChat
<1>4. gone' = gone \/ (chats[c] # None /\ gone' = gone \cup ({chats[c].slug} \ {None}))
  BY <1>1 DEF deleteChat
<1>5. /\ gone' \subseteq 1 .. slugs' /\ None \notin gone'
      /\ \A d \in Chats : chats'[d] # None => chats'[d].slug \in (1 .. slugs') \cup {None}
      /\ \A q \in Requests : req'[q].pc = "read" => req'[q].seen \in (1 .. slugs') \cup {None}
  BY <1>t, <1>2, <1>3, <1>4 DEF LinkInv
<1>6. /\ \A d, e \in Chats :
           d # e /\ chats'[d] # None /\ chats'[e] # None /\ chats'[d].slug # None =>
             chats'[d].slug # chats'[e].slug
      /\ \A q \in Requests, d \in Chats :
           req'[q].pc = "read" /\ req'[q].seen # None /\ d # req'[q].on /\ chats'[d] # None =>
             chats'[d].slug # req'[q].seen
      /\ \A p, q \in Requests :
           req'[p].pc = "read" /\ req'[q].pc = "read" /\ req'[p].seen # None /\ req'[p].on # req'[q].on =>
             req'[p].seen # req'[q].seen
  BY <1>2, <1>3 DEF LinkInv
<1>7. ASSUME NEW q \in Requests, Sharing(q)', req'[q].seen # None
      PROVE  req'[q].seen \notin gone' \/ chats'[req'[q].on] = None
  <2>1. req'[q] = req[q] /\ Sharing(q) /\ req[q].pc = "read"
    BY <1>3, <1>7 DEF Sharing
  <2>2. req[q].on \in Chats
    BY <1>t, <2>1 DEF Sharing, TypeInv, SlotsInv, SlotInv, Updates
  <2>3. CASE req[q].on = c
    BY <1>2, <2>1, <2>3
  <2>4. CASE req[q].on # c
    <3>1. req[q].seen \notin gone \/ chats[req[q].on] = None
      BY <1>7, <2>1 DEF LinkInv
    <3>2. chats[c] # None => chats[c].slug # req[q].seen
      BY <1>7, <2>1, <2>4 DEF LinkInv
    <3> QED
      BY <1>2, <1>4, <2>1, <2>2, <2>4, <3>1, <3>2
  <2> QED
    BY <2>3, <2>4
<1>8. ASSUME NEW d \in Chats, chats'[d] # None PROVE chats'[d].slug \notin gone'
  <2>1. d # c /\ chats'[d] = chats[d] /\ chats[d] # None
    BY <1>2, <1>8
  <2>2. chats[d].slug \notin gone
    BY <2>1 DEF LinkInv, LinksEndForGood
  <2>3. chats[c] # None => chats[c].slug = None \/ chats[c].slug # chats[d].slug
    BY <2>1 DEF LinkInv
  <2> QED
    BY <1>4, <2>1, <2>2, <2>3
<1> QED
  BY <1>5, <1>6, <1>7, <1>8 DEF LinkInv, LinksEndForGood

(* Nothing else the server does gives a chat a link, or takes it away. *)
LEMMA RouteLinks ==
  ASSUME ListInv, MadeInv, LinkInv, NEW r \in Requests,
         createChat(r) \/ createFolder(r) \/ deleteFolder(r)
  PROVE  LinkInv'
<1>t. TypeInv
  BY DEF ListInv
<1>1. PICK ok : Answers(r, ok)
  BY DEF createChat, createFolder, deleteFolder
<1>2. \A q \in Requests : req'[q].pc = "read" => req'[q] = req[q] /\ q # r
  BY <1>1, <1>t, AnsweredOnly
<1>3. UNCHANGED <<slugs, gone>>
  BY DEF createChat, createFolder, deleteFolder
<1>4. ASSUME NEW c \in Chats, chats'[c] # None
      PROVE chats'[c].slug = None \/ (chats[c] # None /\ chats'[c].slug = chats[c].slug)
  <2>1. CASE createFolder(r)
    BY <1>4, <2>1 DEF createFolder
  <2>3. CASE createChat(r)
    <3>1. chats' = [chats EXCEPT ![req[r].on] = [folder |-> None, slug |-> None]]
      BY <2>3 DEF createChat
    <3>2. chats'[c] = chats[c] \/ chats'[c] = [folder |-> None, slug |-> None]
      BY <1>t, <3>1 DEF TypeInv, RowsInv, Table
    <3> QED
      BY <1>4, <3>2
  <2>2. CASE deleteFolder(r)
    <3>1. chats[c] # None
      BY <1>4, <2>2 DEF deleteFolder
    <3>2. PICK row \in Row : row = chats[c]
      BY <1>t, <3>1, RowIn
    <3>3. [row EXCEPT !.folder = None].slug = row.slug
      BY DEF Row
    <3>4. chats'[c] = [row EXCEPT !.folder = None] \/ chats'[c] = row
      BY <2>2, <3>1, <3>2 DEF deleteFolder
    <3> QED
      BY <3>1, <3>2, <3>3, <3>4
  <2> QED
    BY <2>1, <2>2, <2>3
<1>5. ASSUME NEW q \in Requests, req[q].pc = "read", q # r, chats[req[q].on] = None
      PROVE  chats'[req[q].on] = None
  <2>1. req[q].on \in Chats
    BY <1>5, <1>t DEF TypeInv, SlotsInv, SlotInv, Updates
  <2>2. CASE createChat(r)
    <3>1. Making(r)
      BY <2>2 DEF createChat, Making
    <3>2. req[q].on # req[r].on
      BY <1>5, <3>1 DEF MadeInv
    <3> QED
      BY <1>5, <1>t, <2>1, <2>2, <3>2 DEF createChat, TypeInv, RowsInv, Table
  <2>3. CASE createFolder(r) \/ deleteFolder(r)
    BY <1>5, <2>1, <2>3 DEF createFolder, deleteFolder
  <2> QED
    BY <2>2, <2>3
<1> QED
  BY <1>t, <1>2, <1>3, <1>4, <1>5, LinksKept

LEMMA LinkStep ==
  ASSUME ListInv, MadeInv, LinkInv, [Next]_vars
  PROVE  LinkInv'
<1>t. TypeInv
  BY DEF ListInv
<1>1. CASE UNCHANGED vars
  BY <1>t, <1>1, NothingLearnt DEF vars
<1>2. CASE \E c \in Chats : Open(c)
  BY <1>t, <1>2, NothingLearnt DEF Open
<1>3. CASE \E q \in Queries : Refetch(q) \/ FetchReads(q) \/ Lands(q) \/ FetchFails(q)
  BY <1>t, <1>3, NothingLearnt DEF Refetch, FetchReads, Lands, FetchFails
<1>4. ASSUME NEW r \in Requests, Begins(r) PROVE LinkInv'
  BY <1>t, <1>4, NothingLearnt DEF Begins, Started
<1>5. ASSUME NEW r \in Requests, ChatsRoute(r) \/ FoldersRoute(r) PROVE LinkInv'
  BY <1>5, ReadLinks, UpdateLinks, DeleteLinks, RouteLinks DEF ChatsRoute, FoldersRoute
<1>6. ASSUME NEW r \in Requests, Concludes(r) \/ Vanishes(r) PROVE LinkInv'
  <2>1. IsOver(r) /\ UNCHANGED server
    BY <1>t, <1>6, OverFacts DEF Concludes, Vanishes
  <2> QED
    BY <1>t, <2>1, FreeFacts, NothingLearnt DEF IsOver
<1>7. ASSUME NEW r \in Requests, Loses(r) PROVE LinkInv'
  BY <1>t, <1>7, LoseFacts, NothingLearnt DEF Loses
<1> QED
  BY <1>1, <1>2, <1>3, <1>4, <1>5, <1>6, <1>7, NextCases

LEMMA LinkInit ==
  ASSUME Init
  PROVE  MadeInv /\ LinkInv
<1>1. \A r \in Requests : req[r].pc = "free"
  BY FreeFacts DEF Init
<1>2. gone = {} /\ \A c \in Chats : chats[c] # None => chats[c].slug = None /\ c \in made
  BY DEF Init
<1> QED
  BY <1>1, <1>2 DEF MadeInv, Making, LinkInv, Sharing, LinksEndForGood

(* A link that left its chat while no other request was sharing it again, and every link of
   a chat that was deleted, never resolves again (updateChat, getSharedChat): what can still
   come back is only what a request to share read before and writes after it was revoked. *)
THEOREM LinksEnd == Spec => []LinksEndForGood
<1>1. Init => MadeInv /\ LinkInv
  BY LinkInit
<1>2. ListInv /\ MadeInv /\ LinkInv /\ [Next]_vars => MadeInv' /\ LinkInv'
  BY MadeStep, LinkStep
<1>3. LinkInv => LinksEndForGood
  BY DEF LinkInv
<1> QED
  BY <1>1, <1>2, <1>3, ListInvariant, PTL DEF Spec

----------------------------------------------------------------------------
(* A prompt that is taken is in the storage no more. *)
LEMMA Taken ==
  ASSUME PromptInv, NEW c, TakePrompt(c)
  PROVE  PromptInv'
<1>1. CASE UNCHANGED prompt
  BY <1>1 DEF PromptInv, PromptsSentOnce, prompt
<1>2. CASE /\ stored # None /\ stored' = None
           /\ sent' = sent \cup {[prompt |-> stored, chat |-> c]}
  <2>1. \A s \in sent : s.prompt # stored
    BY <1>2 DEF PromptInv
  <2> QED
    BY <1>2, <2>1 DEF PromptInv, PromptsSentOnce
<1> QED
  BY <1>1, <1>2 DEF TakePrompt

LEMMA PromptStep ==
  ASSUME ListInv, PromptInv, [Next]_vars
  PROVE  PromptInv'
<1>1. UNCHANGED prompt => PromptInv'
  BY DEF PromptInv, PromptsSentOnce, prompt
<1>2. CASE UNCHANGED vars
  BY <1>1, <1>2 DEF vars
<1>3. CASE \E c \in Chats : Open(c)
  BY <1>3, Taken DEF Open
<1>4. CASE \E q \in Queries : Refetch(q) \/ FetchReads(q) \/ Lands(q) \/ FetchFails(q)
  BY <1>1, <1>4 DEF Refetch, FetchReads, Lands, FetchFails
<1>5. ASSUME NEW r \in Requests, Begins(r) PROVE PromptInv'
  BY <1>5 DEF Begins, Types, PromptInv, PromptsSentOnce
<1>6. ASSUME NEW r \in Requests, ChatsRoute(r) \/ FoldersRoute(r) PROVE PromptInv'
  BY <1>1, <1>6, ServerServes DEF Served
<1>7. ASSUME NEW r \in Requests, Concludes(r) PROVE PromptInv'
  BY <1>1, <1>7, Taken DEF Concludes
<1>8. ASSUME NEW r \in Requests, Loses(r) \/ Vanishes(r) PROVE PromptInv'
  BY <1>1, <1>8 DEF Loses, Vanishes
<1> QED
  BY <1>2, <1>3, <1>4, <1>5, <1>6, <1>7, <1>8, NextCases

(* What was typed before its chat existed goes to one chat, once (NewChatLauncher stores it,
   and the chat's view takes it from sessionStorage before it sends it). *)
THEOREM PromptsAreSentOnce == Spec => []PromptsSentOnce
<1>1. Init => PromptInv
  BY DEF Init, PromptInv, PromptsSentOnce
<1>2. ListInv /\ PromptInv /\ [Next]_vars => PromptInv'
  BY PromptStep
<1>3. PromptInv => PromptsSentOnce
  BY DEF PromptInv
<1> QED
  BY <1>1, <1>2, <1>3, ListInvariant, PTL DEF Spec

----------------------------------------------------------------------------
(* Signing in. *)
Addresses == [path : Paths \cup {NoUrl}, callback : Callbacks]
TabPage == [at : Addresses, going : Addresses, form : {"rest", "pending", "done"},
         wanted : (Paths \ Forms) \cup {NoUrl}]

(* The address leads to the page asked for, by itself or through the form. *)
LeadsTo(address, wanted) ==
  \/ address.path = wanted
  \/ address.path = "login" /\ safeCallback(address.callback) = wanted

(* A form is at work only in a tab that is going nowhere, and what was asked for is kept
   by the address the tab goes to next. *)
TabRight(t) ==
  /\ tabs[t].form # "rest" => tabs[t].going = Nowhere /\ tabs[t].at.path \in Forms
  /\ tabs[t].wanted # NoUrl =>
       LeadsTo(IF tabs[t].going = Nowhere THEN tabs[t].at ELSE tabs[t].going, tabs[t].wanted)

TabsInv == tabs \in [Tabs -> TabPage] /\ \A t \in Tabs : TabRight(t)

(* Where a tab can go, and that an address of a path is somewhere. *)
LEMMA AddressType ==
  /\ \A p \in Paths \cup {NoUrl}, c \in Callbacks : Address(p, c) \in Addresses
  /\ Nowhere \in Addresses /\ Nowhere.path = NoUrl
  /\ \A p, c : Address(p, c).path = p /\ Address(p, c).callback = c
  /\ \A p \in Paths : \A c : Address(p, c) # Nowhere
BY SignInAssumption DEF Addresses, Address, Nowhere, Callbacks

(* A callback is a page of the app; one that was made by the app is kept. *)
LEMMA CallbackStays ==
  /\ \A raw \in Callbacks : safeCallback(raw) \in Paths
  /\ \A p \in Paths : safeCallback(p) = p
  /\ safeCallback(NoUrl) = "home"
BY SignInAssumption DEF Callbacks, safeCallback, Paths

(* A tab whose new content is one of a page, and keeps what was asked for, is enough. *)
LEMMA OneTab ==
  ASSUME TabsInv, NEW t \in Tabs, NEW s \in TabPage, Becomes(t, s),
         s.form # "rest" => s.going = Nowhere /\ s.at.path \in Forms,
         s.wanted # NoUrl => LeadsTo(IF s.going = Nowhere THEN s.at ELSE s.going, s.wanted)
  PROVE  TabsInv'
<1>1. tabs' \in [Tabs -> TabPage] /\ tabs' = [tabs EXCEPT ![t] = s]
  BY DEF TabsInv, Becomes
<1>2. ASSUME NEW u \in Tabs PROVE TabRight(u)'
  <2>1. CASE u = t
    BY <1>1, <2>1 DEF TabRight, LeadsTo, TabsInv
  <2>2. CASE u # t
    BY <1>1, <2>2 DEF TabRight, LeadsTo, TabsInv
  <2> QED BY <2>1, <2>2
<1> QED BY <1>1, <1>2 DEF TabsInv

(* The parts of a tab. *)
LEMMA TabFields ==
  ASSUME NEW s \in TabPage
  PROVE  /\ s.at \in Addresses /\ s.going \in Addresses
         /\ s.form \in {"rest", "pending", "done"} /\ s.wanted \in (Paths \ Forms) \cup {NoUrl}
         /\ s.at.path \in Paths \cup {NoUrl} /\ s.at.callback \in Callbacks
         /\ s.going.path \in Paths \cup {NoUrl} /\ s.going.callback \in Callbacks
BY DEF TabPage, Addresses

(* So is a tab that leaves for an address which leads to what was asked for. *)
LEMMA Leaves ==
  ASSUME TabsInv, NEW t \in Tabs, NEW address \in Addresses, address # Nowhere,
         NEW wanted \in (Paths \ Forms) \cup {NoUrl},
         wanted # NoUrl => LeadsTo(address, wanted),
         Becomes(t, [Goes(t, address) EXCEPT !.wanted = wanted])
  PROVE  TabsInv'
<1> DEFINE s == [Goes(t, address) EXCEPT !.wanted = wanted]
<1>1. PICK old \in TabPage : tabs[t] = old
  BY DEF TabsInv
<1>2. s = [old EXCEPT !.going = address, !.form = "rest", !.wanted = wanted]
  BY <1>1 DEF Goes, TabPage
<1>3. s \in TabPage /\ s.form = "rest" /\ s.going = address /\ s.wanted = wanted
  BY <1>2 DEF TabPage
<1>4. Becomes(t, s)
  OBVIOUS
<1> HIDE DEF s
<1> QED
  BY <1>3, <1>4, OneTab

LEMMA SignInStep ==
  ASSUME TabsInv, [SignInNext]_signInVars
  PROVE  TabsInv'
<1>1. CASE UNCHANGED tabs
  BY <1>1 DEF TabsInv, TabRight, LeadsTo
<1>2. ASSUME NEW t \in Tabs, NEW path \in Paths, NEW raw \in Callbacks, Visit(t, Address(path, raw))
      PROVE  TabsInv'
  BY <1>2, Leaves, AddressType DEF Visit
<1>3. ASSUME NEW t \in Tabs, Request(t) PROVE TabsInv'
  <2> DEFINE to == tabs[t].going
  <2>1. to # Nowhere /\ to \in Addresses /\ tabs[t] \in TabPage /\ TabRight(t)
    <3>1. to # Nowhere
      BY <1>3 DEF Request
    <3>2. tabs[t] \in TabPage /\ TabRight(t)
      BY DEF TabsInv
    <3> QED BY <3>1, <3>2, TabFields
  <2>2. CASE session /\ to.path \in Forms
    <3>1. Becomes(t, [Goes(t, Address("home", NoUrl)) EXCEPT !.wanted = NoUrl])
      BY <1>3, <2>2 DEF Request
    <3> QED BY <3>1, Leaves, AddressType DEF Paths, Callbacks
  <2>3. CASE ~(session /\ to.path \in Forms) /\ (session \/ to.path \in Public \cup Forms)
    <3>1. Becomes(t, [tabs[t] EXCEPT !.at = to, !.going = Nowhere])
      BY <1>3, <2>3 DEF Request
    <3> DEFINE s == [tabs[t] EXCEPT !.at = to, !.going = Nowhere]
    <3>2. PICK old \in TabPage : tabs[t] = old
      BY <2>1
    <3>3. /\ s \in TabPage /\ s.form = old.form /\ s.at = to /\ s.going = Nowhere
          /\ s.wanted = old.wanted
      BY <2>1, <3>2, AddressType DEF TabPage
    <3>4. old.form = "rest" /\ (old.wanted # NoUrl => LeadsTo(to, old.wanted))
      BY <2>1, <3>2 DEF TabRight
    <3>5. Becomes(t, s)
      BY <3>1
    <3> HIDE DEF s
    <3> QED BY <3>3, <3>4, <3>5, OneTab
  <2>4. CASE ~session /\ to.path \notin Public \cup Forms
    <3>1. Becomes(t, [Goes(t, LoginUrl(to.path)) EXCEPT !.wanted = to.path])
      BY <1>3, <2>4 DEF Request
    <3> DEFINE callback == IF to.path = "home" THEN NoUrl ELSE to.path
    <3>4. to.path \in (Paths \ Forms) \cup {NoUrl} /\ callback \in Callbacks
      BY <2>1, <2>4, TabFields DEF Callbacks
    <3>5. "login" \in Paths
      BY DEF Paths, Forms
    <3>2. LoginUrl(to.path) \in Addresses /\ LoginUrl(to.path) # Nowhere
      BY <3>4, <3>5, AddressType DEF LoginUrl
    <3>3. to.path # NoUrl => LeadsTo(LoginUrl(to.path), to.path)
      BY <2>1, AddressType, CallbackStays DEF LeadsTo, LoginUrl, Addresses
    <3> QED BY <3>1, <3>2, <3>3, <3>4, Leaves
  <2> QED BY <2>2, <2>3, <2>4
<1>4. ASSUME NEW t \in Tabs, ChatLayout(t) \/ SignOut(t) PROVE TabsInv'
  <2>1. Becomes(t, [Goes(t, Address("login", NoUrl)) EXCEPT !.wanted = NoUrl])
    BY <1>4 DEF ChatLayout, SignOut
  <2> QED BY <2>1, Leaves, AddressType DEF Paths, Forms, Callbacks
<1>5. ASSUME NEW t \in Tabs, NEW form \in {"rest", "pending", "done"},
             Becomes(t, [tabs[t] EXCEPT !.form = form]),
             tabs[t].going = Nowhere /\ tabs[t].at.path \in Forms
      PROVE  TabsInv'
  <2> DEFINE s == [tabs[t] EXCEPT !.form = form]
  <2>1. PICK old \in TabPage : tabs[t] = old
    BY DEF TabsInv
  <2>2. s \in TabPage /\ s.at = old.at /\ s.going = old.going /\ s.wanted = old.wanted
    BY <2>1 DEF TabPage
  <2>3. old.wanted # NoUrl => LeadsTo(old.at, old.wanted)
    BY <1>5, <2>1 DEF TabsInv, TabRight
  <2>4. Becomes(t, s) /\ old.going = Nowhere /\ old.at.path \in Forms
    BY <1>5, <2>1
  <2> HIDE DEF s
  <2> QED BY <2>2, <2>3, <2>4, OneTab
<1>6. ASSUME NEW t \in Tabs, Submit(t) \/ Rejected(t) \/ Authorized(t) PROVE TabsInv'
  <2>1. tabs[t].going = Nowhere /\ tabs[t].at.path \in Forms
    BY <1>6 DEF Submit, Rejected, Authorized, TabsInv, TabRight
  <2> QED BY <1>5, <1>6, <2>1 DEF Submit, Rejected, Authorized
<1>7. ASSUME NEW t \in Tabs, Proceed(t) PROVE TabsInv'
  <2> DEFINE signedIn == tabs[t].at.path = "login"
             goal == IF signedIn THEN safeCallback(tabs[t].at.callback) ELSE "home"
             wanted == IF signedIn THEN tabs[t].wanted ELSE NoUrl
  <2>1. /\ tabs[t] \in TabPage /\ TabRight(t) /\ tabs[t].form = "done"
        /\ Becomes(t, [Goes(t, Address(goal, NoUrl)) EXCEPT !.wanted = wanted])
    <3>1. Goes(t, Address(goal, NoUrl)).wanted = tabs[t].wanted
      BY DEF Goes, TabsInv
    <3> QED BY <1>7, <3>1 DEF Proceed, TabsInv
  <2>2. goal \in Paths /\ tabs[t].going = Nowhere /\ wanted \in (Paths \ Forms) \cup {NoUrl}
    <3>1. "home" \in Paths
      BY DEF Paths
    <3> QED BY <2>1, <3>1, CallbackStays, TabFields DEF TabRight
  <2>3. wanted # NoUrl => goal = wanted
    BY <2>1, <2>2 DEF TabRight, LeadsTo, Forms
  <2>4. Address(goal, NoUrl) \in Addresses /\ Address(goal, NoUrl) # Nowhere
    BY <2>2, AddressType DEF Callbacks
  <2>5. wanted # NoUrl => LeadsTo(Address(goal, NoUrl), wanted)
    BY <2>3, AddressType DEF LeadsTo
  <2> QED BY <2>1, <2>2, <2>4, <2>5, Leaves
<1> QED
  BY <1>1, <1>2, <1>3, <1>4, <1>6, <1>7 DEF SignInNext, SignInSpec, signInVars, SessionEnds

(* SignInReturns: whoever is sent to the form signs in to the page that was asked for,
   whatever the tabs do and whenever the session ends, and nobody leaves the app. *)
THEOREM SignInReturnsToThePage == SignInSpec => []SignInReturns
<1>1. SignInInit => TabsInv
  BY AddressType, SignInAssumption DEF SignInInit, TabsInv, TabRight, TabPage, Blank
<1>2. TabsInv /\ [SignInNext]_signInVars => TabsInv'
  BY SignInStep
<1>3. TabsInv => SignInReturns
  BY DEF TabsInv, TabRight, TabPage, Addresses, SignInReturns, LeadsTo
<1> QED BY <1>1, <1>2, <1>3, PTL DEF SignInSpec

----------------------------------------------------------------------------
(* The command palette. *)
All == Range(Commands) \cup Range(Rows)

LEMMA Concatenated ==
  ASSUME NEW S, NEW s \in Seq(S), NEW t \in Seq(S)
  PROVE  /\ s \o t \in Seq(S) /\ Range(s \o t) = Range(s) \cup Range(t)
         /\ s # <<>> => (s \o t) # <<>> /\ (s \o t)[1] = s[1]
<1>1. /\ s \o t \in Seq(S) /\ Len(s \o t) = Len(s) + Len(t) /\ Len(s) \in Nat /\ Len(t) \in Nat
      /\ \A i \in 1 .. Len(s) + Len(t) : (s \o t)[i] = IF i <= Len(s) THEN s[i] ELSE t[i - Len(s)]
  BY ConcatProperties
<1>2. Range(s \o t) = Range(s) \cup Range(t)
  BY RangeConcatenation
<1>3. s # <<>> => Len(s) > 0
  OBVIOUS
<1>4. s # <<>> => (s \o t)[1] = s[1]
  BY <1>1, <1>3
<1>5. s # <<>> => (s \o t) # <<>>
  BY <1>1, <1>3
<1> QED
  BY <1>1, <1>2, <1>4, <1>5

(* Filtering keeps what is found, and nothing else (from KeptProperties). *)
LEMMA Matched ==
  ASSUME NEW items \in Seq(All), NEW needle
  PROVE  /\ Matches(items, needle) \in Seq(All)
         /\ Range(Matches(items, needle)) = {item \in Range(items) : Found(item, needle)}
BY KeptProperties DEF Matches

LEMMA ListsTyped == Commands \in Seq(All) /\ Rows \in Seq(All)
BY PaletteAssumption, SeqMonotonic DEF All

LEMMA LimitTyped == \A a, b \in Nat : Min({a, b}) \in Nat /\ Min({a, b}) <= a /\ Min({a, b}) <= b
<1>1. ASSUME NEW a \in Nat, NEW b \in Nat
      PROVE  Min({a, b}) \in Nat /\ Min({a, b}) <= a /\ Min({a, b}) <= b
  <2>1. \E x \in {a, b} : \A y \in {a, b} : x =< y
    <3>1. CASE a <= b
      BY <3>1
    <3>2. CASE b <= a
      BY <3>2
    <3> QED
      BY <3>1, <3>2
  <2> QED
    BY <2>1 DEF Min
<1> QED
  BY <1>1

(* The chats shown match what is in the box. *)
LEMMA ChatsMatch ==
  ChatItems \in Seq(All) /\ \A item \in Range(ChatItems) : Found(item, box)
<1> DEFINE rows == IF debounced = box /\ debounced \in answers THEN Matches(Rows, debounced) ELSE <<>>
           limit == IF box = NoNeedle THEN RecentLimit ELSE SearchLimit
           n == Min({limit, Len(rows)})
<1>1. rows \in Seq(All) /\ \A item \in Range(rows) : Found(item, box)
  <2>1. CASE debounced = box /\ debounced \in answers
    BY <2>1, Matched, ListsTyped
  <2>2. CASE ~(debounced = box /\ debounced \in answers)
    BY <2>2 DEF Range
  <2> QED
    BY <2>1, <2>2
<1>2. ChatItems = SubSeq(rows, 1, n)
  BY DEF ChatItems
<1>3. limit \in Nat
  BY PaletteAssumption
<1> HIDE DEF rows, limit
<1>4. Len(rows) \in Nat
  BY <1>1
<1>5. n \in Nat /\ n <= Len(rows)
  BY <1>3, <1>4, LimitTyped
<1> HIDE DEF n
<1>6. SubSeq(rows, 1, n) \in Seq(All)
  BY <1>1, <1>5
<1>7. \A i \in DOMAIN SubSeq(rows, 1, n) : i \in DOMAIN rows /\ SubSeq(rows, 1, n)[i] = rows[i]
  BY <1>1, <1>5
<1> QED
  BY <1>1, <1>2, <1>6, <1>7 DEF Range
(* Whichever items are ranked, they match; and where a command is named like what is in
   the box, such a command comes first. *)
Named(item) == IsCommand(item) /\ Hit[item][box] = "label"

LEMMA RankedRight ==
  /\ Ranked \in Seq(All) /\ \A item \in Range(Ranked) : Found(item, box)
  /\ box # NoNeedle /\ (\E i \in DOMAIN Commands : Hit[Commands[i]][box] = "label") =>
       Ranked # <<>> /\ Named(Ranked[1])
<1> DEFINE matched == Matches(Commands, box)
           all == matched \o ChatItems
           OfRank(n) == Kept(all, {item \in Range(all) : rank(item, box) = n})
<1>1. /\ matched \in Seq(All) /\ \A item \in Range(matched) : Found(item, box)
      /\ \A item \in Range(Commands) : Found(item, box) => item \in Range(matched)
  BY Matched, ListsTyped
<1>2. all \in Seq(All) /\ Range(all) = Range(matched) \cup Range(ChatItems)
  <2> HIDE DEF matched
  <2> QED
    BY <1>1, ChatsMatch, Concatenated
<1>3. \A item \in Range(all) : Found(item, box)
  BY <1>1, <1>2, ChatsMatch
<1>4. Ranked = IF box = NoNeedle THEN all ELSE OfRank(0) \o OfRank(1) \o OfRank(2) \o OfRank(3)
  BY DEF Ranked
<1> HIDE DEF matched, all
<1>5. \A n : OfRank(n) \in Seq(All) /\ Range(OfRank(n)) = {item \in Range(all) : rank(item, box) = n}
  BY <1>2, KeptProperties
<1> HIDE DEF OfRank
<1> DEFINE r01 == OfRank(0) \o OfRank(1)
           r02 == r01 \o OfRank(2)
           r03 == r02 \o OfRank(3)
<1>6. r01 \in Seq(All) /\ Range(r01) \subseteq Range(all)
      /\ (OfRank(0) # <<>> => r01 # <<>> /\ r01[1] = OfRank(0)[1])
  BY <1>5, Concatenated
<1> HIDE DEF r01
<1>7. r02 \in Seq(All) /\ Range(r02) \subseteq Range(all) /\ (r01 # <<>> => r02 # <<>> /\ r02[1] = r01[1])
  BY <1>5, <1>6, Concatenated
<1> HIDE DEF r02
<1>8. r03 \in Seq(All) /\ Range(r03) \subseteq Range(all) /\ (r02 # <<>> => r03 # <<>> /\ r03[1] = r02[1])
  BY <1>5, <1>7, Concatenated
<1>9. Ranked = IF box = NoNeedle THEN all ELSE r03
  BY <1>4 DEF r03, r02, r01
<1> HIDE DEF r03
<1>10. Ranked \in Seq(All) /\ \A item \in Range(Ranked) : Found(item, box)
  BY <1>2, <1>3, <1>8, <1>9
<1>11. ASSUME box # NoNeedle, NEW i \in DOMAIN Commands, Hit[Commands[i]][box] = "label"
       PROVE  Ranked # <<>> /\ Named(Ranked[1])
  <2> DEFINE c == Commands[i]
  <2>1. c \in Range(Commands) /\ IsCommand(c) /\ Found(c, box)
    <3>1. DOMAIN Commands = 1 .. Len(Commands)
      BY PaletteAssumption
    <3> QED
      BY <1>11, <3>1 DEF Range, IsCommand, Contains, Found
  <2>2. rank(c, box) = 0 /\ c \in Range(all)
    BY <1>1, <1>2, <1>11, <2>1 DEF rank
  <2>3. OfRank(0) # <<>> /\ OfRank(0)[1] \in Range(OfRank(0))
    <3>1. c \in Range(OfRank(0)) /\ OfRank(0) \in Seq(All)
      BY <1>5, <2>2
    <3> HIDE DEF c
    <3> QED
      BY <3>1 DEF Range
  <2>4. rank(OfRank(0)[1], box) = 0
    BY <1>5, <2>3
  <2>5. \A item : rank(item, box) = 0 => Named(item)
    BY DEF rank, Named
  <2> QED
    BY <1>6, <1>7, <1>8, <1>9, <1>11, <2>3, <2>4, <2>5
<1> QED
  BY <1>10, <1>11

(* Grouping by section shows only what was ranked, the first item first. *)
LEMMA SectionsKeep ==
  ASSUME NEW items \in Seq(All)
  PROVE  /\ sectionsOf(items) \in Seq(All) /\ Range(sectionsOf(items)) \subseteq Range(items)
         /\ items # <<>> => sectionsOf(items) # <<>> /\ sectionsOf(items)[1] = items[1]
<1>1. CASE items = <<>>
  BY <1>1 DEF sectionsOf
<1>2. CASE items # <<>>
  <2> DEFINE With(first) == Kept(items, {item \in Range(items) : IsCommand(item) = first})
             a == With(IsCommand(items[1]))
             b == With(~IsCommand(items[1]))
  <2>1. sectionsOf(items) = a \o b
    BY <1>2 DEF sectionsOf
  <2>2. a \in Seq(All) /\ b \in Seq(All) /\ Range(a) \subseteq Range(items) /\ Range(b) \subseteq Range(items)
    BY KeptProperties
  <2>3. items[1] \in Range(items)
    BY <1>2 DEF Range
  <2>4. a # <<>> /\ a[1] = items[1]
    BY <1>2, <2>3, KeptProperties
  <2> HIDE DEF a, b
  <2> QED
    BY <2>1, <2>2, <2>4, Concatenated
<1> QED
  BY <1>1, <1>2

(* So what is listed matches, and the first item is named like the needle. *)
LEMMA ItemsRight ==
  /\ Items \in Seq(All) /\ \A i \in DOMAIN Items : Found(Items[i], box)
  /\ box # NoNeedle /\ (\E i \in DOMAIN Commands : Hit[Commands[i]][box] = "label") => Named(Items[1])
<1>1. Items \in Seq(All) /\ Range(Items) \subseteq Range(Ranked)
      /\ (Ranked # <<>> => Items[1] = Ranked[1])
  BY RankedRight, SectionsKeep DEF Items
<1>2. \A i \in DOMAIN Items : Items[i] \in Range(Items)
  BY DEF Range
<1> QED
  BY <1>1, <1>2, RankedRight

PaletteInv == active \in Nat /\ PaletteHonest

LEMMA RunsRight ==
  ASSUME NEW i \in DOMAIN Items, Runs(i), PaletteInv
  PROVE  PaletteInv'
<1>1. ran' = [item |-> Items[i], needle |-> box, first |-> i = 1] /\ active' = active
  BY DEF Runs
<1>2. Found(Items[i], box)
  BY ItemsRight
<1>3. ASSUME i = 1, box # NoNeedle, \E j \in DOMAIN Commands : Hit[Commands[j]][box] = "label"
      PROVE  IsCommand(Items[i]) /\ Hit[Items[i]][box] = "label"
  BY <1>3, ItemsRight DEF Named
<1> QED
  BY <1>1, <1>2, <1>3 DEF PaletteInv, PaletteHonest

(* The highlight is on an item as long as there is one. *)
LEMMA ActiveShown ==
  ASSUME active \in Nat, Items # <<>>
  PROVE  ActiveIndex + 1 \in DOMAIN Items
<1>1. Len(Items) \in Nat /\ Len(Items) > 0 /\ DOMAIN Items = 1 .. Len(Items)
  BY ItemsRight
<1> DEFINE last == Len(Items) - 1
<1>2. last \in Nat /\ Max({last, 0}) = last
  <2>1. last \in Nat
    BY <1>1
  <2> HIDE DEF last
  <2>2. \E x \in {last, 0} : \A y \in {last, 0} : x >= y
    BY <2>1
  <2> QED
    BY <2>1, <2>2 DEF Max
<1>3. ActiveIndex = Min({active, last})
  BY <1>2 DEF ActiveIndex
<1> HIDE DEF last
<1>4. ActiveIndex \in Nat /\ ActiveIndex <= last
  BY <1>2, <1>3, LimitTyped
<1> QED
  BY <1>1, <1>4 DEF last

LEMMA PaletteStep ==
  ASSUME PaletteInv, [PaletteNext]_paletteVars
  PROVE  PaletteInv'
<1>1. active' \in Nat /\ UNCHANGED ran => PaletteInv'
  BY DEF PaletteInv, PaletteHonest, Found, IsCommand
<1>2. CASE \/ UNCHANGED paletteVars \/ OpenPalette \/ ClosePalette \/ Pause \/ SearchAnswers \/ SearchFails
           \/ \E needle \in Needles : Type(needle)
  BY <1>1, <1>2 DEF PaletteInv, paletteVars, OpenPalette, ClosePalette, Pause, SearchAnswers, SearchFails, Type
<1>3. CASE Highlight
  <2>1. Len(Items) \in Nat
    BY ItemsRight
  <2>2. active' \in 0 .. Len(Items) - 1 /\ UNCHANGED ran
    BY <1>3 DEF Highlight
  <2> QED
    BY <1>1, <2>1, <2>2
<1>4. CASE Enter
  BY <1>4, ActiveShown, RunsRight DEF Enter, PaletteInv
<1>5. CASE Click
  BY <1>5, RunsRight DEF Click
<1> QED
  BY <1>2, <1>3, <1>4, <1>5 DEF PaletteNext

(* PaletteHonest: whatever Enter or a click runs matches what is in the box, and what is
   run without choosing is a command of that name if there is one, for any commands,
   chats and needles and however late the search answers. *)
THEOREM PaletteIsHonest == PaletteSpec => []PaletteHonest
<1>1. PaletteInit => PaletteInv
  BY DEF PaletteInit, PaletteInv, PaletteHonest
<1>2. PaletteInv /\ [PaletteNext]_paletteVars => PaletteInv'
  BY PaletteStep
<1>3. PaletteInv => PaletteHonest
  BY DEF PaletteInv
<1> QED
  BY <1>1, <1>2, <1>3, PTL DEF PaletteSpec

----------------------------------------------------------------------------
(* Answers on the screen. *)
Modes == {"none"} \cup Opens
Sheets == [shown : Seq(Kinds \X Modes), open : Modes]
Fences == {NoFence} \cup {FenceOf(line) : line \in Opens}
Walks == [blocks : Seq(Seq(Kinds)), current : Seq(Kinds), fence : Fences]

(* The splitter and the reader agree on the fence that is open. *)
SameFence(fence, open) == fence = IF open = "none" THEN NoFence ELSE FenceOf(open)

LEMMA ReadType ==
  ASSUME NEW page \in Sheets, NEW line \in Kinds
  PROVE  ReadLine(page, line) \in Sheets
<1>1. page.shown \in Seq(Kinds \X Modes) /\ page.open \in Modes
  BY DEF Sheets
<1>2. <<line, page.open>> \in Kinds \X Modes
  BY <1>1
<1>3. Append(page.shown, <<line, page.open>>) \in Seq(Kinds \X Modes)
  BY <1>1, <1>2
<1>4. ReadLine(page, line).open \in Modes
  BY <1>1 DEF ReadLine, Modes
<1>5. ReadLine(page, line).shown \in Seq(Kinds \X Modes)
  BY <1>1, <1>3 DEF ReadLine
<1> QED
  BY <1>4, <1>5 DEF ReadLine, Sheets

(* The pages of the beginnings of a list of lines. *)
IsReading(f, lines) ==
  /\ f \in [0 .. Len(lines) -> Sheets] /\ f[0] = EmptyPage
  /\ \A i \in 1 .. Len(lines) : f[i] = ReadLine(f[i - 1], lines[i])

(* The page of a list of lines is the last value of a recursive function over it. *)
LEMMA PageUnfolds ==
  ASSUME NEW lines \in Seq(Kinds)
  PROVE  \E f : IsReading(f, lines) /\ PageOf(lines) = f[Len(lines)]
<1> DEFINE m == Len(lines)
           Body(f) == [i \in 0 .. m |-> IF i = 0 THEN EmptyPage ELSE ReadLine(f[i - 1], lines[i])]
           F == [i \in 1 .. m |-> [page \in Sheets |-> ReadLine(page, lines[i])]]
           page == CHOOSE f : f = Body(f)
<1>1. m \in Nat /\ (\A i \in 1 .. m : lines[i] \in Kinds) /\ EmptyPage \in Sheets
  BY DEF EmptyPage, Sheets, Modes
<1>2. F \in Steps(m, Sheets)
  BY <1>1, ReadType DEF Steps
<1>3. PageOf(lines) = page[m]
  BY DEF PageOf
<1> HIDE DEF m
<1>4. PICK f : IsIteration(f, m, Sheets, EmptyPage, F)
  <2> HIDE DEF F
  <2> QED
    BY <1>1, <1>2, Iterates
<1>5. /\ f \in [0 .. m -> Sheets] /\ f[0] = EmptyPage
      /\ \A i \in 1 .. m : f[i] = ReadLine(f[i - 1], lines[i])
  <2>1. \A i \in 1 .. m : i - 1 \in 0 .. m /\ f[i] = F[i][f[i - 1]] /\ f \in [0 .. m -> Sheets]
    BY <1>1, <1>4 DEF IsIteration
  <2> QED
    BY <1>4, <2>1 DEF IsIteration
<1> HIDE DEF F
<1>6. f = Body(f)
  <2>1. \A i \in 0 .. m : i = 0 \/ i \in 1 .. m
    BY <1>1
  <2>2. \A i \in 0 .. m : f[i] = IF i = 0 THEN EmptyPage ELSE ReadLine(f[i - 1], lines[i])
    BY <1>1, <1>5, <2>1
  <2> QED
    BY <1>5, <2>2
<1>7. page = Body(page)
  BY <1>6
<1> HIDE DEF page
<1>8. page[0] = EmptyPage /\ \A i \in 1 .. m : page[i] = ReadLine(page[i - 1], lines[i])
  <2>1. 0 \in 0 .. m /\ \A i \in 1 .. m : i \in 0 .. m /\ i # 0
    BY <1>1
  <2> QED
    BY <1>7, <2>1
<1>9. IsIteration(page, m, Sheets, EmptyPage, F)
  <2>1. \A i \in 1 .. m : page[i - 1] \in Sheets => page[i] = F[i][page[i - 1]]
    BY <1>8 DEF F
  <2>2. page = [i \in 0 .. m |-> page[i]]
    BY <1>7
  <2> QED
    BY <1>1, <1>2, <1>8, <2>1, <2>2, Computed
<1>10. IsReading(page, lines)
  BY <1>8, <1>9 DEF IsIteration, IsReading, m
<1> QED
  BY <1>3, <1>10 DEF m

LEMMA PageType ==
  ASSUME NEW lines \in Seq(Kinds)
  PROVE  PageOf(lines) \in Sheets
<1>1. PICK f : IsReading(f, lines) /\ PageOf(lines) = f[Len(lines)]
  BY PageUnfolds
<1>2. Len(lines) \in 0 .. Len(lines)
  OBVIOUS
<1> QED
  BY <1>1, <1>2 DEF IsReading

(* One line more is one line read. *)
LEMMA PageAppend ==
  ASSUME NEW lines \in Seq(Kinds), NEW line \in Kinds
  PROVE  /\ PageOf(lines) \in Sheets /\ PageOf(<<>>) = EmptyPage
         /\ PageOf(Append(lines, line)) = ReadLine(PageOf(lines), line)
<1> DEFINE m == Len(lines)
           more == Append(lines, line)
<1>1. /\ m \in Nat /\ Len(more) = m + 1 /\ more[m + 1] = line /\ more \in Seq(Kinds)
      /\ \A i \in 1 .. m : more[i] = lines[i]
  BY AppendProperties
<1>2. PICK f : IsReading(f, lines) /\ PageOf(lines) = f[m]
  BY PageUnfolds
<1> HIDE DEF more
<1>3. PICK g : IsReading(g, more) /\ PageOf(more) = g[m + 1]
  <2>1. \E g : IsReading(g, more) /\ PageOf(more) = g[Len(more)]
    BY <1>1, PageUnfolds
  <2> QED
    BY <1>1, <2>1
<1>4. f[m] \in Sheets
  BY <1>1, <1>2 DEF IsReading
<1>5. PageOf(<<>>) = EmptyPage
  <2>1. <<>> \in Seq(Kinds) /\ Len(<<>>) = 0
    OBVIOUS
  <2>2. \E h : IsReading(h, <<>>) /\ PageOf(<<>>) = h[Len(<<>>)]
    BY <2>1, PageUnfolds
  <2> QED
    BY <2>1, <2>2 DEF IsReading
<1> DEFINE same == {n \in Nat : n <= m => g[n] = f[n]}
<1>6. 0 \in same
  BY <1>2, <1>3 DEF IsReading
<1>7. ASSUME NEW n \in 0 .. m - 1, n \in same PROVE n + 1 \in same
  <2>1. n \in Nat /\ n <= m /\ n + 1 \in 1 .. m /\ n + 1 \in 1 .. m + 1 /\ (n + 1) - 1 = n
    BY <1>1
  <2>2. f[n + 1] = ReadLine(f[n], lines[n + 1])
    BY <1>2, <2>1 DEF IsReading
  <2>3. g[n + 1] = ReadLine(g[n], more[n + 1])
    BY <1>1, <1>3, <2>1 DEF IsReading
  <2> QED
    BY <1>1, <1>7, <2>1, <2>2, <2>3
<1>8. g[m] = f[m]
  <2> HIDE DEF same, m
  <2>1. 0 .. m \subseteq same
    BY <1>1, <1>6, <1>7, BoundedInduction
  <2>2. m \in same
    BY <1>1, <2>1
  <2> QED
    BY <1>1, <2>2 DEF same
<1>9. g[m + 1] = ReadLine(g[m], line)
  <2>1. m + 1 \in 1 .. m + 1 /\ (m + 1) - 1 = m
    BY <1>1
  <2> QED
    BY <1>1, <1>3, <2>1 DEF IsReading
<1> QED
  BY <1>2, <1>3, <1>4, <1>5, <1>8, <1>9 DEF more

----------------------------------------------------------------------------
(* A line opens or closes a fence for the splitter as it does for the reader. *)
LEMMA FencesAgree ==
  /\ \A line \in Kinds : FenceOf(line) \in Fences /\ (line \in Opens <=> FenceOf(line) # NoFence)
  /\ \A line \in Kinds, open \in Opens :
       closesFence(line, FenceOf(open)) <=> open \in Closed(line)
<1>1. ASSUME NEW line \in Kinds
      PROVE  FenceOf(line) \in Fences /\ (line \in Opens <=> FenceOf(line) # NoFence)
  BY DEF Kinds, Fences, Opens, FenceOf, NoFence, Fence
<1>2. ASSUME NEW line \in Kinds, NEW open \in Opens
      PROVE  closesFence(line, FenceOf(open)) <=> open \in Closed(line)
  <2>1. /\ FenceOf("bare") = Fence("tick", 3, TRUE) /\ FenceOf("inner") = Fence("tick", 3, TRUE)
        /\ FenceOf("info") = Fence("tick", 3, FALSE) /\ FenceOf("long") = Fence("tick", 4, TRUE)
        /\ FenceOf("tilde") = Fence("tilde", 3, TRUE)
    BY DEF FenceOf
  <2>2. /\ FenceOf(open).char = IF open = "tilde" THEN "tilde" ELSE "tick"
        /\ FenceOf(open).length = IF open = "long" THEN 4 ELSE 3
    BY <2>1 DEF Opens, Fence
  <2>3. CASE line \in {"bare", "inner"}
    BY <2>1, <2>2, <2>3 DEF closesFence, Closed, Opens, Fence
  <2>4. CASE line = "long"
    BY <2>1, <2>2, <2>4 DEF closesFence, Closed, Opens, Fence
  <2>5. CASE line = "tilde"
    BY <2>1, <2>2, <2>5 DEF closesFence, Closed, Opens, Fence
  <2>6. CASE line = "info"
    BY <2>1, <2>6 DEF closesFence, Closed, Fence
  <2>7. CASE line \in {"blank", "text", "item", "coded", "def"}
    BY <2>7 DEF closesFence, Closed, Fence, FenceOf, NoFence
  <2> QED
    BY <2>3, <2>4, <2>5, <2>6, <2>7 DEF Kinds
<1> QED
  BY <1>1, <1>2

(* The next line with something on it, looked for one line further back. *)
LEMMA FollowingSteps ==
  ASSUME NEW lines \in Seq(Kinds), NEW i \in 1 .. Len(lines)
  PROVE  Following(lines, i - 1) = IF lines[i] = "blank" THEN Following(lines, i) ELSE <<lines[i]>>
<1> DEFINE Rest(k) == {j \in k + 1 .. Len(lines) : lines[j] # "blank"}
<1>1. \A k : Following(lines, k) = IF Rest(k) = {} THEN <<>> ELSE <<lines[Min(Rest(k))]>>
  BY DEF Following
<1>2. i - 1 + 1 = i /\ i \in Nat /\ Len(lines) \in Nat /\ i <= Len(lines)
  OBVIOUS
<1>3. CASE lines[i] = "blank"
  <2>1. Rest(i - 1) = Rest(i)
    BY <1>2, <1>3
  <2> HIDE DEF Rest
  <2> QED
    BY <1>1, <1>3, <2>1
<1>4. CASE lines[i] # "blank"
  <2>1. i \in Rest(i - 1) /\ \A j \in Rest(i - 1) : i <= j /\ j \in Nat
    BY <1>2, <1>4
  <2> HIDE DEF Rest
  <2>2. Min(Rest(i - 1)) = i
    <3>1. \A j \in Rest(i - 1) : (\A k \in Rest(i - 1) : j <= k) => j = i
      BY <1>2, <2>1
    <3> QED
      BY <2>1, <3>1 DEF Min
  <2> QED
    BY <1>1, <1>4, <2>1, <2>2
<1> QED
  BY <1>3, <1>4

(* The blocks rendered one by one. *)
Shown(blocks) == FlattenSeq([b \in DOMAIN blocks |-> Rendered(blocks[b])])

(* One block more is shown after the others. *)
LEMMA ShownAppend ==
  ASSUME NEW blocks \in Seq(Seq(Kinds)), NEW block \in Seq(Kinds)
  PROVE  /\ Shown(blocks) \in Seq(Kinds \X Modes) /\ Shown(<<>>) = <<>>
         /\ Shown(Append(blocks, block)) = Shown(blocks) \o Rendered(block)
<1> DEFINE T == Kinds \X Modes
           K == Seq(Kinds)
           B == Seq(T)
           more == Append(blocks, block)
           s == [b \in DOMAIN blocks |-> Rendered(blocks[b])]
           t == [b \in DOMAIN more |-> Rendered(more[b])]
<1>1. blocks \in Seq(K) /\ block \in K
  OBVIOUS
<1>2. \A other \in K : Rendered(other) \in B
  BY PageType DEF Rendered, Sheets
<1> HIDE DEF K, B
<1>3. /\ DOMAIN blocks = 1 .. Len(blocks) /\ Len(blocks) \in Nat
      /\ DOMAIN more = 1 .. Len(blocks) + 1 /\ more[Len(blocks) + 1] = block
      /\ \A b \in 1 .. Len(blocks) : more[b] = blocks[b] /\ blocks[b] \in K
  BY <1>1, AppendProperties
<1>4. s \in Seq(B) /\ Len(s) = Len(blocks)
  <2>1. s \in [1 .. Len(blocks) -> B]
    BY <1>2, <1>3
  <2> HIDE DEF s
  <2> QED
    BY <1>3, <2>1, ListOf
<1>5. Rendered(block) \in B
  BY <1>1, <1>2
<1>6. t = Append(s, Rendered(block))
  <2> HIDE DEF more
  <2> DEFINE u == Append(s, Rendered(block))
  <2>1. /\ u \in Seq(B) /\ Len(u) = Len(s) + 1 /\ u[Len(s) + 1] = Rendered(block)
        /\ \A b \in 1 .. Len(s) : u[b] = s[b]
    <3> HIDE DEF s
    <3> QED
      BY <1>4, <1>5, AppendProperties
  <2>2. DOMAIN u = DOMAIN t /\ DOMAIN u = 1 .. Len(blocks) + 1
    BY <1>3, <1>4, <2>1
  <2>3. \A b \in 1 .. Len(blocks) + 1 : u[b] = t[b]
    <3> TAKE b \in 1 .. Len(blocks) + 1
    <3>1. CASE b = Len(blocks) + 1
      BY <1>3, <1>4, <2>1, <3>1
    <3>2. CASE b # Len(blocks) + 1
      BY <1>3, <1>4, <2>1, <3>2
    <3> QED
      BY <3>1, <3>2
  <2>4. t \in Seq(B) /\ Len(t) = Len(u)
    <3>1. \A b \in 1 .. Len(blocks) + 1 : t[b] \in B
      BY <1>3, <1>4, <1>5, <2>1, <2>3
    <3>2. t \in [1 .. Len(blocks) + 1 -> B]
      BY <1>3, <3>1
    <3>3. Len(blocks) + 1 \in Nat
      BY <1>3
    <3> HIDE DEF t, s, u
    <3>4. t \in Seq(B) /\ Len(t) = Len(blocks) + 1
      BY <3>2, <3>3, ListOf
    <3> QED
      BY <1>4, <2>1, <3>4
  <2> HIDE DEF t, u
  <2>5. \A b \in 1 .. Len(u) : u[b] = t[b]
    BY <1>4, <2>1, <2>3
  <2> QED
    BY <2>1, <2>4, <2>5, SeqEqual DEF u
<1>7. FlattenSeq(s) \in Seq(T) /\ FlattenSeq(Append(s, Rendered(block))) = FlattenSeq(s) \o Rendered(block)
  <2> HIDE DEF s, T
  <2> QED
    BY <1>4, <1>5, FlattenAppend DEF B
<1>8. Shown(<<>>) = <<>>
  <2>1. [b \in DOMAIN <<>> |-> Rendered(<<>>[b])] = <<>>
    OBVIOUS
  <2> QED
    BY <2>1 DEF Shown, FlattenSeq
<1> QED
  BY <1>6, <1>7, <1>8 DEF Shown

----------------------------------------------------------------------------
(* What holds after i lines: the blocks and the one that is begun show what the lines
   show, the splitter knows the fence that is open, and no block starts or is about to
   start with a line that belongs to the one before. *)
StartsAnew(lines, i, so) ==
  IF so.current = <<>>
    THEN Following(lines, i) # <<>> /\ ~Continues(Following(lines, i)[1])
    ELSE ~Continues(so.current[1])

BlocksRight(blocks) ==
  \A b \in DOMAIN blocks : Complete(blocks[b]) /\ (b > 1 => ~Continues(blocks[b][1]))

Joint(lines, i, so, page) ==
  /\ page.shown = Shown(so.blocks) \o PageOf(so.current).shown
  /\ page.open = PageOf(so.current).open
  /\ SameFence(so.fence, page.open)
  /\ so.blocks # <<>> => StartsAnew(lines, i, so)
  /\ BlocksRight(so.blocks)

(* The parts of a walk. *)
LEMMA WalkFields ==
  ASSUME NEW so \in Walks
  PROVE  /\ so.blocks \in Seq(Seq(Kinds)) /\ so.current \in Seq(Kinds) /\ so.fence \in Fences
         /\ so = [blocks |-> so.blocks, current |-> so.current, fence |-> so.fence]
BY DEF Walks

(* A line that is kept in the block that is begun. *)
LEMMA LineKept ==
  ASSUME NEW lines \in Seq(Kinds), NEW i \in 1 .. Len(lines), NEW so \in Walks, NEW page \in Sheets,
         Joint(lines, i - 1, so, page), NEW fence \in Fences, NEW then,
         then = [so EXCEPT !.current = Append(@, lines[i]), !.fence = fence],
         lines[i] # "blank" \/ so.current # <<>> \/ so.blocks = <<>>,
         SameFence(fence, ReadLine(page, lines[i]).open)
  PROVE  then \in Walks /\ Joint(lines, i, then, ReadLine(page, lines[i]))
<1> DEFINE line == lines[i]
           current == Append(so.current, line)
           old == PageOf(so.current)
           new == PageOf(current)
<1>1. /\ line \in Kinds /\ so.current \in Seq(Kinds) /\ so.blocks \in Seq(Seq(Kinds))
      /\ current \in Seq(Kinds)
  BY WalkFields, AppendProperties
<1>2. /\ then.blocks = so.blocks /\ then.current = current /\ then.fence = fence /\ then \in Walks
  <2>1. then = [blocks |-> so.blocks, current |-> current, fence |-> fence]
    BY DEF Walks
  <2> HIDE DEF current
  <2> HIDE DEF Fences
  <2>2. /\ then.blocks = so.blocks /\ then.current = current /\ then.fence = fence
    BY ONLY <2>1
  <2>3. then \in Walks
    BY <1>1, <2>1 DEF Walks
  <2> QED
    BY <2>2, <2>3
<1>3. old \in Sheets /\ new = ReadLine(old, line)
  BY <1>1, PageAppend
<1>4. old.shown \in Seq(Kinds \X Modes) /\ old.open \in Modes
  BY <1>3 DEF Sheets
<1>5. /\ page.shown = Shown(so.blocks) \o old.shown /\ page.open = old.open
  BY DEF Joint
<1>6. Shown(so.blocks) \in Seq(Kinds \X Modes)
  BY <1>1, ShownAppend
<1> HIDE DEF old, new
<1>7. new.open = ReadLine(page, line).open
  BY <1>3, <1>5 DEF ReadLine
<1>8. ReadLine(page, line).shown = Shown(so.blocks) \o new.shown
  <2>1. CASE line = "blank" /\ page.open = "none"
    BY <1>3, <1>5, <2>1 DEF ReadLine
  <2>2. CASE ~(line = "blank" /\ page.open = "none")
    <3> DEFINE x == <<line, page.open>>
               T == Kinds \X Modes
               s == Shown(so.blocks)
               t == old.shown
    <3>1. ReadLine(page, line).shown = Append(s \o t, x) /\ new.shown = Append(t, x)
      BY <1>3, <1>5, <2>2 DEF ReadLine
    <3>2. x \in T /\ s \in Seq(T) /\ t \in Seq(T)
      BY <1>1, <1>4, <1>5, <1>6
    <3> HIDE DEF x, T, s, t
    <3>3. Append(s \o t, x) = s \o Append(t, x)
      <4>1. s \o t \in Seq(T) /\ <<x>> \in Seq(T)
        BY <3>2
      <4>2. Append(s \o t, x) = (s \o t) \o <<x>> /\ Append(t, x) = t \o <<x>>
        BY <3>2, <4>1, AppendIsConcat
      <4>3. (s \o t) \o <<x>> = s \o (t \o <<x>>)
        BY <3>2, <4>1, ConcatAssociative
      <4> QED
        BY <4>2, <4>3
    <3> QED
      BY <3>1, <3>3 DEF s
  <2> QED
    BY <2>1, <2>2
<1>9. ASSUME so.blocks # <<>> PROVE ~Continues(current[1]) /\ current # <<>>
  <2>1. StartsAnew(lines, i - 1, so)
    BY <1>9 DEF Joint
  <2>2. CASE so.current = <<>>
    <3>1. current = <<line>>
      BY <2>2
    <3>2. Following(lines, i - 1) = <<line>>
      BY <1>9, <2>2, FollowingSteps
    <3> HIDE DEF line
    <3> QED
      BY <2>1, <2>2, <3>1, <3>2 DEF StartsAnew
  <2>3. CASE so.current # <<>>
    <3>1. current[1] = so.current[1] /\ current # <<>>
      <4>1. Len(so.current) \in Nat /\ Len(so.current) > 0
        BY <1>1, <2>3
      <4>2. 1 \in 1 .. Len(so.current)
        BY <4>1
      <4>3. Append(so.current, line)[1] = so.current[1] /\ Append(so.current, line) # <<>>
        <5> DEFINE old1 == so.current
        <5>1. old1 \in Seq(Kinds) /\ line \in Kinds /\ 1 \in 1 .. Len(old1)
          BY <1>1, <4>2
        <5> HIDE DEF old1, line
        <5>2. Append(old1, line)[1] = old1[1] /\ Append(old1, line) # <<>>
          BY <5>1, AppendProperties
        <5> QED
          BY <5>2 DEF old1
      <4> QED
        BY <4>3
    <3> QED
      BY <2>1, <2>3, <3>1 DEF StartsAnew
  <2> QED
    BY <2>2, <2>3
<1>10. BlocksRight(so.blocks)
  BY DEF Joint
<1> HIDE DEF current
<1> QED
  BY <1>2, <1>7, <1>8, <1>9, <1>10 DEF Joint, StartsAnew, new

(* Each line is either kept in the block that is begun or begins the next one. *)
LEMMA WalkStep ==
  ASSUME NEW lines \in Seq(Kinds), NEW i \in 1 .. Len(lines), NEW so \in Walks, NEW page \in Sheets,
         Joint(lines, i - 1, so, page)
  PROVE  /\ Split(lines, so, i) \in Walks
         /\ Joint(lines, i, Split(lines, so, i), ReadLine(page, lines[i]))
<1> DEFINE line == lines[i]
           next == Following(lines, i)
           skipped == line = "blank" /\ so.current = <<>> /\ so.blocks # <<>>
           cut == line = "blank" /\ so.current # <<>> /\ next # <<>> /\ ~Continues(next[1])
           With(fence) == [so EXCEPT !.current = Append(@, line), !.fence = fence]
           then == Split(lines, so, i)
<1>1. /\ line \in Kinds /\ so.current \in Seq(Kinds) /\ so.blocks \in Seq(Seq(Kinds))
      /\ so.fence \in Fences /\ page.open \in Modes /\ page.shown \in Seq(Kinds \X Modes)
  BY WalkFields DEF Sheets
<1>2. /\ page.open = PageOf(so.current).open /\ SameFence(so.fence, page.open)
      /\ page.shown = Shown(so.blocks) \o PageOf(so.current).shown
  BY DEF Joint
<1>3. so.fence = NoFence <=> page.open = "none"
  <2>1. \A open \in Opens : FenceOf(open) # NoFence
    BY FencesAgree DEF Opens, Kinds
  <2> QED
    BY <1>1, <1>2, <2>1 DEF SameFence, Modes
<1>4. so.fence # NoFence => so.current # <<>>
  <2>1. PageOf(<<>>).open = "none"
    BY <1>1, PageAppend DEF EmptyPage
  <2> QED
    BY <1>2, <1>3, <2>1
<1>5. CASE so.fence # NoFence
  <2> DEFINE closes == closesFence(line, so.fence)
             fence == IF closes THEN NoFence ELSE so.fence
  <2>1. page.open \in Opens /\ so.fence = FenceOf(page.open)
    BY <1>1, <1>2, <1>3, <1>5 DEF SameFence, Modes
  <2>2. closes <=> page.open \in Closed(line)
    BY <1>1, <2>1, FencesAgree
  <2>3. then = With(fence)
    BY <1>5 DEF Split
  <2>4. ReadLine(page, line).open = IF closes THEN "none" ELSE page.open
    BY <1>3, <1>5, <2>2 DEF ReadLine
  <2>5. fence \in Fences /\ SameFence(fence, ReadLine(page, line).open)
    BY <1>1, <1>2, <2>4 DEF Fences, SameFence
  <2> HIDE DEF fence, closes
  <2> QED
    BY <1>4, <1>5, <2>3, <2>5, LineKept
<1>6. CASE so.fence = NoFence /\ FenceOf(line) # NoFence
  <2>1. then = With(FenceOf(line)) /\ line \in Opens
    BY <1>1, <1>6, FencesAgree DEF Split
  <2>2. ReadLine(page, line).open = line /\ line # "none" /\ line # "blank"
    BY <1>3, <1>6, <2>1 DEF ReadLine, Opens
  <2>3. FenceOf(line) \in Fences /\ SameFence(FenceOf(line), ReadLine(page, line).open)
    BY <1>1, <2>2, FencesAgree DEF SameFence
  <2> QED
    BY <2>1, <2>2, <2>3, LineKept
<1>7. ASSUME so.fence = NoFence, FenceOf(line) = NoFence PROVE ReadLine(page, line).open = "none"
  BY <1>1, <1>3, <1>7, FencesAgree DEF ReadLine
<1>8. ASSUME so.fence = NoFence, line = "blank" PROVE ReadLine(page, line) = page
  BY <1>3, <1>8 DEF ReadLine, Sheets, Opens
<1>9. CASE so.fence = NoFence /\ FenceOf(line) = NoFence /\ skipped
  <2>1. then = so /\ ReadLine(page, line) = page
    BY <1>8, <1>9 DEF Split
  <2>2. StartsAnew(lines, i, so)
    <3>1. Following(lines, i - 1) = Following(lines, i)
      BY <1>9, FollowingSteps
    <3> QED
      BY <1>9, <3>1 DEF Joint, StartsAnew
  <2> QED
    BY <2>1, <2>2 DEF Joint
<1>10. CASE so.fence = NoFence /\ FenceOf(line) = NoFence /\ ~skipped /\ cut
  <2> DEFINE blocks == Append(so.blocks, so.current)
  <2>1. then = [so EXCEPT !.blocks = blocks, !.current = <<>>]
    BY <1>10 DEF Split
  <2>2. then = [blocks |-> blocks, current |-> <<>>, fence |-> NoFence]
    BY <1>10, <2>1, WalkFields
  <2>3. /\ blocks \in Seq(Seq(Kinds)) /\ Len(blocks) = Len(so.blocks) + 1 /\ blocks # <<>>
        /\ blocks[Len(so.blocks) + 1] = so.current /\ Len(so.blocks) \in Nat
        /\ \A b \in 1 .. Len(so.blocks) : blocks[b] = so.blocks[b]
        /\ DOMAIN blocks = 1 .. Len(so.blocks) + 1 /\ DOMAIN so.blocks = 1 .. Len(so.blocks)
    <3> DEFINE K == Seq(Kinds)
    <3>1. so.blocks \in Seq(K) /\ so.current \in K
      BY <1>1
    <3> HIDE DEF K
    <3>2. /\ blocks \in Seq(K) /\ Len(blocks) = Len(so.blocks) + 1 /\ blocks # <<>>
          /\ blocks[Len(so.blocks) + 1] = so.current /\ Len(so.blocks) \in Nat
          /\ \A b \in 1 .. Len(so.blocks) : blocks[b] = so.blocks[b]
      BY <3>1, AppendProperties
    <3> HIDE DEF blocks
    <3>3. DOMAIN blocks = 1 .. Len(so.blocks) + 1 /\ DOMAIN so.blocks = 1 .. Len(so.blocks)
      BY <3>1, <3>2
    <3> QED
      BY <3>2, <3>3 DEF K
  <2>4. Shown(blocks) = page.shown /\ Shown(blocks) \in Seq(Kinds \X Modes)
    <3>1. Shown(blocks) = Shown(so.blocks) \o Rendered(so.current)
      BY <1>1, ShownAppend
    <3> QED
      BY <1>1, <1>2, <3>1 DEF Rendered
  <2> HIDE DEF blocks
  <2>5. then.blocks = blocks /\ then.current = <<>> /\ then.fence = NoFence /\ then \in Walks
    <3>1. NoFence \in Fences /\ <<>> \in Seq(Kinds)
      BY DEF Fences
    <3> QED
      BY <2>2, <2>3, <3>1 DEF Walks
  <2>6. ReadLine(page, line) = page /\ page.open = "none"
    BY <1>3, <1>8, <1>10
  <2>7. BlocksRight(blocks)
    <3>1. Complete(so.current)
      BY <1>2, <2>6 DEF Complete
    <3>2. so.blocks # <<>> => ~Continues(so.current[1])
      BY <1>10 DEF Joint, StartsAnew
    <3>3. so.blocks = <<>> => Len(so.blocks) = 0
      OBVIOUS
    <3>4. BlocksRight(so.blocks)
      BY DEF Joint
    <3>5. ASSUME NEW b \in DOMAIN blocks
          PROVE  Complete(blocks[b]) /\ (b > 1 => ~Continues(blocks[b][1]))
      <4>1. CASE b = Len(so.blocks) + 1
        BY <2>3, <3>1, <3>2, <3>3, <4>1
      <4>2. CASE b # Len(so.blocks) + 1
        <5>1. b \in DOMAIN so.blocks /\ blocks[b] = so.blocks[b]
          BY <2>3, <4>2
        <5> QED
          BY <3>4, <5>1 DEF BlocksRight
      <4> QED
        BY <4>1, <4>2
    <3> QED
      BY <3>5 DEF BlocksRight
  <2>8. page.shown = Shown(blocks) \o PageOf(<<>>).shown /\ PageOf(<<>>).open = "none"
    <3>1. PageOf(<<>>) = EmptyPage
      BY <1>1, PageAppend
    <3>2. page.shown \o <<>> = page.shown
      BY <1>1
    <3>3. EmptyPage.shown = <<>> /\ EmptyPage.open = "none"
      BY DEF EmptyPage
    <3> QED
      BY <2>4, <3>1, <3>2, <3>3
  <2>9. SameFence(NoFence, "none") /\ StartsAnew(lines, i, then)
    BY <1>10, <2>5 DEF SameFence, StartsAnew
  <2> HIDE DEF then
  <2>10. Joint(lines, i, then, page)
    BY <2>5, <2>6, <2>7, <2>8, <2>9 DEF Joint
  <2> QED
    BY <2>5, <2>6, <2>10 DEF then
<1>11. CASE so.fence = NoFence /\ FenceOf(line) = NoFence /\ ~skipped /\ ~cut
  <2>1. then = With(NoFence)
    BY <1>11 DEF Split
  <2>2. NoFence \in Fences /\ SameFence(NoFence, ReadLine(page, line).open)
    BY <1>7, <1>11 DEF Fences, SameFence
  <2> QED
    BY <1>11, <2>1, <2>2, LineKept
<1> QED
  BY <1>5, <1>6, <1>9, <1>10, <1>11

(* The walk over a whole list of lines. *)
Start == [blocks |-> <<>>, current |-> <<>>, fence |-> NoFence]

LEMMA WalkRight ==
  ASSUME NEW lines \in Seq(Kinds)
  PROVE  Walked(lines) \in Walks /\ Joint(lines, Len(lines), Walked(lines), PageOf(lines))
<1> DEFINE m == Len(lines)
           Body(f) == [i \in 0 .. m |-> IF i = 0 THEN Start ELSE Split(lines, f[i - 1], i)]
           Next1(so, i) == IF Split(lines, so, i) \in Walks THEN Split(lines, so, i) ELSE Start
           F == [i \in 1 .. m |-> [so \in Walks |-> Next1(so, i)]]
           walk == CHOOSE f : f = Body(f)
<1>1. m \in Nat /\ Start \in Walks
  BY DEF Start, Walks, Fences
<1>2. F \in Steps(m, Walks)
  BY <1>1 DEF Steps
<1>3. Walked(lines) = walk[m]
  BY DEF Walked, Start
<1>4. PICK page : IsReading(page, lines) /\ PageOf(lines) = page[m]
  BY PageUnfolds
<1>5. PICK f : IsIteration(f, m, Walks, Start, F)
  <2> HIDE DEF F, m
  <2> QED
    BY <1>1, <1>2, Iterates
<1>6. f \in [0 .. m -> Walks] /\ f[0] = Start /\ \A i \in 1 .. m : f[i] = Next1(f[i - 1], i)
  <2>1. \A i \in 1 .. m : i - 1 \in 0 .. m
    BY <1>1
  <2> QED
    BY <1>5, <2>1 DEF IsIteration
<1> HIDE DEF F
<1> DEFINE right == {n \in Nat : n <= m => Joint(lines, n, f[n], page[n])}
<1>7. 0 \in right
  <2>1. PageOf(<<>>) = EmptyPage /\ Shown(<<>>) = <<>>
    <3>1. <<>> \in Seq(Seq(Kinds)) /\ <<>> \in Seq(Kinds) /\ "blank" \in Kinds
      BY DEF Kinds
    <3> QED
      BY <3>1, PageAppend, ShownAppend
  <2>2. page[0] = EmptyPage
    BY <1>4 DEF IsReading
  <2>3. <<>> \o <<>> = <<>>
    BY ConcatEmptySeq
  <2>4. BlocksRight(<<>>) /\ SameFence(NoFence, "none")
    BY DEF BlocksRight, SameFence
  <2>5. f[0] = Start /\ Start.blocks = <<>> /\ Start.current = <<>> /\ Start.fence = NoFence
    BY <1>6 DEF Start
  <2>6. EmptyPage.shown = <<>> /\ EmptyPage.open = "none"
    BY DEF EmptyPage
  <2>7. Joint(lines, 0, Start, EmptyPage)
    BY <2>1, <2>3, <2>4, <2>5, <2>6 DEF Joint
  <2> QED
    BY <2>2, <2>5, <2>7
<1>8. ASSUME NEW n \in 0 .. m - 1, n \in right PROVE n + 1 \in right /\ f[n + 1] = Split(lines, f[n], n + 1)
  <2>1. n \in Nat /\ n <= m /\ n \in 0 .. m /\ n + 1 \in 1 .. m /\ (n + 1) - 1 = n /\ n + 1 \in Nat
    BY <1>1
  <2>2. Joint(lines, (n + 1) - 1, f[n], page[n])
    BY <1>8, <2>1
  <2>3. f[n] \in Walks /\ page[n] \in Sheets
    BY <1>4, <1>6, <2>1 DEF IsReading
  <2>4. /\ Split(lines, f[n], n + 1) \in Walks
        /\ Joint(lines, n + 1, Split(lines, f[n], n + 1), ReadLine(page[n], lines[n + 1]))
    <3> DEFINE k == n + 1
    <3>1. k \in 1 .. Len(lines) /\ Joint(lines, k - 1, f[n], page[n])
      BY <2>1, <2>2
    <3> HIDE DEF k, m
    <3>2. Split(lines, f[n], k) \in Walks /\ Joint(lines, k, Split(lines, f[n], k), ReadLine(page[n], lines[k]))
      BY <2>3, <3>1, WalkStep
    <3> QED
      BY <3>2 DEF k
  <2>5. f[n + 1] = Split(lines, f[n], n + 1)
    BY <1>6, <2>1, <2>4
  <2>6. page[n + 1] = ReadLine(page[n], lines[n + 1])
    BY <1>4, <2>1 DEF IsReading
  <2> QED
    BY <2>1, <2>4, <2>5, <2>6
<1>9. 0 .. m \subseteq right
  <2> HIDE DEF right, m
  <2> QED
    BY <1>1, <1>7, <1>8, BoundedInduction
<1>10. \A i \in 1 .. m : f[i] = Split(lines, f[i - 1], i)
  <2> TAKE i \in 1 .. m
  <2>1. i - 1 \in 0 .. m - 1 /\ i - 1 \in 0 .. m /\ (i - 1) + 1 = i
    BY <1>1
  <2>2. i - 1 \in right
    BY <1>9, <2>1
  <2> QED
    BY <1>8, <2>1, <2>2
<1>11. f = Body(f)
  <2>1. \A i \in 0 .. m : i = 0 \/ i \in 1 .. m
    BY <1>1
  <2>2. \A i \in 0 .. m : f[i] = IF i = 0 THEN Start ELSE Split(lines, f[i - 1], i)
    BY <1>1, <1>6, <1>10, <2>1
  <2> QED
    BY <1>6, <2>2
<1>12. walk = Body(walk)
  BY <1>11
<1> HIDE DEF walk
<1> DEFINE same == {n \in Nat : n <= m => walk[n] = f[n]}
<1>13. 0 \in same
  BY <1>1, <1>6, <1>12
<1>14. ASSUME NEW n \in 0 .. m - 1, n \in same PROVE n + 1 \in same
  <2>1. n \in Nat /\ n <= m /\ n + 1 \in 1 .. m /\ n + 1 \in 0 .. m /\ (n + 1) - 1 = n /\ n + 1 # 0
    BY <1>1
  <2>2. walk[n + 1] = Split(lines, walk[n], n + 1)
    BY <1>12, <2>1
  <2>3. f[n + 1] = Split(lines, f[n], n + 1)
    BY <1>10, <2>1
  <2> QED
    BY <1>14, <2>1, <2>2, <2>3
<1>15. walk[m] = f[m] /\ Joint(lines, m, f[m], page[m]) /\ f[m] \in Walks
  <2> HIDE DEF same, right, m
  <2>1. 0 .. m \subseteq same /\ m \in 0 .. m
    BY <1>1, <1>13, <1>14, BoundedInduction
  <2>2. m \in same /\ m \in right
    BY <1>9, <2>1
  <2> QED
    BY <1>1, <1>6, <2>1, <2>2 DEF same, right
<1> QED
  BY <1>3, <1>4, <1>15

(* What the splitter makes of any lines. *)
LEMMA SplitRight ==
  ASSUME NEW lines \in Seq(Kinds)
  PROVE  LET blocks == splitMarkdownBlocks(lines)
         IN /\ Rendered(lines) = Shown(blocks)
            /\ \A b \in DOMAIN blocks : b > 1 => ~Continues(blocks[b][1])
            /\ \A b \in DOMAIN blocks : b # Len(blocks) => Complete(blocks[b])
<1> DEFINE end == Walked(lines)
           all == Append(end.blocks, end.current)
           K == Seq(Kinds)
<1>1. end \in Walks /\ Joint(lines, Len(lines), end, PageOf(lines))
  BY WalkRight
<1> HIDE DEF end
<1>2. end.blocks \in Seq(K) /\ end.current \in K /\ lines \in K
  BY <1>1 DEF Walks
<1>3. \A block \in K : Shown(Append(end.blocks, block)) = Shown(end.blocks) \o Rendered(block)
                      /\ Shown(end.blocks) \in Seq(Kinds \X Modes)
  BY <1>2, ShownAppend
<1>4. Rendered(lines) = Shown(end.blocks) \o Rendered(end.current)
  BY <1>1 DEF Joint, Rendered
<1>5. CASE Contains(lines, "def")
  <2>1. splitMarkdownBlocks(lines) = <<lines>>
    BY <1>5 DEF splitMarkdownBlocks
  <2>2. <<lines>> = Append(<<>>, lines) /\ DOMAIN <<lines>> = {1} /\ Len(<<lines>>) = 1
    OBVIOUS
  <2>3. Rendered(lines) \in Seq(Kinds \X Modes)
    BY PageType DEF Rendered, Sheets
  <2>4. Shown(<<lines>>) = Rendered(lines)
    <3>1. Shown(<<>>) = <<>> /\ Shown(Append(<<>>, lines)) = Shown(<<>>) \o Rendered(lines)
      <4>1. <<>> \in Seq(Seq(Kinds))
        OBVIOUS
      <4> QED
        BY <4>1, ShownAppend
    <3>2. <<>> \o Rendered(lines) = Rendered(lines)
      BY <2>3, ConcatEmptySeq
    <3> QED
      BY <2>2, <3>1, <3>2
  <2> QED
    BY <2>1, <2>2, <2>4
<1>6. CASE ~Contains(lines, "def") /\ end.current = <<>>
  <2>1. splitMarkdownBlocks(lines) = end.blocks
    BY <1>6 DEF splitMarkdownBlocks, end
  <2>2. Rendered(end.current) = <<>>
    <3>1. "blank" \in Kinds /\ PageOf(<<>>) = EmptyPage
      <4>1. "blank" \in Kinds /\ <<>> \in Seq(Kinds)
        BY DEF Kinds
      <4> QED
        BY <4>1, PageAppend
    <3> QED
      BY <1>6, <3>1 DEF Rendered, EmptyPage
  <2>3. Shown(end.blocks) \o <<>> = Shown(end.blocks)
    BY <1>2, <1>3, ConcatEmptySeq
  <2>4. BlocksRight(end.blocks)
    BY <1>1 DEF Joint
  <2> QED
    BY <1>4, <2>1, <2>2, <2>3, <2>4 DEF BlocksRight
<1>7. CASE ~Contains(lines, "def") /\ end.current # <<>>
  <2>1. splitMarkdownBlocks(lines) = all
    BY <1>7 DEF splitMarkdownBlocks, end
  <2>2. Shown(all) = Rendered(lines)
    BY <1>2, <1>3, <1>4
  <2> HIDE DEF K
  <2>3. /\ Len(all) = Len(end.blocks) + 1 /\ Len(end.blocks) \in Nat
        /\ all[Len(end.blocks) + 1] = end.current /\ all \in Seq(K)
        /\ \A b \in 1 .. Len(end.blocks) : all[b] = end.blocks[b]
    BY <1>2, AppendProperties
  <2> HIDE DEF all
  <2>4. DOMAIN all = 1 .. Len(end.blocks) + 1 /\ DOMAIN end.blocks = 1 .. Len(end.blocks)
        /\ (end.blocks = <<>> => Len(end.blocks) = 0)
    BY <1>2, <2>3
  <2>5. BlocksRight(end.blocks) /\ (end.blocks # <<>> => ~Continues(end.current[1]))
    BY <1>1, <1>7 DEF Joint, StartsAnew
  <2>6. ASSUME NEW b \in DOMAIN all
        PROVE  (b > 1 => ~Continues(all[b][1])) /\ (b # Len(all) => Complete(all[b]))
    <3>1. CASE b = Len(end.blocks) + 1
      BY <2>3, <2>4, <2>5, <3>1
    <3>2. CASE b # Len(end.blocks) + 1
      <4>1. b \in DOMAIN end.blocks /\ all[b] = end.blocks[b]
        BY <2>3, <2>4, <3>2
      <4> QED
        BY <2>5, <4>1 DEF BlocksRight
    <3> QED
      BY <3>1, <3>2
  <2> QED
    BY <2>1, <2>2, <2>6
<1> QED
  BY <1>5, <1>6, <1>7

----------------------------------------------------------------------------
AnswerInv ==
  /\ answer \in Seq(Kinds) /\ answer # <<>>
  /\ archived \in Nat /\ versionIndex \in Nat
  /\ versionIndex # archived => paged

LEMMA AnswerStep ==
  ASSUME AnswerInv, [AnswerNext]_answerVars
  PROVE  AnswerInv'
<1>1. \A n : Len(answer) \in DOMAIN answer /\ Len(answer) \in Nat
  BY DEF AnswerInv
<1>2. CASE Grow
  <2>1. PICK line \in Kinds : answer' = [answer EXCEPT ![Len(answer)] = line]
    <3>1. \A line : Grown(line) \subseteq Kinds
      BY DEF Grown, Kinds
    <3> QED
      BY <1>2, <3>1 DEF Grow
  <2>2. answer' \in Seq(Kinds) /\ Len(answer') = Len(answer)
    BY <2>1, ExceptSeq DEF AnswerInv
  <2>3. Len(answer) # 0 /\ Len(<<>>) = 0
    BY DEF AnswerInv
  <2> QED
    BY <1>2, <2>2, <2>3 DEF Grow, AnswerInv
<1>3. CASE NewLine
  <2>1. "blank" \in Kinds
    BY DEF Kinds
  <2>2. answer' \in Seq(Kinds) /\ answer' # <<>>
    BY <1>3, <2>1, AppendProperties DEF NewLine, AnswerInv
  <2> QED
    BY <1>3, <2>2 DEF NewLine, AnswerInv
<1>4. CASE StreamEnds
  BY <1>4 DEF StreamEnds, AnswerInv
<1>5. CASE Regenerate
  <2>1. <<"blank">> \in Seq(Kinds) /\ <<"blank">> # <<>>
    BY DEF Kinds
  <2> QED
    BY <1>5, <2>1 DEF Regenerate, AnswerInv
<1>6. CASE VersionArrives
  BY <1>6 DEF VersionArrives, AnswerInv
<1>7. CASE Page
  BY <1>7 DEF Page, AnswerInv
<1>8. CASE UNCHANGED answerVars
  BY <1>8 DEF answerVars, AnswerInv
<1> QED
  BY <1>2, <1>3, <1>4, <1>5, <1>6, <1>7, <1>8 DEF AnswerNext

(* An answer of any length, however it grows line by line, is cut into blocks that show
   what the whole would: each line once and in order, as code where it is code, with no
   fence left open in a block that is highlighted and no block that begins inside a list;
   and whoever has not paged back reads the newest version. *)
THEOREM AnswerBlocksStandAlone == AnswerSpec => []BlocksStandAlone
<1>1. AnswerInit => AnswerInv
  <2>1. <<"blank">> \in Seq(Kinds) /\ <<"blank">> # <<>>
    BY DEF Kinds
  <2> QED
    BY <2>1 DEF AnswerInit, AnswerInv
<1>2. AnswerInv /\ [AnswerNext]_answerVars => AnswerInv'
  BY AnswerStep
<1>3. AnswerInv => BlocksStandAlone
  <2> SUFFICES ASSUME AnswerInv PROVE BlocksStandAlone
    OBVIOUS
  <2> DEFINE blocks == splitMarkdownBlocks(answer)
  <2>1. /\ Rendered(answer) = Shown(blocks)
        /\ \A b \in DOMAIN blocks : b > 1 => ~Continues(blocks[b][1])
        /\ \A b \in DOMAIN blocks : b # Len(blocks) => Complete(blocks[b])
    BY SplitRight DEF AnswerInv
  <2> HIDE DEF blocks
  <2>2. \A b \in Highlighted(blocks) : b < Len(blocks) => Complete(blocks[b])
    BY <2>1 DEF Highlighted
  <2>3. BlocksStandAlone <=>
          /\ ~NestedFence(answer) =>
                Rendered(answer) = FlattenSeq([b \in DOMAIN blocks |-> Rendered(blocks[b])])
          /\ \A b \in DOMAIN blocks : b > 1 => ~Continues(blocks[b][1])
          /\ \A b \in Highlighted(blocks) : b < Len(blocks) => Complete(blocks[b])
          /\ versionIndex # archived => paged
    BY DEF BlocksStandAlone, blocks
  <2> QED
    BY <2>1, <2>2, <2>3 DEF Shown, AnswerInv
<1> QED
  BY <1>1, <1>2, <1>3, PTL DEF AnswerSpec
=============================================================================
