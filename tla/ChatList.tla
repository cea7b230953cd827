------------------------------ MODULE ChatList ------------------------------
(* The sidebar of one tab over the chats and folders of its user: react-query's
   copy of both lists, the optimistic changes with their rollback, the refetches
   they start, and the requests on the server, while other tabs of the user
   change the same rows; the public link of a chat; and the prompt that is typed
   before its chat exists. A field of a chat stands for those that a patch sets
   at once, its title and its pin too: its folder. *)
EXTENDS Naturals, FiniteSets

CONSTANTS
  Chats, Folders, Prompts,
  Requests,   \* requests that can be under way at the same time, of all tabs
  MaxSlugs,   \* bound on the links that are made
  MaxStarted, \* bound on the requests that are made
  None

ASSUME ListAssumption == MaxSlugs \in Nat /\ MaxStarted \in Nat /\ None \notin Nat

VARIABLES
  chats,    \* the rows of Chat: folder and link, or None
  folders,  \* the rows of Folder
  made,     \* ids of chats and folders that were ever created (history)
  slugs,    \* links made so far
  dead,     \* links that were revoked (history)
  gone,     \* links that left their chat while no share held them (history)
  list,     \* the tab's copy of the chats
  shelf,    \* the tab's copy of the folders
  fetch,    \* its refetch of "chats" and of "folders"
  req,      \* the requests
  drift,    \* what the tab cannot know changed since its last read (history)
  started,  \* requests made so far
  stored,   \* the prompt in the tab's sessionStorage
  sent      \* prompts sent, with the chat they went to

server == <<chats, folders, made, slugs, dead, gone>>
tab == <<list, shelf, fetch, drift>>
prompt == <<stored, sent>>
vars == <<server, tab, req, started, prompt>>

NoFetch == [pc |-> "none", rows |-> None]
Asked == [pc |-> "asked", rows |-> None]
Free == [pc |-> "free", tab |-> "none", kind |-> "none", on |-> None, to |-> None,
         seen |-> None, before |-> None, ok |-> FALSE]

Init ==
  /\ folders \in SUBSET Folders /\ shelf = folders
  /\ \E there \in SUBSET Chats :
       /\ made = there \cup folders
       /\ chats = [c \in Chats |-> IF c \in there THEN [folder |-> None, slug |-> None] ELSE None]
       /\ list = chats
  /\ slugs = 0 /\ dead = {} /\ gone = {}
  /\ fetch = [q \in {"chats", "folders"} |-> NoFetch]
  /\ req = [r \in Requests |-> Free]
  /\ drift = {} /\ started = 0 /\ stored = None /\ sent = {}

Invalidate(queries) == fetch' = [q \in DOMAIN fetch |-> IF q \in queries THEN Asked ELSE fetch[q]]

----------------------------------------------------------------------------
Starts(r, from, kind, on, to) ==
  /\ req[r].pc = "free" /\ started < MaxStarted /\ started' = started + 1
  /\ req' = [req EXCEPT ![r] = [Free EXCEPT !.pc = "sent", !.tab = from, !.kind = kind, !.on = on,
       !.to = to, !.before = IF from = "here" /\ kind \in {"move", "share"} THEN list ELSE None]]

(* useUpdateChat.onMutate: refetches are cancelled, the list is kept for a
   rollback and patched. *)
Optimistic(patched) ==
  /\ list' = patched
  /\ fetch' = [fetch EXCEPT !["chats"] = NoFetch]
  /\ UNCHANGED <<server, shelf, drift, prompt>>

Move(r, c, f) ==
  /\ list[c] # None /\ list[c].folder # f /\ f \in shelf \cup {None}
  /\ Starts(r, "here", "move", c, f)
  /\ Optimistic([list EXCEPT ![c].folder = f])

(* The switch of the share dialog, which waits for its own request only. *)
Share(r, c, on) ==
  /\ list[c] # None /\ on = (list[c].slug = None)
  /\ ~\E q \in Requests : req[q].kind = "share" /\ req[q].tab = "here"
  /\ Starts(r, "here", "share", c, on)
  /\ Optimistic(list)

RemoveChat(r, c) ==
  /\ list[c] # None
  /\ Starts(r, "here", "removeChat", c, None)
  /\ UNCHANGED <<server, tab, prompt>>

RemoveFolder(r, f) ==
  /\ f \in shelf
  /\ Starts(r, "here", "removeFolder", f, None)
  /\ UNCHANGED <<server, tab, prompt>>

(* "New chat" in the sidebar, and the landing screen, which first stores what
   was typed there. *)
Creating(r, typed) ==
  /\ \E c \in Chats \ made :
       ~(\E q \in Requests : req[q].on = c) /\ Starts(r, "here", "create", c, None)
  /\ stored' = IF typed = None THEN stored ELSE typed
  /\ UNCHANGED <<server, tab, sent>>

Launch(r, p) == (\A s \in sent : s.prompt # p) /\ stored # p /\ Creating(r, p)

(* The dialog stays open, disabled, until its folder is there. *)
NewFolderDialog(r) ==
  /\ ~\E q \in Requests : req[q].kind = "createFolder" /\ req[q].tab = "here"
  /\ \E f \in Folders \ made :
       ~(\E q \in Requests : req[q].on = f) /\ Starts(r, "here", "createFolder", f, None)
  /\ UNCHANGED <<server, tab, prompt>>

(* Another tab asks for the same, from a list this tab knows nothing of. *)
Elsewhere(r) ==
  /\ \E c \in Chats, f \in Folders, on \in BOOLEAN,
        kind \in {"move", "share", "removeChat", "removeFolder"} :
       /\ kind # "removeFolder" => c \in made
       /\ kind \in {"move", "removeFolder"} => f \in made
       /\ Starts(r, "elsewhere", kind, IF kind = "removeFolder" THEN f ELSE c,
                 CASE kind = "move" -> f [] kind = "share" -> on [] OTHER -> None)
  /\ UNCHANGED <<server, tab, prompt>>

----------------------------------------------------------------------------
(* The server: an update reads its chat, and the folder it names, before it writes. *)
Answers(r, ok) == req' = [req EXCEPT ![r].pc = "answered", ![r].ok = ok]

Read(r) ==
  LET c == req[r].on
  IN /\ req[r].pc = "sent" /\ req[r].kind \in {"move", "share"}
     /\ IF chats[c] # None /\ (req[r].kind = "move" => req[r].to \in folders \cup {None})
          THEN req' = [req EXCEPT ![r].pc = "read", ![r].seen = chats[c].slug]
          ELSE Answers(r, FALSE)
     /\ UNCHANGED <<server, tab, started, prompt>>

(* What the tab cannot know: a change that is not its own, or no longer. *)
Drifts(r) == drift' = IF req[r].tab = "here" THEN drift ELSE {"chats", "folders"}

(* Mutant: sharing again brings back the first link of the chat. *)
LinkAgain(r) == IF req[r].seen # None THEN req[r].seen
                ELSE IF dead # {} THEN CHOOSE s \in dead : TRUE ELSE slugs + 1

(* The link a chat had when it was read is kept; otherwise a new one is made. *)
Link(r) == IF req[r].seen # None THEN req[r].seen ELSE slugs + 1

(* Links that requests to share, besides r, have read and not yet written. *)
Held(r) ==
  {req[q].seen : q \in {p \in Requests \ {r} :
     req[p].pc = "read" /\ req[p].kind = "share" /\ req[p].to}}

Update(r) ==
  LET c == req[r].on
      here == req[r]
  IN /\ here.pc = "read"
     /\ IF chats[c] = None \/ (here.kind = "move" /\ here.to \notin folders \cup {None})
          THEN Answers(r, FALSE) /\ UNCHANGED <<server, drift>>
          ELSE /\ IF here.kind = "move"
                    THEN /\ chats' = [chats EXCEPT ![c].folder = here.to]
                         /\ UNCHANGED <<slugs, dead, gone>>
                    ELSE /\ here.to = TRUE => slugs < MaxSlugs
                         /\ chats' = [chats EXCEPT ![c].slug = IF here.to THEN Link(r) ELSE None]
                         /\ slugs' = IF here.to /\ Link(r) = slugs + 1 THEN slugs + 1 ELSE slugs
                         /\ dead' = IF here.to THEN dead ELSE dead \cup ({chats[c].slug} \ {None})
                         /\ gone' = gone \cup ({chats[c].slug} \ (Held(r) \cup {chats'[c].slug, None}))
               /\ Answers(r, TRUE) /\ Drifts(r) /\ UNCHANGED <<folders, made>>
     /\ UNCHANGED <<list, shelf, fetch, started, prompt>>

deleteChat(r) ==
  /\ req[r].pc = "sent" /\ req[r].kind = "removeChat"
  /\ chats' = [chats EXCEPT ![req[r].on] = None]
  /\ gone' = IF chats[req[r].on] = None THEN gone ELSE gone \cup ({chats[req[r].on].slug} \ {None})
  /\ Answers(r, chats[req[r].on] # None) /\ Drifts(r)
  /\ UNCHANGED <<folders, made, slugs, dead, list, shelf, fetch, started, prompt>>

(* The chats of a folder survive it: onDelete SetNull. *)
deleteFolder(r) ==
  LET f == req[r].on
  IN /\ req[r].pc = "sent" /\ req[r].kind = "removeFolder"
     /\ folders' = folders \ {f}
     /\ chats' = [c \in Chats |-> IF chats[c] # None /\ chats[c].folder = f
                                    THEN [chats[c] EXCEPT !.folder = None] ELSE chats[c]]
     /\ Answers(r, f \in folders) /\ Drifts(r)
     /\ UNCHANGED <<made, slugs, dead, gone, list, shelf, fetch, started, prompt>>

createChat(r) ==
  /\ req[r].pc = "sent" /\ req[r].kind = "create"
  /\ chats' = [chats EXCEPT ![req[r].on] = [folder |-> None, slug |-> None]]
  /\ made' = made \cup {req[r].on}
  /\ Answers(r, TRUE) /\ Drifts(r)
  /\ UNCHANGED <<folders, slugs, dead, gone, list, shelf, fetch, started, prompt>>

createFolder(r) ==
  /\ req[r].pc = "sent" /\ req[r].kind = "createFolder"
  /\ folders' = folders \cup {req[r].on} /\ made' = made \cup {req[r].on}
  /\ Answers(r, TRUE) /\ Drifts(r)
  /\ UNCHANGED <<chats, slugs, dead, gone, list, shelf, fetch, started, prompt>>

(* The routes of /api/chats and /api/folders. *)
ChatsRoute(r) == createChat(r) \/ Read(r) \/ Update(r) \/ deleteChat(r)
FoldersRoute(r) == createFolder(r) \/ deleteFolder(r)

----------------------------------------------------------------------------
(* Mutant: the prompt stays in the storage. *)
TakePromptAgain(c) ==
  IF stored # None /\ (\A s \in sent : s.chat # c)
    THEN sent' = sent \cup {[prompt |-> stored, chat |-> c]} /\ UNCHANGED stored
    ELSE UNCHANGED prompt

(* The prompt is taken from the storage before it is sent, and only into an
   empty chat. *)
TakePrompt(c) ==
  IF stored # None /\ (\A s \in sent : s.chat # c)
    THEN sent' = sent \cup {[prompt |-> stored, chat |-> c]} /\ stored' = None
    ELSE UNCHANGED prompt

(* A request of the tab is over: what its onSuccess, onError and onSettled do. *)
Restored(r) == IF req[r].kind \in {"move", "share"} THEN req[r].before ELSE list

(* Mutant: an update that failed is rolled back, and nothing is fetched. *)
RefreshesIfOk(kind, ok) ==
  CASE ~ok -> {}
    [] kind = "create" -> {"chats"}
    [] kind = "createFolder" -> {"folders"}
    [] OTHER -> {"chats", "folders"}

Refreshes(kind, ok) ==
  CASE kind \in {"move", "share"} -> {"chats", "folders"}
    [] kind \in {"removeChat", "removeFolder"} -> IF ok THEN {"chats", "folders"} ELSE {}
    [] kind = "create" -> IF ok THEN {"chats"} ELSE {}
    [] kind = "createFolder" -> IF ok THEN {"folders"} ELSE {}

Concludes(r) ==
  /\ req[r].pc = "answered" /\ req[r].tab = "here"
  /\ list' = IF req[r].ok THEN list ELSE Restored(r)
  /\ Invalidate(Refreshes(req[r].kind, req[r].ok))
  /\ IF req[r].kind = "create" /\ req[r].ok THEN TakePrompt(req[r].on) ELSE UNCHANGED prompt
  /\ req' = [req EXCEPT ![r] = Free]
  /\ UNCHANGED <<server, shelf, drift, started>>

(* The answer never arrives: the tab rolls back, the server may still go on. *)
Loses(r) ==
  /\ req[r].pc # "free" /\ req[r].tab = "here"
  /\ list' = Restored(r)
  /\ Invalidate(Refreshes(req[r].kind, FALSE))
  /\ drift' = {"chats", "folders"}
  /\ req' = [req EXCEPT ![r].tab = "nobody", ![r].before = None]
  /\ UNCHANGED <<server, shelf, started, prompt>>

Vanishes(r) ==
  /\ req[r].pc = "answered" /\ req[r].tab # "here"
  /\ req' = [req EXCEPT ![r] = Free]
  /\ UNCHANGED <<server, tab, started, prompt>>

(* A chat is opened from the list. *)
Open(c) ==
  /\ list[c] # None /\ chats[c] # None
  /\ TakePrompt(c)
  /\ UNCHANGED <<server, tab, req, started>>

(* The two queries; a list that went stale is fetched again at any time. *)
Refetch(q) ==
  /\ fetch[q].pc = "none" /\ q \in drift /\ Invalidate({q})
  /\ UNCHANGED <<server, list, shelf, drift, req, started, prompt>>

FetchReads(q) ==
  /\ fetch[q].pc = "asked"
  /\ fetch' = [fetch EXCEPT ![q] = [pc |-> "read", rows |-> IF q = "chats" THEN chats ELSE folders]]
  /\ drift' = drift \ {q}
  /\ UNCHANGED <<server, list, shelf, req, started, prompt>>

Lands(q) ==
  /\ fetch[q].pc = "read"
  /\ fetch' = [fetch EXCEPT ![q] = NoFetch]
  /\ list' = IF q = "chats" THEN fetch[q].rows ELSE list
  /\ shelf' = IF q = "folders" THEN fetch[q].rows ELSE shelf
  /\ UNCHANGED <<server, drift, req, started, prompt>>

FetchFails(q) ==
  /\ fetch[q].pc = "asked"
  /\ fetch' = [fetch EXCEPT ![q] = NoFetch] /\ drift' = drift \cup {q}
  /\ UNCHANGED <<server, list, shelf, req, started, prompt>>

----------------------------------------------------------------------------
(* A chat in the sidebar and its menu; to rename it is an update like a move. *)
ChatListItem(r, c) == (\E f \in Folders \cup {None} : Move(r, c, f)) \/ RemoveChat(r, c)

(* The bar above the open chat. *)
ChatHeader(r, c) == (\E on \in BOOLEAN : Share(r, c, on)) \/ RemoveChat(r, c)

FolderSection(r, f) ==
  \/ RemoveFolder(r, f)
  \/ \E c \in Chats : list[c] # None /\ list[c].folder = f /\ ChatListItem(r, c)

(* Folders with their chats, then the loose ones: a chat of a folder that the tab's
   shelf does not hold is on neither list. *)
ChatNavigation(r) ==
  \/ NewFolderDialog(r)
  \/ \E f \in shelf : FolderSection(r, f)
  \/ \E c \in Chats : list[c] # None /\ list[c].folder = None /\ ChatListItem(r, c)

(* The collapsed sidebar offers less, and never more. *)
Rail(r) == Creating(r, None) \/ NewFolderDialog(r)
Sidebar(r) == Rail(r) \/ ChatNavigation(r)

(* The palette's commands; it also lists every chat. *)
CommandPalette(r) == Creating(r, None) \/ NewFolderDialog(r)

UserActs(r) ==
  \/ Sidebar(r) \/ CommandPalette(r)
  \/ \E c \in Chats : ChatHeader(r, c)
  \/ \E p \in Prompts : Launch(r, p)

Next ==
  \/ \E r \in Requests :
       \/ UserActs(r) \/ Elsewhere(r)
       \/ ChatsRoute(r) \/ FoldersRoute(r)
       \/ Concludes(r) \/ Loses(r) \/ Vanishes(r)
  \/ \E c \in Chats : Open(c)
  \/ \E q \in DOMAIN fetch : Refetch(q) \/ FetchReads(q) \/ Lands(q) \/ FetchFails(q)

Spec == Init /\ [][Next]_vars

----------------------------------------------------------------------------
Quiet == /\ \A r \in Requests : req[r].tab # "here"
         /\ \A q \in DOMAIN fetch : fetch[q].pc = "none"

(* When the tab's own changes are over and its refetches have arrived, the
   sidebar shows the rows, however successes, failures and rollbacks of several
   optimistic changes interleaved; only a change of someone else, a lost answer
   or a failed refetch can make it differ. *)
ListConverges ==
  Quiet => /\ "chats" \notin drift => list = chats
           /\ "folders" \notin drift => shelf = folders

(* "Revoking and re-sharing deliberately produces a new slug so old links stop resolving":
   no chat has a link that was revoked. *)
OldLinksStopResolving ==
  \A c \in Chats : chats[c] # None => chats[c].slug \notin dead

(* A link ends for good, for every chat, when it leaves its chat (revoked or replaced)
   while no other request to share has read it, and always when its chat is deleted,
   whatever was under way then: sharing again, in any tab, brings back no such link. *)
LinksEndForGood ==
  \A c \in Chats : chats[c] # None => chats[c].slug \notin gone

(* What was typed on the landing screen is sent once at most. *)
PromptsSentOnce == \A s, t \in sent : s.prompt = t.prompt => s = t
=============================================================================
