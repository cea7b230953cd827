------------------------------- MODULE Palette -------------------------------
(* The command palette: what is typed is searched on the server once typing has
   paused, while the commands are matched at once. Answers arrive late, out of
   order or not at all, and Enter runs whatever is highlighted at that moment.
   A needle stands for a query, trimmed and in lower case. *)
EXTENDS Lists, FiniteSetsExt

CONSTANTS
  Needles,    \* what may be in the box
  NoNeedle,   \* the empty box, one of them
  Commands,   \* the palette's commands, in order
  Rows,       \* the user's chats as the server sorts them
  Hit,        \* for an item and a needle: found in its "label", "inside" it, or "none"
  RecentLimit, SearchLimit,
  Nothing

ASSUME PaletteAssumption ==
  /\ NoNeedle \in Needles /\ {RecentLimit, SearchLimit} \subseteq Nat
  /\ Commands \in Seq(Range(Commands)) /\ Rows \in Seq(Range(Rows))

VARIABLES
  opened,    \* paletteOpen of the ui store
  box,       \* query
  debounced, \* the needle of the last pause
  answers,   \* needles whose chats react-query holds
  asking,    \* the needle it asks the server for, or Nothing
  active,    \* index of the highlighted item, counted from 0
  ran        \* what was run last, for what was in the box, and whether it stood first

paletteVars == <<opened, box, debounced, answers, asking, active, ran>>

PaletteInit ==
  /\ opened = FALSE /\ box = NoNeedle /\ debounced = NoNeedle /\ active = 0
  /\ answers = {} /\ asking = Nothing /\ ran = Nothing

----------------------------------------------------------------------------
IsCommand(item) == Contains(Commands, item)
Found(item, needle) == needle = NoNeedle \/ Hit[item][needle] # "none"

Matches(items, needle) == Kept(items, {item \in Range(items) : Found(item, needle)})

(* A command named like the needle, a chat titled like it, a chat that mentions it,
   a command with a keyword like it. *)
rank(item, needle) ==
  LET inLabel == Hit[item][needle] = "label"
  IN IF IsCommand(item) THEN IF inLabel THEN 0 ELSE 3 ELSE IF inLabel THEN 1 ELSE 2

(* The groups in the order of their first items, each in its order. *)
sectionsOf(items) ==
  LET With(first) == Kept(items, {item \in Range(items) : IsCommand(item) = first})
  IN IF items = <<>> THEN items
     ELSE With(IsCommand(items[1])) \o With(~IsCommand(items[1]))

(* Mutant: the rows of the last pause are shown whatever is in the box. *)
ChatItemsUnsettled ==
  LET limit == IF box = NoNeedle THEN RecentLimit ELSE SearchLimit
      rows == IF debounced \in answers
                THEN Matches(Rows, debounced) ELSE <<>>
  IN SubSeq(rows, 1, Min({limit, Len(rows)}))

(* The chats belong to the debounced needle, and are shown only once it has caught
   up with the box. *)
ChatItems ==
  LET limit == IF box = NoNeedle THEN RecentLimit ELSE SearchLimit
      rows == IF debounced = box /\ debounced \in answers
                THEN Matches(Rows, debounced) ELSE <<>>
  IN SubSeq(rows, 1, Min({limit, Len(rows)}))

(* Idle: the commands, then recent chats. Searching: by rank, ties keep their order. *)
Ranked ==
  LET all == Matches(Commands, box) \o ChatItems
      OfRank(n) == Kept(all, {item \in Range(all) : rank(item, box) = n})
  IN IF box = NoNeedle THEN all ELSE OfRank(0) \o OfRank(1) \o OfRank(2) \o OfRank(3)

Items == sectionsOf(Ranked)
ActiveIndex == Min({active, Max({Len(Items) - 1, 0})})

----------------------------------------------------------------------------
(* Mounted only while open: its state starts anew, what was fetched is kept. *)
OpenPalette ==
  /\ ~opened /\ opened' = TRUE
  /\ box' = NoNeedle /\ debounced' = NoNeedle /\ active' = 0
  /\ asking' = IF NoNeedle \in answers THEN Nothing ELSE NoNeedle
  /\ UNCHANGED <<answers, ran>>

Closes == opened' = FALSE /\ asking' = Nothing

ClosePalette ==
  /\ opened /\ Closes
  /\ UNCHANGED <<box, debounced, answers, active, ran>>

Type(needle) ==
  /\ opened /\ needle # box
  /\ box' = needle /\ active' = 0
  /\ UNCHANGED <<opened, debounced, answers, asking, ran>>

(* The timer of useDebouncedValue; a request nobody waits for any more is aborted. *)
Pause ==
  /\ opened /\ debounced # box
  /\ debounced' = box
  /\ asking' = IF box \in answers THEN Nothing ELSE box
  /\ UNCHANGED <<opened, box, answers, active, ran>>

SearchAnswers ==
  /\ asking # Nothing
  /\ answers' = answers \cup {asking} /\ asking' = Nothing
  /\ UNCHANGED <<opened, box, debounced, active, ran>>

SearchFails ==
  /\ asking # Nothing /\ asking' = Nothing
  /\ UNCHANGED <<opened, box, debounced, answers, active, ran>>

(* The arrow keys, Home and End move from the item shown as active, the pointer to
   any item; without items they do nothing. *)
Highlight ==
  /\ opened /\ active' \in 0 .. Len(Items) - 1
  /\ UNCHANGED <<opened, box, debounced, answers, asking, ran>>

Runs(i) ==
  /\ ran' = [item |-> Items[i], needle |-> box, first |-> i = 1]
  /\ Closes
  /\ UNCHANGED <<box, debounced, answers, active>>

(* Enter runs the highlighted item, a click the one under the pointer. *)
Enter == opened /\ Items # <<>> /\ Runs(ActiveIndex + 1)
Click == opened /\ \E i \in DOMAIN Items : Runs(i)

PaletteNext ==
  \/ OpenPalette \/ ClosePalette \/ (\E needle \in Needles : Type(needle))
  \/ Pause \/ SearchAnswers \/ SearchFails
  \/ Highlight \/ Enter \/ Click

PaletteSpec == PaletteInit /\ [][PaletteNext]_paletteVars

----------------------------------------------------------------------------
(* Whatever is run matches what is in the box, however late the search answers:
   stale rows are never presented as matches. And typing the name of a command and
   pressing Enter runs a command of that name, not a chat that mentions it. *)
PaletteHonest ==
  ran # Nothing =>
    /\ Found(ran.item, ran.needle)
    /\ ran.first /\ ran.needle # NoNeedle
         /\ (\E i \in DOMAIN Commands : Hit[Commands[i]][ran.needle] = "label")
       => IsCommand(ran.item) /\ Hit[ran.item][ran.needle] = "label"
=============================================================================
