------------------------------ MODULE AnswerView ------------------------------
(* An assistant's message on the screen: the answer grows while it streams, is cut
   into blocks that are rendered and memoised one by one, and the reader pages
   through the versions of a regenerated answer. Of a line the kind is kept:
     "blank", "text";
     "item" a list item or an indented line, "coded" an item that opens a fence;
     "bare" and "info" a fence of three backticks without and with a language,
     "long" one of four, "tilde" one of tildes, "inner" a bare one, indented;
     "def" a definition that other lines may refer to. *)
EXTENDS Naturals, Sequences, SequencesExt, FiniteSetsExt

CONSTANTS MaxLines, MaxVersions   \* bounds of the model

Kinds == {"blank", "text", "item", "coded", "bare", "info", "long", "tilde", "inner", "def"}

VARIABLES
  answer,        \* lines of the newest content
  streaming,     \* isStreaming
  archived,      \* number of older versions
  owed,          \* the server has archived one more than the last fetch showed
  versionIndex,  \* counted from 0; the newest content has index archived
  paged          \* history: the reader chose this version

answerVars == <<answer, streaming, archived, owed, versionIndex, paged>>

AnswerInit ==
  /\ answer = <<"blank">> /\ streaming = TRUE
  /\ archived = 0 /\ owed = FALSE /\ versionIndex = 0 /\ paged = FALSE

----------------------------------------------------------------------------
Fence(char, length, alone) == [char |-> char, length |-> length, alone |-> alone]
NoFence == Fence("", 0, FALSE)

(* FENCE_OPEN and CONTINUES_BLOCK. *)
FenceOf(line) ==
  CASE line \in {"bare", "inner"} -> Fence("tick", 3, TRUE)
    [] line = "info" -> Fence("tick", 3, FALSE)
    [] line = "long" -> Fence("tick", 4, TRUE)
    [] line = "tilde" -> Fence("tilde", 3, TRUE)
    [] OTHER -> NoFence
Continues(line) == line \in {"item", "coded", "inner"}

closesFence(line, fence) ==
  LET it == FenceOf(line)
  IN it.alone /\ it.char = fence.char /\ it.length >= fence.length

(* The first line after i that is not blank, if any. *)
Following(lines, i) ==
  LET rest == {j \in i + 1 .. Len(lines) : lines[j] # "blank"}
  IN IF rest = {} THEN <<>> ELSE <<lines[Min(rest)]>>

(* Mutant: a blank line inside a fence is cut at like any other. *)
SplitInCode(lines, so, i) ==
  LET line == lines[i]
      next == Following(lines, i)
      cut == line = "blank" /\ so.current # <<>> /\ next # <<>> /\ ~Continues(next[1])
  IN IF line = "blank" /\ so.current = <<>> /\ so.blocks # <<>> THEN so
     ELSE IF cut THEN [so EXCEPT !.blocks = Append(@, so.current), !.current = <<>>]
     ELSE [so EXCEPT !.current = Append(@, line)]

(* One line: inside a fence or opening one it is kept; a blank line is cut at, with
   the blank ones after it, unless the next line could continue the block. *)
Split(lines, so, i) ==
  LET line == lines[i]
      With(fence) == [so EXCEPT !.current = Append(@, line), !.fence = fence]
      next == Following(lines, i)
      skipped == line = "blank" /\ so.current = <<>> /\ so.blocks # <<>>
      cut == line = "blank" /\ so.current # <<>> /\ next # <<>> /\ ~Continues(next[1])
  IN IF so.fence # NoFence
       THEN With(IF closesFence(line, so.fence) THEN NoFence ELSE so.fence)
     ELSE IF FenceOf(line) # NoFence THEN With(FenceOf(line))
     ELSE IF skipped THEN so
     ELSE IF cut THEN [so EXCEPT !.blocks = Append(@, so.current), !.current = <<>>]
     ELSE With(NoFence)

(* The walk over the lines, and the block it has begun when they end. *)
Walked(lines) ==
  LET so[i \in 0 .. Len(lines)] ==
        IF i = 0 THEN [blocks |-> <<>>, current |-> <<>>, fence |-> NoFence]
                 ELSE Split(lines, so[i - 1], i)
  IN so[Len(lines)]

splitMarkdownBlocks(lines) ==
  LET end == Walked(lines)
  IN IF Contains(lines, "def") THEN <<lines>>
     ELSE IF end.current = <<>> THEN end.blocks ELSE Append(end.blocks, end.current)

(* Markdown: the last block of an answer that is still arriving is left plain. *)
Highlighted(blocks) == {b \in DOMAIN blocks : streaming => b # Len(blocks)}

----------------------------------------------------------------------------
(* What a line can become when more of it arrives. *)
Grown(line) ==
  CASE line = "blank" -> Kinds
    [] line = "text" -> {"item", "bare", "info", "long", "tilde", "def"}
    [] line = "item" -> {"coded"}
    [] line = "bare" -> {"info", "long"}
    [] OTHER -> {}

Grow ==
  /\ streaming
  /\ \E line \in Grown(Last(answer)) : answer' = [answer EXCEPT ![Len(answer)] = line]
  /\ UNCHANGED <<streaming, archived, owed, versionIndex, paged>>

NewLine ==
  /\ streaming /\ Len(answer) < MaxLines
  /\ answer' = Append(answer, "blank")
  /\ UNCHANGED <<streaming, archived, owed, versionIndex, paged>>

StreamEnds ==
  /\ streaming /\ streaming' = FALSE
  /\ UNCHANGED <<answer, archived, owed, versionIndex, paged>>

(* The content is emptied at once, the version that was archived is fetched later. *)
Regenerate ==
  /\ ~streaming /\ ~owed /\ archived < MaxVersions
  /\ answer' = <<"blank">> /\ streaming' = TRUE /\ owed' = TRUE
  /\ UNCHANGED <<archived, versionIndex, paged>>

(* The list of versions has grown, and the effect of MessageItem follows it. *)
VersionArrives ==
  /\ ~streaming /\ owed
  /\ owed' = FALSE /\ archived' = archived + 1
  /\ versionIndex' = archived + 1 /\ paged' = FALSE
  /\ UNCHANGED <<answer, streaming>>

(* VersionSwitcher, which is not there while the answer streams. *)
Page ==
  /\ ~streaming
  /\ versionIndex' \in {versionIndex - 1, versionIndex + 1} \cap 0 .. archived
  /\ paged' = TRUE
  /\ UNCHANGED <<answer, streaming, archived, owed>>

AnswerNext ==
  Grow \/ NewLine \/ StreamEnds \/ Regenerate \/ VersionArrives \/ Page

AnswerSpec == AnswerInit /\ [][AnswerNext]_answerVars

----------------------------------------------------------------------------
(* Reference, from the rules of Markdown: the fences a line closes, and for every
   line whether it is code. *)
Closed(line) ==
  CASE line \in {"bare", "inner"} -> {"bare", "info", "inner"}
    [] line = "long" -> {"bare", "info", "inner", "long"}
    [] line = "tilde" -> {"tilde"}
    [] OTHER -> {}
Opens == {"bare", "info", "inner", "long", "tilde"}

(* One line read: it is shown with the fence it stands in, unless it is a blank line
   of the text, and may open a fence or close the open one. *)
ReadLine(page, line) ==
  [shown |-> IF line = "blank" /\ page.open = "none" THEN page.shown
             ELSE Append(page.shown, <<line, page.open>>),
   open |-> IF page.open = "none" THEN IF line \in Opens THEN line ELSE "none"
            ELSE IF page.open \in Closed(line) THEN "none" ELSE page.open]

EmptyPage == [shown |-> <<>>, open |-> "none"]

PageOf(lines) ==
  LET page[i \in 0 .. Len(lines)] == IF i = 0 THEN EmptyPage ELSE ReadLine(page[i - 1], lines[i])
  IN page[Len(lines)]

Rendered(lines) == PageOf(lines).shown

(* No fence is left open. *)
Complete(block) == PageOf(block).open = "none"

(* Fences inside list items, of which the splitter knows nothing. *)
NestedFence(lines) ==
  \/ Contains(lines, "coded")
  \/ \E i, j \in DOMAIN lines : i < j /\ lines[i] = "item" /\ lines[j] = "inner"

(* At every moment of a stream the blocks, rendered one by one, show what the whole
   answer would: every line once, in order, as code where it is code; no block
   starts within a list; and highlighted code is complete. Whoever has not paged
   back reads the newest answer, also after it was regenerated. *)
BlocksStandAlone ==
  LET blocks == splitMarkdownBlocks(answer)
  IN /\ ~NestedFence(answer) =>
          Rendered(answer) = FlattenSeq([b \in DOMAIN blocks |-> Rendered(blocks[b])])
     /\ \A b \in DOMAIN blocks : b > 1 => ~Continues(blocks[b][1])
     /\ \A b \in Highlighted(blocks) : b < Len(blocks) => Complete(blocks[b])
     /\ versionIndex # archived => paged
=============================================================================
