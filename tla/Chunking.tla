------------------------------- MODULE Chunking -------------------------------
(* How a document becomes chunks: LoadedDocument.text and the fixed-size window
   chunker. A page's text is a sequence of 1 for a character that is not white
   space and 0 for one that is; positions count from 0, as in the code. *)
EXTENDS Lists, FiniteSets, FiniteSetsExt

WithText(pages) == Kept(pages, Range(pages) \ {<<>>})

(* All non-empty pages joined by newlines. *)
Text(pages) ==
  LET text[i \in 0 .. Len(pages)] ==
        IF i = 0 THEN <<>>
        ELSE (IF i = 1 THEN <<>> ELSE Append(text[i - 1], 0)) \o pages[i]
  IN text[Len(pages)]

(* starts: the position at which each non-empty page begins. *)
StartOf(pages, i) ==
  LET start[j \in DOMAIN pages] ==
        IF j = 1 THEN 0 ELSE start[j - 1] + Len(pages[j - 1]) + 1
  IN start[i]

(* page_at: the last page that begins at or before the position. *)
PageAt(pages, position) ==
  Max({i \in DOMAIN pages : StartOf(pages, i) <= position})

(* _windows: windows of size characters, each overlap before the last one's end. *)
Windows(text, size, overlap) ==
  LET step == size - overlap
      Ink(start) == {p \in start..(start + size - 1) : p < Len(text) /\ text[p + 1] = 1}
  IN {[start |-> k * step, ink |-> Ink(k * step)] : k \in {k \in 0..Len(text) : k * step < Len(text)}}

(* chunk: the stripped windows that hold anything, each attributed to the page its
   first character is on. *)
Chunks(document, size, overlap) ==
  LET pages == WithText(document)
  IN {[from |-> Min(w.ink), to |-> Max(w.ink), page |-> PageAt(pages, Min(w.ink))] :
      w \in {w \in Windows(Text(pages), size, overlap) : w.ink # {}}}
=============================================================================
