----------------------------- MODULE MCChatList -----------------------------
(* Two chats and a folder, and two requests at a time. *)
EXTENDS ChatList, TLC
Symmetry == Permutations(Chats) \cup Permutations(Requests)
=============================================================================
