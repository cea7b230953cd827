-------------------------- MODULE MCChatStreamHook --------------------------
(* One chat that starts empty, and up to two turns. *)
EXTENDS ChatStreamHook, TLC
=============================================================================
