------------------------------ MODULE MCWebPage ------------------------------
EXTENDS WebPage

(* One command is named like the needle "cloud", one has it as a keyword only; one
   chat is titled like it, one mentions it. *)
ThePalette == <<"newChat", "cloudModel", "settings">>
TheChats == <<"pinned", "titled", "mentions">>

Hits ==
  [item \in ToSet(ThePalette \o TheChats) |->
     [needle \in Needles |->
        CASE needle = "cloud" /\ item \in {"cloudModel", "titled"} -> "label"
          [] needle = "cloud" /\ item \in {"settings", "mentions"} -> "inside"
          [] needle = "new" /\ item = "newChat" -> "label"
          [] needle = "new" /\ item = "pinned" -> "inside"
          [] OTHER -> "none"]]
=============================================================================
