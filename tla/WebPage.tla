------------------------------- MODULE WebPage -------------------------------
(* What a page of the web app keeps for itself: how its tabs reach it (SignIn), the
   command palette, and an answer on the screen. The parts share no state, and a
   behaviour is one of one of them. *)
EXTENDS Palette, SignIn, AnswerView

VARIABLE part   \* the part whose behaviour this is

vars == <<part, paletteVars, signInVars, answerVars>>

Init ==
  /\ part \in {"palette", "sign-in", "answer"}
  /\ PaletteInit /\ SignInInit /\ AnswerInit
  /\ part # "sign-in" => session

Next ==
  /\ UNCHANGED part
  /\ \/ part = "palette" /\ PaletteNext /\ UNCHANGED <<signInVars, answerVars>>
     \/ part = "sign-in" /\ SignInNext /\ UNCHANGED <<paletteVars, answerVars>>
     \/ part = "answer" /\ AnswerNext /\ UNCHANGED <<paletteVars, signInVars>>

Spec == Init /\ [][Next]_vars
=============================================================================
