----------------------------- MODULE MCTwoCores -----------------------------
(* The two cores for TLC, and what a comment says of the menu and the code *)
(* does not do: the property is refuted by a run.                          *)
EXTENDS TwoCores

\* menu.c:777: "clear menu mode when exiting": once both cores have done what the
\* bus and the switch asked for, a menu that the program has left is closed.
EscCloses ==
  Quiet /\ pc[0] = "frame" /\ ~ asked => "MENU_ENABLE" \notin internal_flags
=============================================================================
