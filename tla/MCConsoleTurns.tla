--------------------------- MODULE MCConsoleTurns ---------------------------
(* Instances of ConsoleTurns for TLC.                                      *)
EXTENDS ConsoleTurns

Size(t, s, i, p, c) ==
  [turns |-> t, sessions |-> s, items |-> i, pieces |-> p, choices |-> c]

(* Two turns in two conversations; three turns in one; the agent chosen in *)
(* the picker; an answer of several messages and pieces.                   *)
Small == {Size(2, 2, 1, 1, 0), Size(3, 1, 1, 1, 0), Size(2, 1, 1, 1, 1), Size(1, 1, 3, 2, 0)}
=============================================================================
