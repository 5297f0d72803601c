------------------------------- MODULE Feed -------------------------------
(***************************************************************************)
(* What the live layer promises a browser: the board it shows is one the   *)
(* retro really had, and it only ever moves on to later ones, through lost *)
(* connections and reconnections too.                                      *)
(***************************************************************************)
EXTENDS Integers

CONSTANTS Browsers

VARIABLES
  board,  \* how many changes the retro has had
  shown   \* shown[b], how many of them what b shows includes; -1 for no board

feedVars == <<board, shown>>

Init ==
  /\ board = 0
  /\ shown = [b \in Browsers |-> -1]

Change ==
  /\ board' = board + 1
  /\ UNCHANGED shown

Show(b) ==
  /\ \E k \in shown[b] + 1 .. board : shown' = [shown EXCEPT ![b] = k]
  /\ UNCHANGED board

Next == Change \/ \E b \in Browsers : Show(b)

Spec == Init /\ [][Next]_feedVars
=============================================================================
