------------------------------ MODULE MCBoardTab ------------------------------
(* BoardTab with two boards, one foreign change, one row, and one gesture that *)
(* the server refuses or that it accepts; in the first case a call may fail.   *)
EXTENDS BoardTab, TLC

CONSTANTS home, team, seed, refused, accepted, f1, t1

VARIABLE tried   \* the gesture of this behaviour
mcvars == <<vars, tried>>

TwoBoards == {home, team}
OnHome == [t \in Tasks |-> home]
TwoSlots == 1..2

MCInit == Init /\ tried \in Gestures
MCNext ==
  /\ Next /\ UNCHANGED tried
  /\ \A g \in Gestures \ {tried} : madeOn'[g] = "nowhere"
  /\ tried = accepted => failures' = 0
MCSpec == MCInit /\ [][MCNext]_mcvars /\ Fairness
=============================================================================
