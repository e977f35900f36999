--------------------------- MODULE MCBoardGesture ---------------------------
(* BoardGesture on a board with a task, where the server may refuse a command, *)
(* and on one with a stack of three, where another user changes something.     *)
EXTENDS BoardGesture

VARIABLE dealt   \* which of the two boards this is
mcvars == <<vars, dealt>>

TaskBoard == << <<"task.instance", "villager.basic">>, <<"loot.coin">>, <<"deck.collect">> >>
OneBoard  == << <<"food.apple", "resource.tree", "villager.basic">>, <<"mod.next_action">> >>
One == INSTANCE BoardGesture WITH FirstStacks <- OneBoard

MCInit ==
  \/ dealt = "tasks" /\ Init
  \/ dealt = "one"   /\ One!Init
MCNext ==
  /\ Next /\ UNCHANGED dealt
  /\ IF dealt = "tasks" THEN foreign' = 0 /\ board'.nextZ < MaxZ ELSE refusals' = 0 /\ board'.nextZ < MaxZ
MCSpec == MCInit /\ [][MCNext]_mcvars
=============================================================================
