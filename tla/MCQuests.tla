------------------------------ MODULE MCQuests ------------------------------
(* Boards of three days, weeks of two: three dailies, one of them a day and   *)
(* not again the next.  The goals take every kind of objective.  A board is   *)
(* new, or has a day and one piece of work behind it from before there were   *)
(* quests; what is counted is two pieces of work in all.                      *)
EXTENDS Quests

Goal(op, target) == [op |-> op, target |-> target]
ThreeDailies == [any |-> {Goal("complete_task", 1)}, clear |-> {Goal("clear_zombie", 1)}, quiet |-> {Goal("keep_zombies_below", 0)}]
ThreeNames == DOMAIN ThreeDailies
Stories == <<{Goal("complete_task", 1), Goal("clear_zombie", 1)}, {Goal("complete_task", 1)}>>
SecondBoss == [w \in {2} |-> {Goal("keep_zombies_below", 1), Goal("reduce_backlog_to", 0)}]

MCInit ==
  /\ Init
  /\ doc.metrics = [c \in Counters |-> IF c = "complete_task" THEN doc.ticks ELSE 0]
MCNext ==
  /\ Next
  /\ doc'.metrics["complete_task"] + doc'.metrics["clear_zombie"] <= 2
=============================================================================
