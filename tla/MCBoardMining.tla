---------------------------- MODULE MCBoardMining ----------------------------
(* BoardMining with two stacks of one charge, which only disturb each other,  *)
(* or with one stack whose second charge takes longer than its first, where   *)
(* at most two changes of others and lost calls come between.                 *)
EXTENDS BoardMining, TLC

CONSTANTS north, south

VARIABLE mined   \* the stacks of this behaviour
mcvars == <<miningvars, mined>>

OneCharge == [s \in Stacks |-> <<1>>]
SlowNorth == [s \in Stacks |-> IF s = north THEN <<1, 2>> ELSE <<>>]
Slow == INSTANCE BoardMining WITH First <- SlowNorth

MCInit ==
  \/ mined = {north, south} /\ MiningInit
  \/ mined = {north} /\ Slow!MiningInit
MCNext ==
  /\ MiningNext /\ UNCHANGED mined
  /\ IF mined = {north} THEN /\ sessions'[south] = None /\ server'.charges[south] = <<>> /\ south \notin server'.gone
                             /\ changes' + failures' <= 2
                        ELSE failures' = 0 /\ changes' = 0 /\ \A s \in Stacks : sessions'[s] # None => sessions'[s].age <= 2
MCSpec == MCInit /\ [][MCNext]_mcvars
MCFairSpec ==
  /\ MCSpec /\ WF_mcvars(Tick /\ MCNext) /\ WF_mcvars(Gather /\ MCNext)
  /\ WF_mcvars(PollServed /\ MCNext) /\ WF_mcvars(PollShown /\ MCNext)
  /\ \A j \in Slots : WF_mcvars(Step(j) /\ MCNext)
=============================================================================
