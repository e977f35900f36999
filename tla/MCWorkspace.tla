---------------------------- MODULE MCWorkspace ----------------------------
(* Workspace with an owner and two other users whose requests come one after  *)
(* the other, or with one other user and two requests at the same time.       *)
EXTENDS Workspace

CONSTANTS olga, ada, ben

VARIABLE paced   \* whether requests come one after the other
mcvars == <<vars, paced>>

MCInit == Init /\ paced \in BOOLEAN
MCNext ==
  /\ Next /\ UNCHANGED paced
  /\ IF paced THEN ~overlapped' /\ trial' = 0 /\ failures' = 0
     ELSE invitations'[2] = None /\ \A c \in Codes : invitations'[c] # None => invitations'[c].to # ben
MCSpec == MCInit /\ [][MCNext]_mcvars
=============================================================================
