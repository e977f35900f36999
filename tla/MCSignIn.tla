------------------------------ MODULE MCSignIn ------------------------------
(* SignIn with two addresses and two codes, in three settings: codes asked    *)
(* for and sent again, the link of an invitation with one code and no lost    *)
(* call, or the pages alone.  The gestures of the user are limited.           *)
EXTENDS SignIn

CONSTANT MaxGestures
VARIABLES scenario, gestures
mcvars == <<vars, scenario, gestures>>

Limit ==
  CASE scenario = "codes"   -> MaxGestures
    [] scenario = "invited" -> MaxGestures - 1
    [] scenario = "pages"   -> 2

MCInit ==
  /\ Init /\ gestures = 0 /\ scenario \in {"codes", "invited", "pages"} /\ users["b"] = "none"
  /\ scenario = "codes" => ~link /\ session = None /\ route = "login" /\ users["a"] = "new"
  /\ scenario = "invited" => link
  /\ scenario = "pages" => ~link
MCNext ==
  /\ UNCHANGED scenario
  /\ \/ Gesture /\ gestures < Limit /\ gestures' = gestures + 1
     \/ (Progress \/ Mishap) /\ UNCHANGED gestures
  /\ scenario = "codes" => page'.email # "b" /\ invitation' = "pending"
  /\ scenario = "invited" => failures' = 0 /\ challenges'[2] = None
  /\ scenario = "pages" => challenges'[1] = None /\ invitation' = "pending"
MCSpec == MCInit /\ [][MCNext]_mcvars /\ Fairness
=============================================================================
