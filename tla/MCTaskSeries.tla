--------------------------- MODULE MCTaskSeries ---------------------------
(* TaskSeries on a few rows: the whole life of one series, with two requests  *)
(* closing at once until it has been both reopened and edited, or one series  *)
(* that three requests close and delete, or two of them two requests.         *)
EXTENDS TaskSeries, TLC

CONSTANTS c1, c2, c3
VARIABLE scenario
mcvars == <<vars, scenario>>

ThreeClients == {c1, c2, c3}
AnyClient    == Permutations({c1, c2, c3})
ClosingOps   == {"create", "close", "delete"}

Life == INSTANCE TaskSeries WITH
  Ops <- {"create", "close", "update", "reopen", "delete", "end_day"},
  MaxCount <- 0, MaxSeries <- 1, MaxRows <- 3, MaxProcessed <- 1

Busy == Cardinality({c \in Clients : reqs[c] # IdleRequest})
TwoSeries == Cardinality({r \in DOMAIN rows : rows[r].from = 0}) = 2

MCInit == Init /\ scenario \in {"life", "closing"}
MCNext ==
  /\ UNCHANGED scenario
  /\ \/ scenario = "life" /\ Life!Next /\ Busy' + Cardinality(touched') <= 3 /\ Busy' <= 2
     \/ scenario = "closing" /\ Next /\ (TwoSeries' => Busy' <= 2)
MCSpec == MCInit /\ [][MCNext]_mcvars
=============================================================================
