--------------------------- MODULE MCSeriesDayEnd ---------------------------
(* TaskSeries with the day end, on the rows of one series. *)
EXTENDS TaskSeries, TLC

CONSTANTS c1, c2

TwoClients == {c1, c2}
AnyClient  == Permutations({c1, c2})
DailyOps   == {"create", "close", "end_day"}
=============================================================================
