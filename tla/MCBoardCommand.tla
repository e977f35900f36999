-------------------------- MODULE MCBoardCommand --------------------------
(* BoardCommand with one of three casts of requests: two tabs that complete one *)
(* task while another creates one, tabs that place, edit and create, or one tab  *)
(* and both deliveries of a paid session, which are served in the end.           *)
EXTENDS BoardCommand, TLC

CONSTANTS c1, c2, create, place, edit, d1, d2, s1, t1

VARIABLE cast   \* the requests that take part
mcvars == <<vars, cast>>

Tabs      == {c1, c2, create, place, edit}
KindOfTab == [g \in Gestures |->
  CASE g \in {c1, c2} -> "complete" [] g = create -> "create" [] g = place -> "place" [] g = edit -> "edit"]
OneTask   == [g \in Gestures |-> t1]
Session   == [d \in {d1, d2} |-> s1]

Completing == {c1, c2, create}
Placing2   == {place, edit, create, d1}
Paying     == {place, d1, d2}

MCInit == Init /\ cast \in {Completing, Placing2, Paying}
MCNext ==
  /\ Next /\ UNCHANGED cast
  /\ \A r \in Requests \ cast : step'[r] = "idle"
\* Fairness of BoardCommand, for the cast that pays.
MCSpec ==
  /\ MCInit /\ [][MCNext]_mcvars
  /\ \A r \in Paying : SF_vars(cast = Paying /\ Begin(r)) /\ WF_vars(cast = Paying /\ Serve(r))
  /\ WF_vars(cast = Paying /\ (SendCommand(place) \/ RetryConflict(place)))
  /\ \A d \in {d1, d2} : WF_vars(cast = Paying /\ Deliver(d))

---------------------------------------------------------------------------
(* Answered of BoardCommand: every request that is sent is answered at last,  *)
(* no path through a command keeps the mutex.                                 *)
PayingIsAnswered == cast = Paying => Answered

(* PaidIsDelivered of BoardCommand: a paid session is delivered in the end.   *)
PaidSessionDelivered == cast = Paying => PaidIsDelivered
=============================================================================
