---------------------------- MODULE BoardLedger ----------------------------
(***************************************************************************)
(* What the board promises its clients: the stored document changes by one *)
(* whole command at a time, each applied to what the one before it stored, *)
(* no gesture counts twice, and a paid session is delivered once.          *)
(***************************************************************************)
EXTENDS BoardDoc

VARIABLE document

Init == document = FirstDoc

Apply(g) ==
  /\ document.times[g] = 0
  /\ Possible(document, g)
  /\ \E bump \in Bumps(g) : document' = Effect(document, g, bump)

Grant(s) ==
  /\ document.goods[s] = 0
  /\ \E bump \in Delivered : document' = Granted(document, s, bump)

Next == (\E g \in Gestures : Apply(g)) \/ (\E s \in Sessions : Grant(s))

Spec == Init /\ [][Next]_document
=============================================================================
