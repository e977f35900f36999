------------------------- MODULE BoardCommandProofs -------------------------
(***************************************************************************)
(* Proofs about BoardCommand, for every number of tabs, deliveries, tasks  *)
(* and faults: its type invariant, that the task list is never behind the  *)
(* board, and that the stored document implements BoardLedger.             *)
(***************************************************************************)
EXTENDS BoardCommand, TLAPS

\* Who is inside the mutex: nobody, or the one request that is loaded or done.
Mutex ==
  /\ \A r \in Requests : r \in holds <=> step[r] \in {"loaded", "executed"}
  /\ \A r, q \in holds : r = q

\* What a request inside the mutex holds, compared with what is stored.
Working ==
  /\ \A r \in Requests : step[r] = "loaded" => local[r] = stored
  /\ \A g \in Gestures : step[g] = "executed" =>
       /\ Possible(stored, g)
       /\ \E bump \in Bumps(g) : local[g] = Effect(stored, g, bump)
  /\ \A d \in Deliveries : step[d] = "executed" =>
       /\ SessionOf[d] \notin stored.receipts
       /\ \E bump \in Delivered : local[d] = Granted(stored, SessionOf[d], bump)

\* A gesture that is still to be answered has not counted, and a tab that may
\* send has sent at most once.
Unsent ==
  \A g \in Gestures :
    /\ step[g] \notin {"ok", "error"} => stored.times[g] = 0
    /\ step[g] = "idle" => sent[g] = 0
    /\ step[g] = "ready" => sent[g] < 2

Receipted == \A s \in Sessions : s \notin stored.receipts => stored.goods[s] = 0

Ahead(doc, list) ==
  /\ \A t \in doc.cards : list[t] # "absent"
  /\ \A t \in Tasks \ doc.cards : list[t] = "closed"

\* The task list is ahead of what is stored and of what is about to be.
Aheads ==
  /\ Ahead(stored, rows)
  /\ \A r \in Requests : step[r] = "executed" => Ahead(local[r], rows)

IInv == TypeOK /\ Mutex /\ Working /\ Unsent /\ Receipted /\ Aheads

-----------------------------------------------------------------------------
(* Documents *)

LEMMA FirstDocType == FirstDoc \in Doc
BY DEF FirstDoc, Doc, Rows

LEMMA BumpsAreCounts ==
  ASSUME NEW g \in Gestures, NEW bump \in Bumps(g)
  PROVE  bump \in Nat
BY GesturesAssumption DEF Bumps, Kinds

\* The fields of a document, put together.
LEMMA DocOf ==
  ASSUME NEW v \in Nat, NEW t \in [Gestures -> Nat], NEW c \in SUBSET Rows,
         NEW k \in SUBSET Sessions, NEW x \in [Sessions -> Nat]
  PROVE  [version |-> v, times |-> t, cards |-> c, receipts |-> k, goods |-> x] \in Doc
BY DEF Doc

LEMMA EffectType ==
  ASSUME NEW doc \in Doc, NEW g \in Gestures, NEW bump \in Nat
  PROVE  Effect(doc, g, bump) \in Doc
<1>1. /\ doc.version \in Nat /\ doc.times \in [Gestures -> Nat]
      /\ doc.cards \in SUBSET Rows /\ doc.receipts \in SUBSET Sessions
      /\ doc.goods \in [Sessions -> Nat]
  BY DEF Doc
<1> DEFINE times == [doc.times EXCEPT ![g] = @ + 1]
           cards == CASE KindOf[g] = "create"   -> doc.cards \cup {g}
                      [] KindOf[g] = "complete" -> doc.cards \ {Target[g]}
                      [] OTHER -> doc.cards
<1>2. times \in [Gestures -> Nat]
  BY <1>1
<1>3. cards \in SUBSET Rows
  BY <1>1 DEF Rows
<1>4. doc.version + bump \in Nat
  BY <1>1
<1>5. Effect(doc, g, bump) = [version |-> doc.version + bump, times |-> times,
        cards |-> cards, receipts |-> doc.receipts, goods |-> doc.goods]
  BY DEF Effect
<1> HIDE DEF times, cards
<1>6. [version |-> doc.version + bump, times |-> times, cards |-> cards,
        receipts |-> doc.receipts, goods |-> doc.goods] \in Doc
  BY <1>1, <1>2, <1>3, <1>4, DocOf
<1> QED BY <1>5, <1>6

LEMMA GrantedType ==
  ASSUME NEW doc \in Doc, NEW s \in Sessions, NEW bump \in Delivered
  PROVE  Granted(doc, s, bump) \in Doc
<1>1. /\ doc.version \in Nat /\ doc.times \in [Gestures -> Nat]
      /\ doc.cards \in SUBSET Rows /\ doc.receipts \in SUBSET Sessions
      /\ doc.goods \in [Sessions -> Nat]
      /\ doc.version + bump \in Nat
  BY DEF Doc, Delivered
<1> DEFINE goods == [doc.goods EXCEPT ![s] = @ + 1]
<1>2. goods \in [Sessions -> Nat]
  BY <1>1
<1>3. doc.receipts \cup {s} \in SUBSET Sessions
  BY <1>1
<1>4. Granted(doc, s, bump) = [version |-> doc.version + bump, times |-> doc.times,
        cards |-> doc.cards, receipts |-> doc.receipts \cup {s}, goods |-> goods]
  BY DEF Granted
<1> HIDE DEF goods
<1>5. [version |-> doc.version + bump, times |-> doc.times, cards |-> doc.cards,
        receipts |-> doc.receipts \cup {s}, goods |-> goods] \in Doc
  BY <1>1, <1>2, <1>3, DocOf
<1> QED BY <1>4, <1>5

\* What a saved document says of gestures and of sessions.
LEMMA EffectFields ==
  ASSUME NEW doc \in Doc, NEW g \in Gestures, NEW bump
  PROVE  /\ \A h \in Gestures \ {g} : Effect(doc, g, bump).times[h] = doc.times[h]
         /\ Effect(doc, g, bump).receipts = doc.receipts
         /\ Effect(doc, g, bump).goods = doc.goods
BY DEF Effect, Doc

LEMMA GrantedFields ==
  ASSUME NEW doc \in Doc, NEW s \in Sessions, NEW bump
  PROVE  /\ Granted(doc, s, bump).times = doc.times
         /\ Granted(doc, s, bump).cards = doc.cards
         /\ Granted(doc, s, bump).receipts = doc.receipts \cup {s}
         /\ \A t \in Sessions \ {s} : Granted(doc, s, bump).goods[t] = doc.goods[t]
BY DEF Granted, Doc

\* A call to the task service never undoes what a document relies on.
LEMMA CalledAhead ==
  ASSUME TypeOK, NEW g \in Gestures, NEW doc, doc.cards \subseteq Rows, Ahead(doc, rows)
  PROVE  Ahead(doc, Called(g))
<1>1. /\ rows \in [Rows -> {"absent", "open", "closed"}]
      /\ g \in Rows /\ Target[g] \in Rows /\ g \notin Tasks /\ Tasks \subseteq Rows
  BY GesturesAssumption DEF TypeOK, Rows
<1>2. \A t \in Rows : /\ rows[t] # "absent" => Called(g)[t] # "absent"
                      /\ t \in Tasks /\ rows[t] = "closed" => Called(g)[t] = "closed"
  BY <1>1 DEF Called
<1> QED BY <1>1, <1>2 DEF Ahead

\* The task list is ahead of the document the command has worked out.
LEMMA EffectAhead ==
  ASSUME TypeOK, NEW g \in Gestures, NEW doc \in Doc, Ahead(doc, rows), NEW bump
  PROVE  Ahead(Effect(doc, g, bump), Called(g))
<1>1. /\ rows \in [Rows -> {"absent", "open", "closed"}]
      /\ g \in Rows /\ Target[g] \in Rows /\ g \notin Tasks /\ Tasks \subseteq Rows
      /\ doc.cards \subseteq Rows
  BY GesturesAssumption DEF TypeOK, Rows, Doc
<1>2. Ahead(doc, Called(g))
  BY <1>1, CalledAhead
<1>3. CASE KindOf[g] = "create"
  <2>1. Effect(doc, g, bump).cards = doc.cards \cup {g}
    BY <1>3 DEF Effect
  <2>2. Called(g)[g] = "open"
    BY <1>1, <1>3 DEF Called
  <2> QED BY <1>1, <1>2, <2>1, <2>2 DEF Ahead
<1>4. CASE KindOf[g] = "complete"
  <2>1. Effect(doc, g, bump).cards = doc.cards \ {Target[g]}
    BY <1>4 DEF Effect
  <2>2. Called(g)[Target[g]] = "closed"
    BY <1>1, <1>4 DEF Called
  <2> QED BY <1>1, <1>2, <2>1, <2>2 DEF Ahead
<1>5. CASE KindOf[g] \notin {"create", "complete"}
  <2>1. Effect(doc, g, bump).cards = doc.cards
    BY <1>5 DEF Effect
  <2> QED BY <1>2, <2>1 DEF Ahead
<1> QED BY <1>3, <1>4, <1>5

-----------------------------------------------------------------------------
(* The steps of a request *)

\* A request that stays outside the mutex.
LEMMA OutsideStep ==
  ASSUME IInv, NEW r \in Requests, NEW s \in Steps \ {"loaded", "executed"},
         step[r] \notin {"loaded", "executed"}, Goto(r, s),
         UNCHANGED <<stored, rows, holds, local>>
  PROVE  Mutex' /\ Working' /\ Receipted' /\ Aheads' /\ step' \in [Requests -> Steps]
<1>1. step \in [Requests -> Steps]
  BY DEF IInv, TypeOK
<1>2. \A q \in Requests : step'[q] = IF q = r THEN s ELSE step[q]
  BY <1>1 DEF Goto
<1>3. \A q \in Requests : /\ step'[q] = "loaded" <=> step[q] = "loaded"
                          /\ step'[q] = "executed" <=> step[q] = "executed"
  BY <1>2
<1>4. step' \in [Requests -> Steps]
  BY <1>1 DEF Goto
<1>5. Gestures \subseteq Requests /\ Deliveries \subseteq Requests
  BY DEF Requests
<1>6. Mutex'
  BY <1>3 DEF IInv, Mutex
<1>7. Working'
  BY <1>3, <1>5 DEF IInv, Working
<1>8. Receipted' /\ Aheads'
  BY <1>3 DEF IInv, Receipted, Aheads
<1> QED BY <1>4, <1>6, <1>7, <1>8

\* A request that leaves the mutex without a save.
LEMMA LeaveUnsaved ==
  ASSUME IInv, NEW r \in Requests, step[r] \in {"loaded", "executed"},
         NEW s \in {"ok", "conflict", "error"}, Goto(r, s), holds' = Unlock(r),
         NEW list \in [Rows -> {"absent", "open", "closed"}], rows' = list,
         Ahead(stored, list), UNCHANGED <<stored, local, view, sent>>,
         faults' \in 0..MaxFaults, s = "conflict" => step[r] = "loaded"
  PROVE  IInv'
<1>1. step \in [Requests -> Steps] /\ holds \subseteq Requests
  BY DEF IInv, TypeOK
<1>2. \A q \in Requests : step'[q] = IF q = r THEN s ELSE step[q]
  BY <1>1 DEF Goto
<1>3. r \in holds /\ \A q \in holds : q = r
  BY DEF IInv, Mutex
<1>4. holds' = {}
  BY <1>1, <1>3 DEF Unlock
<1>5. \A q \in Requests : step'[q] \notin {"loaded", "executed"}
  BY <1>2, <1>3 DEF IInv, Mutex
<1>6. Gestures \subseteq Requests /\ Deliveries \subseteq Requests
  BY DEF Requests
<1>7. step' \in [Requests -> Steps]
  BY <1>1 DEF Goto, Steps
<1>8. TypeOK'
  BY <1>4, <1>7 DEF IInv, TypeOK
<1>9. Mutex' /\ Working' /\ Receipted' /\ Aheads'
  BY <1>4, <1>5, <1>6 DEF IInv, Mutex, Working, Receipted, Aheads
<1>10. Unsent'
  BY <1>2, <1>6 DEF IInv, Unsent
<1> QED BY <1>8, <1>9, <1>10 DEF IInv

\* What is saved in place of the stored document keeps the invariant, and is a
\* step of the ledger.
LEMMA Saved ==
  ASSUME IInv, NEW r \in Requests, step[r] = "executed"
  PROVE  /\ local[r] \in Doc /\ Ahead(local[r], rows)
         /\ \A s \in Sessions : s \notin local[r].receipts => local[r].goods[s] = 0
         /\ \A g \in Gestures : g # r => local[r].times[g] = stored.times[g]
         /\ stored' = local[r] => Ledger!Next
<1>1. stored \in Doc /\ local[r] \in Doc /\ Ahead(local[r], rows)
  BY DEF IInv, TypeOK, Aheads
<1>2. CASE r \in Gestures
  <2>1. PICK bump \in Bumps(r) : local[r] = Effect(stored, r, bump)
    BY <1>2 DEF IInv, Working
  <2>2. Possible(stored, r) /\ stored.times[r] = 0
    BY <1>2 DEF IInv, Working, Unsent
  <2>3. stored' = local[r] => Ledger!Apply(r)
    BY <2>1, <2>2 DEF Ledger!Apply, Ledger!Possible, Ledger!Bumps, Ledger!Effect,
                           Possible, Bumps, Effect
  <2>4. /\ local[r].receipts = stored.receipts /\ local[r].goods = stored.goods
        /\ \A g \in Gestures \ {r} : local[r].times[g] = stored.times[g]
    BY <1>1, <1>2, <2>1, EffectFields
  <2> QED BY <1>1, <1>2, <2>3, <2>4 DEF Ledger!Next, IInv, Receipted
<1>3. CASE r \in Deliveries
  <2>1. SessionOf[r] \in Sessions
    BY <1>3, DeliveriesAssumption
  <2>2. SessionOf[r] \notin stored.receipts
    BY <1>3 DEF IInv, Working
  <2>0. PICK bump \in Delivered : local[r] = Granted(stored, SessionOf[r], bump)
    BY <1>3 DEF IInv, Working
  <2>3. stored' = local[r] => Ledger!Grant(SessionOf[r])
    BY <2>0, <2>1, <2>2 DEF Ledger!Grant, Ledger!Granted, Granted, Ledger!Delivered,
                            Delivered, IInv, Receipted
  <2>4. /\ local[r].times = stored.times
        /\ local[r].receipts = stored.receipts \cup {SessionOf[r]}
        /\ \A t \in Sessions \ {SessionOf[r]} : local[r].goods[t] = stored.goods[t]
    BY <1>1, <2>0, <2>1, GrantedFields
  <2> QED BY <1>1, <2>1, <2>3, <2>4 DEF Ledger!Next, IInv, Receipted
<1> QED BY <1>2, <1>3 DEF Requests

\* A request that leaves the mutex after its document was written.
LEMMA LeaveSaved ==
  ASSUME IInv, NEW r \in Requests, step[r] = "executed",
         NEW s \in {"ok", "error"}, Goto(r, s), holds' = Unlock(r),
         stored' = local[r], UNCHANGED <<rows, local, view, sent>>,
         faults' \in 0..MaxFaults
  PROVE  IInv'
<1>1. step \in [Requests -> Steps] /\ holds \subseteq Requests
  BY DEF IInv, TypeOK
<1>2. \A q \in Requests : step'[q] = IF q = r THEN s ELSE step[q]
  BY <1>1 DEF Goto
<1>3. r \in holds /\ \A q \in holds : q = r
  BY DEF IInv, Mutex
<1>4. holds' = {}
  BY <1>1, <1>3 DEF Unlock
<1>5. \A q \in Requests : step'[q] \notin {"loaded", "executed"}
  BY <1>2, <1>3 DEF IInv, Mutex
<1>6. Gestures \subseteq Requests /\ Deliveries \subseteq Requests
  BY DEF Requests
<1>7. step' \in [Requests -> Steps]
  BY <1>1 DEF Goto, Steps
<1>8. TypeOK'
  BY <1>4, <1>7, Saved DEF IInv, TypeOK
<1>9. Mutex' /\ Working'
  BY <1>4, <1>5, <1>6 DEF Mutex, Working
<1>10. Receipted'
  BY Saved DEF Receipted
<1>11. Aheads'
  BY <1>5, Saved DEF Aheads
<1>12. \A g \in Gestures : /\ step'[g] \notin {"ok", "error"} => stored'.times[g] = 0
                           /\ step'[g] = "idle" => sent'[g] = 0
                           /\ step'[g] = "ready" => sent'[g] < 2
  <2> TAKE g \in Gestures
  <2>1. CASE g = r
    BY <1>2, <1>6, <2>1
  <2>2. CASE g # r
    <3>1. stored'.times[g] = stored.times[g] /\ step'[g] = step[g]
      BY <1>2, <1>6, <2>2, Saved
    <3> QED BY <3>1 DEF IInv, Unsent
  <2> QED BY <2>1, <2>2
<1> QED BY <1>8, <1>9, <1>10, <1>11, <1>12 DEF IInv, Unsent

-----------------------------------------------------------------------------
(* The actions *)

LEMMA LoadBoardInv ==
  ASSUME IInv, NEW g \in Gestures, LoadBoard(g)
  PROVE  IInv'
<1>1. g \in Requests /\ Gestures \subseteq Requests /\ step \in [Requests -> Steps]
  BY DEF Requests, IInv, TypeOK
<1>2. Mutex' /\ Working' /\ Receipted' /\ Aheads' /\ step' \in [Requests -> Steps]
  BY <1>1, OutsideStep DEF LoadBoard, Steps
<1>3. TypeOK'
  BY <1>2 DEF IInv, TypeOK, LoadBoard
<1>4. Unsent'
  BY <1>1 DEF IInv, Unsent, LoadBoard, Goto
<1> QED BY <1>2, <1>3, <1>4 DEF IInv

LEMMA SendCommandInv ==
  ASSUME IInv, NEW g \in Gestures, SendCommand(g)
  PROVE  IInv'
<1>1. g \in Requests /\ Gestures \subseteq Requests /\ step \in [Requests -> Steps]
  BY DEF Requests, IInv, TypeOK
<1>2. Mutex' /\ Working' /\ Receipted' /\ Aheads' /\ step' \in [Requests -> Steps]
  BY <1>1, OutsideStep DEF SendCommand, Steps
<1>3. sent[g] \in 0..1 /\ sent \in [Gestures -> 0..2]
  BY DEF SendCommand, IInv, Unsent, TypeOK
<1>4. TypeOK'
  BY <1>2, <1>3 DEF IInv, TypeOK, SendCommand
<1>5. Unsent'
  BY <1>1, <1>3 DEF IInv, Unsent, SendCommand, Goto
<1> QED BY <1>2, <1>4, <1>5 DEF IInv

LEMMA RetryConflictInv ==
  ASSUME IInv, NEW g \in Gestures, RetryConflict(g)
  PROVE  IInv'
<1>1. g \in Requests /\ Gestures \subseteq Requests /\ step \in [Requests -> Steps]
  BY DEF Requests, IInv, TypeOK
<1>2. step[g] = "conflict" /\ sent[g] = 1
  BY DEF RetryConflict, Retries
<1>3. Mutex' /\ Working' /\ Receipted' /\ Aheads' /\ step' \in [Requests -> Steps]
  BY <1>1, <1>2, OutsideStep DEF RetryConflict, Steps
<1>4. TypeOK'
  BY <1>3 DEF IInv, TypeOK, RetryConflict
<1>5. Unsent'
  BY <1>1, <1>2 DEF IInv, Unsent, RetryConflict, Goto
<1> QED BY <1>3, <1>4, <1>5 DEF IInv

LEMMA DeliverInv ==
  ASSUME IInv, NEW d \in Deliveries, Deliver(d)
  PROVE  IInv'
<1>1. d \in Requests /\ Gestures \subseteq Requests /\ step \in [Requests -> Steps]
      /\ d \notin Gestures
  BY DeliveriesAssumption DEF Requests, IInv, TypeOK
<1>2. Mutex' /\ Working' /\ Receipted' /\ Aheads' /\ step' \in [Requests -> Steps]
  BY <1>1, OutsideStep DEF Deliver, Steps
<1>3. TypeOK'
  BY <1>2 DEF IInv, TypeOK, Deliver
<1>4. Unsent'
  BY <1>1 DEF IInv, Unsent, Deliver, Goto
<1> QED BY <1>2, <1>3, <1>4 DEF IInv

LEMMA LoseAnswerInv ==
  ASSUME IInv, NEW r \in Requests, LoseAnswer(r)
  PROVE  IInv'
<1>1. Gestures \subseteq Requests /\ step \in [Requests -> Steps] /\ faults \in Nat
  BY DeliveriesAssumption DEF Requests, IInv, TypeOK
<1>2. Mutex' /\ Working' /\ Receipted' /\ Aheads' /\ step' \in [Requests -> Steps]
  BY OutsideStep DEF LoseAnswer, Steps
<1>3. faults' \in 0..MaxFaults
  BY <1>1, DeliveriesAssumption DEF LoseAnswer, Fault
<1>4. TypeOK'
  BY <1>2, <1>3 DEF IInv, TypeOK, LoseAnswer
<1>5. Unsent'
  BY <1>1 DEF IInv, Unsent, LoseAnswer, Goto
<1> QED BY <1>2, <1>4, <1>5 DEF IInv

LEMMA BeginInv ==
  ASSUME IInv, NEW r \in Requests, Begin(r)
  PROVE  IInv'
<1>1. /\ Gestures \subseteq Requests /\ Deliveries \subseteq Requests
      /\ step \in [Requests -> Steps] /\ local \in [Requests -> Doc] /\ stored \in Doc
  BY DEF Requests, IInv, TypeOK
<1>2. holds = {} /\ holds' = {r} /\ step[r] = "waiting"
  BY DEF Begin, MutexFree
<1>3. \A q \in Requests : step'[q] = IF q = r THEN "loaded" ELSE step[q]
  BY <1>1 DEF Begin, Goto
<1>4. \A q \in Requests : local'[q] = IF q = r THEN stored ELSE local[q]
  BY <1>1 DEF Begin
<1>5. \A q \in Requests : step[q] \notin {"loaded", "executed"}
  BY <1>2 DEF IInv, Mutex
<1>6. TypeOK'
  BY <1>1, <1>2 DEF IInv, TypeOK, Begin, Goto, Steps
<1>7. Mutex'
  BY <1>2, <1>3, <1>5 DEF Mutex
<1>8. Working' /\ Aheads'
  BY <1>1, <1>3, <1>4, <1>5 DEF IInv, Working, Aheads, Begin
<1>9. Unsent' /\ Receipted'
  BY <1>1, <1>2, <1>3 DEF IInv, Unsent, Receipted, Begin
<1> QED BY <1>6, <1>7, <1>8, <1>9 DEF IInv

LEMMA ConflictInv ==
  ASSUME IInv, NEW g \in Gestures, Conflict(g)
  PROVE  IInv'
<1>1. g \in Requests /\ rows \in [Rows -> {"absent", "open", "closed"}]
      /\ Ahead(stored, rows) /\ faults \in 0..MaxFaults
  BY DEF Requests, IInv, TypeOK, Aheads
<1> QED BY <1>1, LeaveUnsaved DEF Conflict

LEMMA ExecuteInv ==
  ASSUME IInv, NEW g \in Gestures, NEW called \in BOOLEAN, Execute(g, called)
  PROVE  IInv'
<1>1. /\ g \in Requests /\ rows \in [Rows -> {"absent", "open", "closed"}]
      /\ Ahead(stored, rows) /\ stored \in Doc /\ stored.cards \subseteq Rows
      /\ local \in [Requests -> Doc] /\ step \in [Requests -> Steps]
      /\ Gestures \subseteq Requests /\ Deliveries \subseteq Requests
      /\ step[g] = "loaded" /\ local[g] = stored
  BY DEF Requests, IInv, TypeOK, Aheads, Doc, Execute, Working
<1>2. faults' \in 0..MaxFaults
  BY DeliveriesAssumption DEF Execute, Fault, IInv, TypeOK
<1>3. Called(g) \in [Rows -> {"absent", "open", "closed"}]
  BY <1>1, GesturesAssumption DEF Called, Rows
<1>4. Ahead(stored, Called(g))
  BY <1>1, CalledAhead DEF IInv
<1>5. CASE ~Possible(local[g], g)
  <2>1. /\ Goto(g, "error") /\ holds' = Unlock(g) /\ rows' = rows
        /\ UNCHANGED <<stored, local, view, sent>>
    BY <1>5 DEF Execute
  <2> QED BY <1>1, <1>2, <2>1, LeaveUnsaved
<1>6. CASE Possible(local[g], g) /\ ~called
  <2>1. /\ Goto(g, "error") /\ holds' = Unlock(g) /\ rows' = rows
        /\ UNCHANGED <<stored, local, view, sent>>
    BY <1>6 DEF Execute, TaskCallGoesThrough
  <2> QED BY <1>1, <1>2, <2>1, LeaveUnsaved
<1>7. CASE Possible(local[g], g) /\ called
  <2>1. /\ Goto(g, "executed") /\ rows' = Called(g)
        /\ UNCHANGED <<stored, holds, view, sent>>
    BY <1>7 DEF Execute, TaskCallGoesThrough
  <2>2. PICK bump \in Bumps(g) : local' = [local EXCEPT ![g] = Effect(stored, g, bump)]
    BY <1>1, <1>7 DEF Execute, TaskCallGoesThrough
  <2>3. Effect(stored, g, bump) \in Doc
    BY <1>1, BumpsAreCounts, EffectType
  <2>4. \A q \in Requests : step'[q] = IF q = g THEN "executed" ELSE step[q]
    BY <1>1, <2>1 DEF Goto
  <2>5. \A q \in Requests : q # g => local'[q] = local[q]
    BY <1>1, <2>2
  <2>6. local'[g] = Effect(stored, g, bump)
    BY <1>1, <2>2
  <2>7. g \in holds /\ \A q \in holds : q = g
    BY <1>1 DEF IInv, Mutex
  <2>8. \A q \in Requests : q # g => step'[q] \notin {"loaded", "executed"}
    BY <2>4, <2>7 DEF IInv, Mutex
  <2>9. TypeOK'
    <3>1. local' \in [Requests -> Doc]
      BY <1>1, <2>2, <2>3
    <3>2. step' \in [Requests -> Steps]
      BY <1>1, <2>1 DEF Goto, Steps
    <3> QED BY <1>2, <1>3, <2>1, <3>1, <3>2 DEF IInv, TypeOK
  <2>10. Mutex'
    BY <2>1, <2>4, <2>7, <2>8 DEF IInv, Mutex
  <2>11. Working'
    <3>1. g \notin Deliveries
      BY DeliveriesAssumption
    <3>2. Possible(stored, g)
      BY <1>1, <1>7
    <3> QED BY <1>1, <2>1, <2>4, <2>6, <2>8, <3>1, <3>2 DEF Working
  <2>12. Ahead(Effect(stored, g, bump), Called(g))
    BY <1>1, EffectAhead DEF IInv
  <2>13. Aheads'
    BY <1>1, <1>4, <2>1, <2>6, <2>8, <2>12 DEF Aheads
  <2>14. Unsent' /\ Receipted'
    BY <1>1, <2>1, <2>4 DEF IInv, Unsent, Receipted
  <2> QED BY <2>9, <2>10, <2>11, <2>13, <2>14 DEF IInv
<1> QED BY <1>5, <1>6, <1>7

LEMMA GrantInv ==
  ASSUME IInv, NEW d \in Deliveries, GrantStorePurchase(d)
  PROVE  IInv'
<1>1. /\ d \in Requests /\ rows \in [Rows -> {"absent", "open", "closed"}]
      /\ Ahead(stored, rows) /\ stored \in Doc /\ faults \in 0..MaxFaults
      /\ local \in [Requests -> Doc] /\ step \in [Requests -> Steps]
      /\ Gestures \subseteq Requests /\ Deliveries \subseteq Requests
      /\ step[d] = "loaded" /\ local[d] = stored
      /\ SessionOf[d] \in Sessions /\ d \notin Gestures
  BY DeliveriesAssumption
     DEF Requests, IInv, TypeOK, Aheads, GrantStorePurchase, Working
<1>2. CASE SessionOf[d] \in local[d].receipts
  BY <1>1, <1>2, LeaveUnsaved DEF GrantStorePurchase
<1>3. CASE SessionOf[d] \notin local[d].receipts
  <2>0. PICK bump \in Delivered :
          local' = [local EXCEPT ![d] = Granted(stored, SessionOf[d], bump)]
    BY <1>1, <1>3 DEF GrantStorePurchase
  <2>1. /\ Goto(d, "executed")
        /\ UNCHANGED <<stored, rows, holds, view, sent, faults>>
    BY <1>1, <1>3 DEF GrantStorePurchase
  <2>2. Granted(stored, SessionOf[d], bump) \in Doc
    BY <1>1, GrantedType
  <2>3. \A q \in Requests : step'[q] = IF q = d THEN "executed" ELSE step[q]
    BY <1>1, <2>1 DEF Goto
  <2>4. /\ local'[d] = Granted(stored, SessionOf[d], bump)
        /\ \A q \in Requests : q # d => local'[q] = local[q]
    BY <1>1, <2>0
  <2>5. d \in holds /\ \A q \in holds : q = d
    BY <1>1 DEF IInv, Mutex
  <2>6. \A q \in Requests : q # d => step'[q] \notin {"loaded", "executed"}
    BY <2>3, <2>5 DEF IInv, Mutex
  <2>7. TypeOK'
    <3>1. local' \in [Requests -> Doc]
      BY <1>1, <2>0, <2>2
    <3>2. step' \in [Requests -> Steps]
      BY <1>1, <2>1 DEF Goto, Steps
    <3> QED BY <2>1, <3>1, <3>2 DEF IInv, TypeOK
  <2>8. Mutex'
    BY <2>1, <2>3, <2>5, <2>6 DEF IInv, Mutex
  <2>9. Working'
    BY <1>1, <1>3, <2>1, <2>3, <2>4, <2>6 DEF Working
  <2>10. Ahead(Granted(stored, SessionOf[d], bump), rows)
    BY <1>1, GrantedFields DEF Ahead
  <2>11. Aheads'
    BY <1>1, <2>1, <2>4, <2>6, <2>10 DEF Aheads
  <2>12. Unsent' /\ Receipted'
    BY <1>1, <2>1, <2>3 DEF IInv, Unsent, Receipted
  <2> QED BY <2>7, <2>8, <2>9, <2>11, <2>12 DEF IInv
<1> QED BY <1>2, <1>3

LEMMA SaveInv ==
  ASSUME IInv, NEW r \in Requests, Save(r)
  PROVE  IInv'
<1>1. faults' \in 0..MaxFaults
  BY DEF Save, IInv, TypeOK
<1> QED BY <1>1, LeaveSaved DEF Save

LEMMA SaveFailsInv ==
  ASSUME IInv, NEW r \in Requests, SaveFails(r)
  PROVE  IInv'
<1>1. /\ faults' \in 0..MaxFaults /\ Ahead(stored, rows)
      /\ rows \in [Rows -> {"absent", "open", "closed"}]
  BY DeliveriesAssumption DEF SaveFails, Fault, IInv, TypeOK, Aheads
<1>2. CASE stored' = stored
  BY <1>1, <1>2, LeaveUnsaved DEF SaveFails, FailureAnswer
<1>3. CASE stored' = local[r]
  BY <1>1, <1>3, LeaveSaved DEF SaveFails, FailureAnswer
<1> QED BY <1>2, <1>3 DEF SaveFails

LEMMA RestartInv ==
  ASSUME IInv, Restart
  PROVE  IInv'
<1>1. Gestures \subseteq Requests /\ Deliveries \subseteq Requests
      /\ step \in [Requests -> Steps]
  BY DEF Requests, IInv, TypeOK
<1>2. \A q \in Requests :
        step'[q] = IF step[q] \in {"waiting", "loaded", "executed"} THEN "error" ELSE step[q]
  BY DEF Restart
<1>3. faults' \in 0..MaxFaults
  BY DeliveriesAssumption DEF Restart, Fault, IInv, TypeOK
<1>4. step' \in [Requests -> Steps]
  BY <1>1 DEF Restart, Steps
<1>5. TypeOK'
  BY <1>3, <1>4 DEF IInv, TypeOK, Restart
<1>6. \A q \in Requests : step'[q] \notin {"loaded", "executed"}
  BY <1>2
<1>7. Mutex' /\ Working' /\ Aheads'
  BY <1>1, <1>6 DEF IInv, Mutex, Working, Aheads, Restart
<1>8. Unsent' /\ Receipted'
  BY <1>1, <1>2 DEF IInv, Unsent, Receipted, Restart
<1> QED BY <1>5, <1>7, <1>8 DEF IInv

LEMMA InvInit == Init => IInv
<1> SUFFICES ASSUME Init PROVE IInv
  OBVIOUS
<1>1. Gestures \subseteq Requests /\ Deliveries \subseteq Requests /\ Tasks \subseteq Rows
  BY DEF Requests, Rows
<1>2. TypeOK
  BY <1>1, FirstDocType, DeliveriesAssumption DEF Init, TypeOK, Steps
<1>3. Mutex /\ Working
  BY <1>1 DEF Init, Mutex, Working
<1>4. Unsent /\ Receipted
  BY <1>1 DEF Init, Unsent, Receipted, FirstDoc
<1>5. Aheads
  BY <1>1 DEF Init, Aheads, Ahead, FirstDoc
<1> QED BY <1>2, <1>3, <1>4, <1>5 DEF IInv

LEMMA InvNext == IInv /\ [Next]_vars => IInv'
<1> SUFFICES ASSUME IInv, [Next]_vars PROVE IInv'
  OBVIOUS
<1>1. ASSUME NEW g \in Gestures, LoadBoard(g) \/ SendCommand(g) \/ RetryConflict(g)
      PROVE  IInv'
  BY <1>1, LoadBoardInv, SendCommandInv, RetryConflictInv
<1>2. ASSUME NEW d \in Deliveries, Deliver(d) PROVE IInv'
  BY <1>2, DeliverInv
<1>3. ASSUME NEW r \in Requests, Begin(r) PROVE IInv'
  BY <1>3, BeginInv
<1>4. ASSUME NEW r \in Requests, Serve(r) PROVE IInv'
  BY <1>4, ConflictInv, ExecuteInv, GrantInv, SaveInv, SaveFailsInv DEF Serve
<1>5. ASSUME NEW r \in Requests, LoseAnswer(r) PROVE IInv'
  BY <1>5, LoseAnswerInv
<1>6. CASE Restart
  BY <1>6, RestartInv
<1>7. CASE UNCHANGED vars
  BY <1>7 DEF vars, IInv, TypeOK, Mutex, Working, Unsent, Receipted, Aheads
<1> QED BY <1>1, <1>2, <1>3, <1>4, <1>5, <1>6, <1>7 DEF Next

THEOREM Inductive == Spec => []IInv
BY InvInit, InvNext, PTL DEF Spec

\* Documents, requests and tabs keep their types; a tab sends a gesture at most
\* twice: sendCommand of BoardControllerData.tsx.
THEOREM CommandTyped == Spec => []TypeOK
<1>1. IInv => TypeOK
  BY DEF IInv
<1> QED BY <1>1, Inductive, PTL

\* No stored card lacks its row and no card was taken off whose task is not
\* closed, whatever calls and saves fail and whenever the process stops: the
\* calls of a command come before its save.
THEOREM TaskListStaysAhead == Spec => []TaskListAhead
<1>1. IInv => TaskListAhead
  BY DEF IInv, Aheads, Ahead, TaskListAhead
<1> QED BY <1>1, Inductive, PTL

-----------------------------------------------------------------------------
(* Refinement *)

LEMMA StepLedgered ==
  ASSUME IInv, [Next]_vars
  PROVE  [Ledger!Next]_stored
<1>1. ASSUME NEW r \in Requests, Save(r) \/ SaveFails(r) PROVE [Ledger!Next]_stored
  BY <1>1, Saved DEF Save, SaveFails
<1>2. ASSUME NEW g \in Gestures, LoadBoard(g) \/ SendCommand(g) \/ RetryConflict(g)
      PROVE  UNCHANGED stored
  BY <1>2 DEF LoadBoard, SendCommand, RetryConflict
<1>3. ASSUME NEW d \in Deliveries, Deliver(d) PROVE UNCHANGED stored
  BY <1>3 DEF Deliver
<1>4. ASSUME NEW r \in Requests, Begin(r) \/ LoseAnswer(r) PROVE UNCHANGED stored
  BY <1>4 DEF Begin, LoseAnswer
<1>5. ASSUME NEW r \in Requests, Serve(r) PROVE [Ledger!Next]_stored
  BY <1>1, <1>5 DEF Serve, Conflict, Execute, GrantStorePurchase
<1>6. CASE Restart
  BY <1>6 DEF Restart
<1>7. CASE UNCHANGED vars
  BY <1>7 DEF vars
<1> QED BY <1>2, <1>3, <1>4, <1>5, <1>6, <1>7 DEF Next

\* The stored document changes by one whole command or grant at a time, applied
\* to what was stored before, each gesture and each paid session at most once:
\* the mutex of Service.Command, the receipts, and sendCommand's single retry.
THEOREM CommandLinearizable == Spec => Linearizable
<1>1. Init => Ledger!Init
  BY DEF Init, Ledger!Init, Ledger!FirstDoc, FirstDoc
<1>2. IInv /\ [Next]_vars => [Ledger!Next]_stored
  BY StepLedgered
<1> QED BY <1>1, <1>2, Inductive, PTL DEF Spec, Linearizable, Ledger!Spec

-----------------------------------------------------------------------------
(* What a tab has seen *)

\* Not after: the version has not gone down, and where it stands no placing
\* gesture was added.
Upto(a, b) ==
  /\ a.version <= b.version
  /\ a.version = b.version => \A p \in Placing : a.times[p] = b.times[p]

\* Every tab's document is one the store has had, up to what edits add.
Seen == \A g \in Gestures : Upto(view[g], stored)

LEMMA UptoSelf == ASSUME NEW a \in Doc PROVE Upto(a, a)
BY DEF Upto, Doc

LEMMA UptoThrough ==
  ASSUME NEW a \in Doc, NEW b \in Doc, NEW c \in Doc, Upto(a, b), Upto(b, c)
  PROVE  Upto(a, c)
BY DEF Upto, Doc

\* One command or grant: the placing ones raise the version.
LEMMA LedgerGoesUp ==
  ASSUME stored \in Doc, stored' \in Doc, Ledger!Next
  PROVE  Upto(stored, stored')
<1>0. stored.version \in Nat
  BY DEF Doc
<1>1. ASSUME NEW g \in Gestures, Ledger!Apply(g) PROVE Upto(stored, stored')
  <2>1. PICK bump \in Bumps(g) : stored' = Effect(stored, g, bump)
    BY <1>1 DEF Ledger!Apply, Ledger!Bumps, Ledger!Effect, Bumps, Effect
  <2>2. bump \in Nat /\ (g \in Placing => bump = 1)
    BY BumpsAreCounts DEF Bumps, Placing
  <2>3. stored'.version = stored.version + bump
    BY <2>1 DEF Effect
  <2>4. \A p \in Gestures \ {g} : stored'.times[p] = stored.times[p]
    BY <2>1, EffectFields
  <2>5. stored.version <= stored'.version /\ (g \in Placing => stored.version # stored'.version)
    BY <1>0, <2>2, <2>3
  <2> QED BY <2>4, <2>5 DEF Upto, Placing
<1>2. ASSUME NEW s \in Sessions, Ledger!Grant(s) PROVE Upto(stored, stored')
  <2>1. PICK bump \in Delivered : stored' = Granted(stored, s, bump)
    BY <1>2 DEF Ledger!Grant, Ledger!Delivered, Ledger!Granted, Delivered, Granted
  <2>2. stored'.version = stored.version + bump /\ bump \in Nat
    BY <2>1 DEF Granted, Delivered
  <2>3. stored'.times = stored.times
    BY <2>1, GrantedFields
  <2> QED BY <1>0, <2>2, <2>3 DEF Upto
<1> QED BY <1>1, <1>2 DEF Ledger!Next

LEMMA ViewStep ==
  ASSUME TypeOK, [Next]_vars, NEW g \in Gestures
  PROVE  view'[g] = view[g] \/ (view'[g] = stored /\ stored' = stored)
<1>1. ASSUME NEW h \in Gestures, LoadBoard(h) \/ SendCommand(h) \/ RetryConflict(h)
      PROVE  view'[g] = view[g] \/ (view'[g] = stored /\ stored' = stored)
  BY <1>1 DEF LoadBoard, SendCommand, RetryConflict, TypeOK
<1>2. ASSUME NEW d \in Deliveries, Deliver(d) PROVE view' = view
  BY <1>2 DEF Deliver
<1>3. ASSUME NEW r \in Requests, Begin(r) \/ Serve(r) \/ LoseAnswer(r) PROVE view' = view
  BY <1>3 DEF Begin, Serve, Conflict, Execute, GrantStorePurchase, Save, SaveFails, LoseAnswer
<1>4. CASE Restart
  BY <1>4 DEF Restart
<1>5. CASE UNCHANGED vars
  BY <1>5 DEF vars
<1> QED BY <1>1, <1>2, <1>3, <1>4, <1>5 DEF Next

LEMMA SeenNext ==
  ASSUME IInv, IInv', Seen, [Next]_vars
  PROVE  Seen'
<1>1. stored \in Doc /\ stored' \in Doc
  BY DEF IInv, TypeOK
<1>2. Upto(stored, stored')
  <2>1. Ledger!Next \/ stored' = stored
    BY StepLedgered
  <2> QED BY <1>1, <2>1, LedgerGoesUp, UptoSelf
<1>3. ASSUME NEW g \in Gestures PROVE Upto(view'[g], stored')
  <2>1. view[g] \in Doc /\ Upto(view[g], stored)
    BY DEF IInv, TypeOK, Seen
  <2>2. view'[g] = view[g] \/ (view'[g] = stored /\ stored' = stored)
    BY ViewStep DEF IInv
  <2>3. CASE view'[g] = view[g]
    BY <1>1, <1>2, <2>1, <2>3, UptoThrough
  <2>4. CASE view'[g] = stored
    BY <1>2, <2>4
  <2> QED BY <2>2, <2>3, <2>4
<1> QED BY <1>3 DEF Seen, Upto, Placing

\* A command that gets past the version check knows every placing command the
\* document holds, however many tabs, retries, failed saves and restarts came
\* before: placing raises the version (state.go, nextZ) and nothing lowers it.
THEOREM PlacingIsSeen == Spec => []NoPlacingUnseen
<1>1. Init => Seen
  BY FirstDocType, UptoSelf DEF Init, Seen
<1>2. Spec => []Seen
  BY <1>1, SeenNext, Inductive, PTL DEF Spec
<1>3. IInv /\ Seen => NoPlacingUnseen
  BY DEF IInv, Working, Seen, Upto, NoPlacingUnseen, Current, Requests
<1> QED BY <1>2, <1>3, Inductive, PTL
=============================================================================
