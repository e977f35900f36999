-------------------------- MODULE TaskSeriesProofs --------------------------
(***************************************************************************)
(* Proofs about TaskSeries, for every number of requests, rows and rules:  *)
(* its type invariant, that a next occurrence is paid for by a closing,    *)
(* that the rows, as the requests interleave, implement Occurrences, and   *)
(* that a series has one open row and keeps to its COUNT.  About the list  *)
(* of the home page: it shows the rows there are.  And about the two       *)
(* dialogs in which a row is edited: what was typed reaches its own row,   *)
(* and a card of the board holds what its row does.                        *)
(***************************************************************************)
EXTENDS TaskSeries, TaskList, ClientPages, FiniteSetTheorems, TLAPS

\* A row is never the next occurrence of one that was not inserted.
Linked == \A r \in DOMAIN rows : rows[r].from \in {0} \cup DOMAIN rows

IInv == TypeOK /\ Linked /\ PaidFor

LEMMA NextLeftCount ==
  ASSUME NEW left \in 0..MaxCount, NEW n \in NextLeft(left)
  PROVE  n \in 0..MaxCount
BY SeriesAssumption DEF NextLeft

\* What a closing that will open a next occurrence carries.
LEMMA RenewRequest ==
  ASSUME TypeOK, NEW c \in Clients, reqs[c].step = "renew"
  PROVE  reqs[c].id \in Ids /\ reqs[c].rule \in Rules
BY DEF TypeOK, Requests

LEMMA CloseRequest ==
  ASSUME TypeOK, NEW c \in Clients, reqs[c].step = "close"
  PROVE  reqs[c].id \in Ids
BY DEF TypeOK, Requests

LEMMA NextOfFinite ==
  ASSUME DOMAIN rows \subseteq Ids, NEW r
  PROVE  IsFiniteSet(NextOf(r))
<1>1. IsFiniteSet(Ids)
  BY FS_Interval, SeriesAssumption DEF Ids
<1>2. NextOf(r) \subseteq Ids
  BY DEF NextOf
<1> QED BY <1>1, <1>2, FS_Subset

-----------------------------------------------------------------------------
(* The table after one statement.  Each lemma takes the statement's rows. *)

\* One row is rewritten, and neither its link nor its count goes back.
LEMMA RewriteRow ==
  ASSUME IInv, NEW r \in DOMAIN rows, NEW row \in Row,
         row.from = rows[r].from, row.processed >= rows[r].processed,
         rows' = [rows EXCEPT ![r] = row], reqs' \in [Clients -> Requests],
         tick' \subseteq DOMAIN rows
  PROVE  IInv'
<1>1. DOMAIN rows' = DOMAIN rows /\ DOMAIN rows \subseteq Ids
  BY DEF IInv, TypeOK
<1>2. \A x \in DOMAIN rows : rows[x] \in Row
  BY DEF IInv, TypeOK
<1>3. \A x \in DOMAIN rows : rows'[x] = IF x = r THEN row ELSE rows[x]
  OBVIOUS
<1>4. \A x \in DOMAIN rows : rows'[x].from = rows[x].from
  BY <1>3
<1>5. \A x \in DOMAIN rows : /\ rows'[x].processed >= rows[x].processed
                             /\ rows[x].processed \in Nat
                             /\ rows'[x].processed \in Nat
  BY <1>2, <1>3 DEF Row
<1>6. TypeOK'
  BY <1>1, <1>2, <1>3 DEF TypeOK
<1>7. Linked'
  BY <1>1, <1>4 DEF IInv, Linked
<1>8. \A x \in DOMAIN rows : NextOf(x)' = NextOf(x)
  BY <1>1, <1>4 DEF NextOf
<1>9. \A x \in DOMAIN rows : IsFiniteSet(NextOf(x))
  BY <1>1, NextOfFinite
<1>10. \A x \in DOMAIN rows : Cardinality(NextOf(x)) \in Nat
  BY <1>9, FS_CardinalityType
<1>11. PaidFor'
  BY <1>1, <1>5, <1>8, <1>10 DEF IInv, PaidFor
<1> QED BY <1>6, <1>7, <1>11 DEF IInv

\* A row is inserted that is no next occurrence.
LEMMA InsertRow ==
  ASSUME IInv, NEW new \in Ids \ DOMAIN rows, NEW rule \in Rules,
         rows' = [x \in DOMAIN rows \cup {new} |->
                    IF x = new THEN NewRow(rule, 0) ELSE rows[x]],
         UNCHANGED <<reqs, tick>>
  PROVE  IInv'
<1>1. DOMAIN rows' = DOMAIN rows \cup {new} /\ DOMAIN rows \subseteq Ids
  BY DEF IInv, TypeOK
<1>2. NewRow(rule, 0) \in Row /\ NewRow(rule, 0).from = 0 /\ NewRow(rule, 0).processed = 0
  BY DEF NewRow, Row
<1>3. TypeOK'
  BY <1>1, <1>2 DEF IInv, TypeOK
<1>4. Linked'
  BY <1>1, <1>2 DEF IInv, Linked
<1>5. new # 0 /\ 0 \notin DOMAIN rows
  BY <1>1 DEF Ids
<1>6. \A x \in DOMAIN rows : NextOf(x)' = NextOf(x)
  BY <1>1, <1>2, <1>5 DEF NextOf
<1>7. NextOf(new)' = {}
  BY <1>1, <1>2, <1>5 DEF IInv, Linked, NextOf
<1>8. Cardinality({}) = 0
  BY FS_EmptySet
<1>9. PaidFor'
  BY <1>1, <1>2, <1>6, <1>7, <1>8 DEF IInv, PaidFor
<1> QED BY <1>3, <1>4, <1>9 DEF IInv

\* The transaction that closes a row and inserts its next occurrence.
LEMMA RenewRow ==
  ASSUME IInv, NEW r \in DOMAIN rows, NEW new \in Ids \ DOMAIN rows,
         NEW rule \in Rules, rows' = Renewed(r, new, rule),
         reqs' \in [Clients -> Requests], UNCHANGED tick
  PROVE  IInv'
<1>1. /\ DOMAIN rows' = DOMAIN rows \cup {new} /\ DOMAIN rows \subseteq Ids
      /\ \A x \in DOMAIN rows : rows[x] \in Row
  BY DEF IInv, TypeOK, Renewed
<1>2. /\ NewRow(rule, r) \in Row /\ NewRow(rule, r).from = r
      /\ NewRow(rule, r).processed = 0
  BY <1>1 DEF NewRow, Row
<1>3. /\ Closed(rows[r]) \in Row /\ Closed(rows[r]).from = rows[r].from
      /\ Closed(rows[r]).processed = rows[r].processed + 1
  BY <1>1 DEF Closed, Row
<1>4. /\ rows'[new] = NewRow(rule, r) /\ rows'[r] = Closed(rows[r])
      /\ \A x \in DOMAIN rows \ {r} : rows'[x] = rows[x]
  BY DEF Renewed
<1>5. \A x \in DOMAIN rows : rows'[x].from = rows[x].from
  BY <1>3, <1>4
<1>6. TypeOK'
  <2>1. \A x \in DOMAIN rows' : rows'[x] \in Row
    BY <1>1, <1>2, <1>3, <1>4
  <2>2. rows' = [x \in DOMAIN rows' |-> rows'[x]]
    BY DEF Renewed
  <2>3. rows' \in [DOMAIN rows' -> Row]
    BY <2>1, <2>2
  <2>4. tick' \subseteq DOMAIN rows' /\ DOMAIN rows' \subseteq Ids
    BY <1>1 DEF IInv, TypeOK
  <2> QED BY <2>3, <2>4 DEF TypeOK
<1>7. Linked'
  BY <1>1, <1>2, <1>4, <1>5 DEF IInv, Linked
<1>8. NextOf(r)' = NextOf(r) \cup {new} /\ new \notin NextOf(r)
  BY <1>1, <1>2, <1>4, <1>5 DEF NextOf
<1>9. \A x \in DOMAIN rows \ {r} : NextOf(x)' = NextOf(x)
  BY <1>1, <1>2, <1>4, <1>5 DEF NextOf
<1>10. NextOf(new)' = {}
  <2>1. new # 0
    BY DEF Ids
  <2> QED BY <1>1, <1>2, <1>4, <1>5, <2>1 DEF IInv, Linked, NextOf
<1>11. IsFiniteSet(NextOf(r))
  BY <1>1, NextOfFinite
<1>12. Cardinality(NextOf(r)') = Cardinality(NextOf(r)) + 1 /\ Cardinality(NextOf(r)) \in Nat
  BY <1>8, <1>11, FS_AddElement, FS_CardinalityType
<1>13. Cardinality({}) = 0
  BY FS_EmptySet
<1>14. PaidFor'
  <2>1. \A x \in DOMAIN rows : Cardinality(NextOf(x)) <= rows[x].processed
                               /\ rows[x].processed \in Nat
    BY <1>1 DEF IInv, PaidFor, Row
  <2>2. Cardinality(NextOf(r)') <= rows'[r].processed
    BY <1>3, <1>4, <1>12, <2>1
  <2>3. \A x \in DOMAIN rows \ {r} : Cardinality(NextOf(x)') <= rows'[x].processed
    BY <1>4, <1>9, <2>1
  <2>4. Cardinality(NextOf(new)') <= rows'[new].processed
    BY <1>2, <1>4, <1>10, <1>13
  <2>5. \A x \in DOMAIN rows' : Cardinality(NextOf(x)') <= rows'[x].processed
    BY <1>1, <2>2, <2>3, <2>4
  <2> QED BY <2>5 DEF PaidFor
<1> QED BY <1>6, <1>7, <1>14 DEF IInv

\* The table stays; requests and the day end move on.
LEMMA RowsStay ==
  ASSUME IInv, UNCHANGED rows, reqs' \in [Clients -> Requests],
         tick' \subseteq DOMAIN rows
  PROVE  IInv'
BY DEF IInv, TypeOK, Linked, PaidFor, NextOf

-----------------------------------------------------------------------------
(* The actions *)

\* What the prover has to know of the requests in every step.
LEMMA RequestsStay ==
  ASSUME TypeOK, NEW c \in Clients, reqs' = [reqs EXCEPT ![c] = IdleRequest]
  PROVE  reqs' \in [Clients -> Requests]
BY DEF TypeOK, Requests, IdleRequest

LEMMA CloseReadInv ==
  ASSUME IInv, NEW c \in Clients, NEW r \in DOMAIN rows, CloseRead(c, r)
  PROVE  IInv'
<1>1. r \in Ids /\ rows[r].rule \in Rules /\ reqs \in [Clients -> Requests]
      /\ tick \subseteq DOMAIN rows
  BY DEF IInv, TypeOK, Row
<1>2. [step |-> "close", id |-> r] \in Requests
  BY <1>1 DEF Requests
<1>3. ASSUME NEW left \in NextLeft(rows[r].rule.left), NEW last \in BOOLEAN
      PROVE  [step |-> "renew", id |-> r,
              rule |-> [repeats |-> TRUE, left |-> left, last |-> last]] \in Requests
  <2>1. rows[r].rule.left \in 0..MaxCount
    BY <1>1 DEF Rules
  <2>2. left \in 0..MaxCount
    BY <2>1, NextLeftCount
  <2>3. [repeats |-> TRUE, left |-> left, last |-> last] \in Rules
    BY <2>2 DEF Rules
  <2> QED BY <1>1, <2>3 DEF Requests
<1>4. reqs' \in [Clients -> Requests]
  BY <1>1, <1>2, <1>3 DEF CloseRead
<1> QED BY <1>1, <1>4, RowsStay DEF CloseRead

LEMMA CloseWriteInv ==
  ASSUME IInv, NEW c \in Clients, CloseWrite(c)
  PROVE  IInv'
<1> DEFINE r == reqs[c].id
<1>1. reqs' \in [Clients -> Requests] /\ tick' \subseteq DOMAIN rows
  BY RequestsStay DEF CloseWrite, IInv, TypeOK
<1>2. CASE ~Open(r)
  <2>1. rows' = rows
    BY <1>2 DEF CloseWrite, TaskClose, Stored, Open, IInv, TypeOK
  <2> QED BY <1>1, <2>1, RowsStay
<1>3. CASE Open(r)
  <2>1. r \in DOMAIN rows /\ rows[r] \in Row
    BY <1>3 DEF Open, IInv, TypeOK
  <2>2. rows' = [rows EXCEPT ![r] = Closed(rows[r])]
    BY <1>3 DEF CloseWrite, TaskClose, Stored, Open
  <2>3. /\ Closed(rows[r]) \in Row /\ Closed(rows[r]).from = rows[r].from
        /\ Closed(rows[r]).processed >= rows[r].processed
    BY <2>1 DEF Closed, Row
  <2> HIDE DEF r
  <2> QED BY <1>1, <2>1, <2>2, <2>3, RewriteRow
<1> QED BY <1>2, <1>3

LEMMA RenewWriteInv ==
  ASSUME IInv, NEW c \in Clients, RenewWrite(c)
  PROVE  IInv'
<1>1. reqs' \in [Clients -> Requests] /\ tick' \subseteq DOMAIN rows /\ UNCHANGED tick
  BY RequestsStay DEF RenewWrite, IInv, TypeOK
<1>2. CASE Renewable(reqs[c].id)
  <2>1. reqs[c].id \in DOMAIN rows /\ reqs[c].rule \in Rules
    BY <1>2, RenewRequest DEF RenewWrite, Renewable, Open, Stored, IInv
  <2>2. PICK new \in Ids \ DOMAIN rows : rows' = Renewed(reqs[c].id, new, reqs[c].rule)
    BY <1>2 DEF RenewWrite
  <2> QED BY <1>1, <2>1, <2>2, RenewRow
<1>3. CASE ~Renewable(reqs[c].id)
  BY <1>1, <1>3, RowsStay DEF RenewWrite
<1> QED BY <1>2, <1>3

LEMMA UpdateInv ==
  ASSUME IInv, NEW r \in DOMAIN rows, Update(r)
  PROVE  IInv'
<1>1. rows[r] \in Row /\ reqs \in [Clients -> Requests] /\ tick \subseteq DOMAIN rows
  BY DEF IInv, TypeOK
<1>2. PICK rule \in Rules : rows' = [rows EXCEPT ![r].rule = rule]
  BY DEF Update
<1> DEFINE row == [rows[r] EXCEPT !.rule = rule]
<1>3. /\ row \in Row /\ row.from = rows[r].from /\ row.processed >= rows[r].processed
      /\ rows' = [rows EXCEPT ![r] = row]
  BY <1>1, <1>2 DEF Row
<1> HIDE DEF row
<1> QED BY <1>1, <1>3, RewriteRow DEF Update

LEMMA ReopenedRow ==
  ASSUME IInv, NEW r \in DOMAIN rows, rows' = TaskReopen(r), UNCHANGED reqs,
         tick' \subseteq DOMAIN rows
  PROVE  IInv'
<1>1. rows[r] \in Row /\ reqs \in [Clients -> Requests]
  BY DEF IInv, TypeOK
<1> DEFINE row == [rows[r] EXCEPT !.state = "open"]
<1>2. /\ row \in Row /\ row.from = rows[r].from /\ row.processed >= rows[r].processed
      /\ rows' = [rows EXCEPT ![r] = row]
  BY <1>1 DEF Row, TaskReopen
<1> HIDE DEF row
<1> QED BY <1>1, <1>2, RewriteRow

LEMMA DeleteInv ==
  ASSUME IInv, NEW r \in DOMAIN rows, Delete(r)
  PROVE  IInv'
<1>1. rows[r] \in Row /\ reqs \in [Clients -> Requests] /\ tick \subseteq DOMAIN rows
  BY DEF IInv, TypeOK
<1> DEFINE row == [rows[r] EXCEPT !.state = "deleted"]
<1>2. /\ row \in Row /\ row.from = rows[r].from /\ row.processed >= rows[r].processed
      /\ rows' = [rows EXCEPT ![r] = row]
  BY <1>1 DEF Row, Delete
<1> HIDE DEF row
<1> QED BY <1>1, <1>2, RewriteRow DEF Delete

LEMMA DayEndReopenInv ==
  ASSUME IInv, NEW r \in DOMAIN rows, DayEndReopen(r)
  PROVE  IInv'
<1>1. reqs \in [Clients -> Requests] /\ tick \subseteq DOMAIN rows
  BY DEF IInv, TypeOK
<1>2. CASE Stored(r)
  BY <1>1, <1>2, ReopenedRow DEF DayEndReopen
<1>3. CASE ~Stored(r)
  BY <1>1, <1>3, RowsStay DEF DayEndReopen
<1> QED BY <1>2, <1>3

LEMMA InvInit == Init => IInv
<1> SUFFICES ASSUME Init PROVE IInv
  OBVIOUS
<1>1. DOMAIN rows = {} /\ rows \in [DOMAIN rows -> Row]
  BY DEF Init
<1>2. TypeOK
  BY <1>1 DEF Init, TypeOK, Requests, IdleRequest
<1> QED BY <1>1, <1>2 DEF IInv, Linked, PaidFor

LEMMA InvNext == IInv /\ [Next]_vars => IInv'
<1> SUFFICES ASSUME IInv, [Next]_vars PROVE IInv'
  OBVIOUS
<1>0. reqs \in [Clients -> Requests] /\ tick \subseteq DOMAIN rows
  BY DEF IInv, TypeOK
<1>1. CASE Create
  BY <1>1, InsertRow DEF Create
<1>2. ASSUME NEW c \in Clients, NEW r \in DOMAIN rows, CloseRead(c, r) PROVE IInv'
  BY <1>2, CloseReadInv
<1>3. ASSUME NEW c \in Clients, CloseWrite(c) PROVE IInv'
  BY <1>3, CloseWriteInv
<1>4. ASSUME NEW c \in Clients, RenewWrite(c) PROVE IInv'
  BY <1>4, RenewWriteInv
<1>5. ASSUME NEW c \in Clients, CloseFails(c) PROVE IInv'
  BY <1>0, <1>5, RequestsStay, RowsStay DEF CloseFails, IInv
<1>6. ASSUME NEW r \in DOMAIN rows, Update(r) PROVE IInv'
  BY <1>6, UpdateInv
<1>7. ASSUME NEW r \in DOMAIN rows, Reopen(r) PROVE IInv'
  BY <1>0, <1>7, ReopenedRow DEF Reopen
<1>8. ASSUME NEW r \in DOMAIN rows, Delete(r) PROVE IInv'
  BY <1>8, DeleteInv
<1>9. ASSUME NEW r \in DOMAIN rows, DayEndReopen(r) PROVE IInv'
  BY <1>9, DayEndReopenInv
<1>10. CASE DayEndList
  BY <1>0, <1>10, RowsStay DEF DayEndList
<1>11. CASE UNCHANGED vars
  BY <1>0, <1>11, RowsStay DEF vars
<1> QED BY <1>1, <1>2, <1>3, <1>4, <1>5, <1>6, <1>7, <1>8, <1>9, <1>10, <1>11 DEF Next

THEOREM Inductive == Spec => []IInv
BY InvInit, InvNext, PTL DEF Spec

\* The rows, the requests in flight and the day end always have their types,
\* whatever the rules' counts: internal/task/repository.go and service.go.
THEOREM SeriesTyped == Spec => []TypeOK
<1>1. IInv => TypeOK
  BY DEF IInv
<1> QED BY <1>1, Inductive, PTL

\* CloseRecurringAndCreateNext spawns at most once for each time the row goes
\* from open to checked, however requests, reopenings and day ends interleave.
THEOREM NextOccurrencePaid == Spec => []PaidFor
<1>1. IInv => PaidFor
  BY DEF IInv
<1> QED BY <1>1, Inductive, PTL

-----------------------------------------------------------------------------
(* Refinement *)

LEMMA StatusValues ==
  /\ StatusOf["open"] = "open"
  /\ StatusOf["checked"] = "finished"
  /\ StatusOf["deleted"] = "dropped"
BY DEF StatusOf

\* What a statement that rewrites one row does to the task list.
LEMMA ListedRewrite ==
  ASSUME NEW r \in DOMAIN rows, NEW row, rows' = [rows EXCEPT ![r] = row]
  PROVE  Listed' = [Listed EXCEPT ![r] =
                      [status |-> StatusOf[row.state], done |-> row.processed,
                       from |-> row.from]]
BY DEF Listed

LEMMA ClosedIsFinish ==
  ASSUME TypeOK, NEW r \in DOMAIN rows, Open(r), rows' = [rows EXCEPT ![r] = Closed(rows[r])]
  PROVE  O!Finish(r)
<1>1. rows[r] \in Row
  BY DEF TypeOK
<1>2. /\ Closed(rows[r]).state = "checked"
      /\ Closed(rows[r]).processed = rows[r].processed + 1
      /\ Closed(rows[r]).from = rows[r].from
  BY <1>1 DEF Closed, Row, Open, Stored
<1>3. Listed' = [Listed EXCEPT ![r] = [status |-> "finished", done |-> rows[r].processed + 1,
                                       from |-> rows[r].from]]
  <2>1. Listed' = [Listed EXCEPT ![r] = [status |-> StatusOf[Closed(rows[r]).state],
                                         done |-> Closed(rows[r]).processed, from |-> Closed(rows[r]).from]]
    BY <1>2, ListedRewrite
  <2> QED BY <2>1, <1>2, StatusValues
<1>4. Listed[r] = [status |-> "open", done |-> rows[r].processed, from |-> rows[r].from]
  BY StatusValues DEF Listed, Open
<1>5. O!Finished(r) = [status |-> "finished", done |-> rows[r].processed + 1,
                       from |-> rows[r].from]
  BY <1>4 DEF O!Finished, O!As
<1> QED BY <1>3, <1>4, <1>5 DEF O!Finish

LEMMA RenewedIsFinishAndRenew ==
  ASSUME TypeOK, NEW r \in DOMAIN rows, Open(r), NEW new \in Ids \ DOMAIN rows,
         NEW rule, rows' = Renewed(r, new, rule)
  PROVE  O!FinishAndRenew(r)
<1>1. rows[r] \in Row
  BY DEF TypeOK
<1>2. /\ Closed(rows[r]).state = "checked"
      /\ Closed(rows[r]).processed = rows[r].processed + 1
      /\ Closed(rows[r]).from = rows[r].from
  BY <1>1 DEF Closed, Row, Open, Stored
<1>3. Listed[r] = [status |-> "open", done |-> rows[r].processed, from |-> rows[r].from]
  BY StatusValues DEF Listed, Open
<1>4. O!Finished(r) = [status |-> "finished", done |-> rows[r].processed + 1,
                       from |-> rows[r].from]
  BY <1>3 DEF O!Finished, O!As
<1>5. DOMAIN rows' = DOMAIN rows \cup {new} /\ DOMAIN Listed = DOMAIN rows
  BY DEF Renewed, Listed
<1>6. Listed' = [p \in DOMAIN Listed \cup {new} |->
                   IF p = new THEN O!NewItem(r)
                   ELSE IF p = r THEN O!Finished(r) ELSE Listed[p]]
  <2>1. rows'[new] = NewRow(rule, r) /\ rows'[r] = Closed(rows[r])
        /\ \A x \in DOMAIN rows \ {r} : rows'[x] = rows[x]
    BY DEF Renewed
  <2>2. NewRow(rule, r).from = r /\ NewRow(rule, r).processed = 0
        /\ NewRow(rule, r).state = "open"
    BY DEF NewRow
  <2> QED BY <1>2, <1>4, <1>5, <2>1, <2>2, StatusValues DEF Listed, O!NewItem
<1>7. new \in Ids \ DOMAIN Listed
  BY <1>5
<1> QED BY <1>3, <1>6, <1>7 DEF O!FinishAndRenew

LEMMA ReopenedIsReopen ==
  ASSUME TypeOK, NEW r \in DOMAIN rows, Stored(r), rows' = TaskReopen(r)
  PROVE  O!Reopen(r) \/ Listed' = Listed
<1>1. rows[r] \in Row
  BY DEF TypeOK
<1> DEFINE row == [rows[r] EXCEPT !.state = "open"]
<1>2. /\ rows' = [rows EXCEPT ![r] = row] /\ row.state = "open"
      /\ row.processed = rows[r].processed /\ row.from = rows[r].from
  BY <1>1 DEF TaskReopen, Row, Stored
<1> HIDE DEF row
<1>3. Listed' = [Listed EXCEPT ![r] = [status |-> "open", done |-> rows[r].processed,
                                       from |-> rows[r].from]]
  <2>1. Listed' = [Listed EXCEPT ![r] = [status |-> StatusOf[row.state],
                                         done |-> row.processed, from |-> row.from]]
    BY <1>2, ListedRewrite
  <2> QED BY <2>1, <1>2, StatusValues
<1>4. Listed[r] = [status |-> StatusOf[rows[r].state],
                   done |-> rows[r].processed, from |-> rows[r].from]
  BY DEF Listed, Stored
<1>5. CASE rows[r].state = "checked"
  BY <1>3, <1>4, <1>5, StatusValues DEF O!Reopen, O!As
<1>6. CASE rows[r].state = "open"
  <2>1. Listed = [x \in DOMAIN rows |-> Listed[x]]
    BY DEF Listed
  <2> QED BY <1>3, <1>4, <1>6, <2>1, StatusValues
<1> QED BY <1>1, <1>5, <1>6 DEF Row, Stored

LEMMA StepSimulated ==
  ASSUME TypeOK, [Next]_vars
  PROVE  [O!Next]_Listed
<1>0. DOMAIN Listed = DOMAIN rows /\ Listed = [x \in DOMAIN rows |-> Listed[x]]
  BY DEF Listed
<1>1. ASSUME UNCHANGED rows PROVE Listed' = Listed
  BY <1>1 DEF Listed
<1>2. CASE Create
  <2>1. PICK new \in Ids \ DOMAIN rows, rule \in Rules :
          rows' = [r \in DOMAIN rows \cup {new} |->
                     IF r = new THEN NewRow(rule, 0) ELSE rows[r]]
    BY <1>2 DEF Create
  <2>2. NewRow(rule, 0).from = 0 /\ NewRow(rule, 0).processed = 0
        /\ NewRow(rule, 0).state = "open"
    BY DEF NewRow
  <2>3. Listed' = [p \in DOMAIN Listed \cup {new} |->
                     IF p = new THEN O!NewItem(0) ELSE Listed[p]]
    BY <2>1, <2>2, StatusValues DEF Listed, O!NewItem
  <2>4. O!Add
    BY <1>0, <2>1, <2>3 DEF O!Add, O!Write
  <2> QED BY <2>4 DEF O!Next
<1>3. ASSUME NEW c \in Clients, NEW r \in DOMAIN rows, CloseRead(c, r)
      PROVE  Listed' = Listed
  BY <1>1, <1>3 DEF CloseRead
<1>4. ASSUME NEW c \in Clients, CloseWrite(c) PROVE [O!Next]_Listed
  <2> DEFINE r == reqs[c].id
  <2>1. CASE ~Open(r)
    <3>1. rows' = rows
      BY <1>4, <2>1 DEF CloseWrite, TaskClose, Open, Stored, TypeOK
    <3> QED BY <1>1, <3>1
  <2>2. CASE Open(r)
    <3>1. r \in DOMAIN rows /\ rows' = [rows EXCEPT ![r] = Closed(rows[r])]
      BY <1>4, <2>2 DEF CloseWrite, TaskClose, Open, Stored
    <3>2. O!Finish(r)
      BY <2>2, <3>1, ClosedIsFinish
    <3> QED BY <1>0, <3>1, <3>2 DEF O!Next
  <2> QED BY <2>1, <2>2
<1>5. ASSUME NEW c \in Clients, RenewWrite(c) PROVE [O!Next]_Listed
  <2> DEFINE r == reqs[c].id
  <2>1. CASE ~Renewable(r)
    BY <1>1, <1>5, <2>1 DEF RenewWrite
  <2>2. CASE Renewable(r)
    <3>1. r \in DOMAIN rows /\ Open(r)
      BY <2>2 DEF Renewable, Open, Stored
    <3>2. PICK new \in Ids \ DOMAIN rows : rows' = Renewed(r, new, reqs[c].rule)
      BY <1>5, <2>2 DEF RenewWrite
    <3>3. O!FinishAndRenew(r)
      BY <3>1, <3>2, RenewedIsFinishAndRenew
    <3> QED BY <1>0, <3>1, <3>3 DEF O!Next
  <2> QED BY <2>1, <2>2
<1>6. ASSUME NEW c \in Clients, CloseFails(c) PROVE Listed' = Listed
  BY <1>1, <1>6 DEF CloseFails
<1>7. ASSUME NEW r \in DOMAIN rows, Update(r) PROVE Listed' = Listed
  <2>1. PICK rule \in Rules : rows' = [rows EXCEPT ![r].rule = rule]
    BY <1>7 DEF Update
  <2>2. rows[r] \in Row
    BY DEF TypeOK
  <2>3. /\ DOMAIN rows' = DOMAIN rows
        /\ \A x \in DOMAIN rows :
             /\ rows'[x].from = rows[x].from /\ rows'[x].processed = rows[x].processed
             /\ rows'[x].state = rows[x].state
    BY <2>1, <2>2 DEF Row
  <2> QED BY <2>3 DEF Listed
<1>8. ASSUME NEW r \in DOMAIN rows, Reopen(r) PROVE [O!Next]_Listed
  <2>1. O!Reopen(r) \/ Listed' = Listed
    BY <1>8, ReopenedIsReopen DEF Reopen
  <2> QED BY <1>0, <2>1 DEF O!Next
<1>9. ASSUME NEW r \in DOMAIN rows, Delete(r) PROVE [O!Next]_Listed
  <2>1. rows[r] \in Row /\ Stored(r)
    BY <1>9 DEF TypeOK, Delete
  <2> DEFINE row == [rows[r] EXCEPT !.state = "deleted"]
  <2>2. /\ rows' = [rows EXCEPT ![r] = row] /\ row.state = "deleted"
        /\ row.processed = rows[r].processed /\ row.from = rows[r].from
    BY <1>9, <2>1 DEF Delete, Row
  <2> HIDE DEF row
  <2>3. Listed' = [Listed EXCEPT ![r] = [status |-> "dropped", done |-> rows[r].processed,
                                         from |-> rows[r].from]]
    <3>1. Listed' = [Listed EXCEPT ![r] = [status |-> StatusOf[row.state],
                                         done |-> row.processed, from |-> row.from]]
      BY <2>2, ListedRewrite
    <3> QED BY <3>1, <2>2, StatusValues
  <2>4. Listed[r] = [status |-> StatusOf[rows[r].state],
                     done |-> rows[r].processed, from |-> rows[r].from]
    BY <2>1 DEF Listed, Stored
  <2>5. O!Drop(r)
    BY <2>1, <2>3, <2>4, StatusValues DEF Stored, Row, O!Drop, O!As
  <2> QED BY <1>0, <2>5 DEF O!Next
<1>10. ASSUME NEW r \in DOMAIN rows, DayEndReopen(r) PROVE [O!Next]_Listed
  <2>1. CASE Stored(r)
    <3>1. O!Reopen(r) \/ Listed' = Listed
      BY <1>10, <2>1, ReopenedIsReopen DEF DayEndReopen
    <3> QED BY <1>0, <3>1 DEF O!Next
  <2>2. CASE ~Stored(r)
    BY <1>1, <1>10, <2>2 DEF DayEndReopen
  <2> QED BY <2>1, <2>2
<1>11. CASE DayEndList
  BY <1>1, <1>11 DEF DayEndList
<1>12. CASE UNCHANGED vars
  BY <1>1, <1>12 DEF vars
<1> QED BY <1>2, <1>3, <1>4, <1>5, <1>6, <1>7, <1>8, <1>9, <1>10, <1>11, <1>12 DEF Next

\* Reading a row, deciding and writing in separate steps, with requests and day
\* ends between them, comes to finishing a task and opening its next occurrence
\* in one step.
THEOREM SeriesImplementsOccurrences == Spec => Implements
<1>1. Init => O!Init
  BY DEF Init, O!Init, Listed
<1>2. TypeOK /\ [Next]_vars => [O!Next]_Listed
  BY StepSimulated
<1> QED BY <1>1, <1>2, SeriesTyped, PTL DEF Spec, Implements, O!Spec

-----------------------------------------------------------------------------
(* Series *)

Place == [first : Ids, nth : Nat]
\* Every row has its place in a series that begins with a row.
Placed == series \in [DOMAIN rows -> Place] /\ \A r \in DOMAIN rows : series[r].first \in DOMAIN rows

\* Fit(c): what closing c will do is what its row's rule asks for.
EndsHere(rule) == ~rule.repeats \/ rule.last \/ rule.left = 1
Fit(req) ==
  /\ req.step \in {"close", "renew"} => req.id \in DOMAIN rows
  /\ "edited" \notin touched =>
       /\ req.step = "close" => EndsHere(rows[req.id].rule)
       /\ req.step = "renew" => req.rule.left \in NextLeft(rows[req.id].rule.left)
Asked == \A c \in Clients : Fit(reqs[c])

\* A step that inserts no row: what it may do to a row.
Rewritten ==
  /\ DOMAIN rows' = DOMAIN rows /\ series' = series
  /\ \A x \in DOMAIN rows :
       /\ rows'[x].from = rows[x].from
       /\ rows'[x].state = "open" => rows[x].state = "open" \/ "reopened" \in touched'
       /\ rows'[x].rule = rows[x].rule \/ "edited" \in touched'
       /\ rows'[x].state = "checked" /\ rows[x].state # "checked" =>
            \E c \in Clients : reqs[c].step = "close" /\ reqs[c].id = x
Inserted(new, rule) ==
  /\ rows' = [x \in DOMAIN rows \cup {new} |-> IF x = new THEN NewRow(rule, 0) ELSE rows[x]]
  /\ series' = [x \in DOMAIN rows' |-> IF x = new THEN [first |-> new, nth |-> 1] ELSE series[x]]
Continued(c, new) ==
  /\ reqs[c].step = "renew" /\ Open(reqs[c].id) /\ rows' = Renewed(reqs[c].id, new, reqs[c].rule)
  /\ series' = [x \in DOMAIN rows' |-> IF x = new THEN [series[reqs[c].id] EXCEPT !.nth = @ + 1] ELSE series[x]]

LEMMA OneRowRewritten ==
  ASSUME TypeOK, NEW r \in DOMAIN rows, NEW row, rows' = [rows EXCEPT ![r] = row], series' = series,
         row.from = rows[r].from, row.state = "open" => rows[r].state = "open" \/ "reopened" \in touched',
         row.rule = rows[r].rule \/ "edited" \in touched',
         row.state = "checked" => rows[r].state = "checked" \/ \E c \in Clients : reqs[c].step = "close" /\ reqs[c].id = r
  PROVE  Rewritten
BY DEF Rewritten

LEMMA Steps ==
  ASSUME TypeOK, [Next]_vars
  PROVE  /\ touched \subseteq touched'
         /\ \/ Rewritten
            \/ \E new \in Ids \ DOMAIN rows, rule \in Rules : Inserted(new, rule)
            \/ \E c \in Clients, new \in Ids \ DOMAIN rows : Continued(c, new)
<1>0. \A x \in DOMAIN rows : rows[x] \in Row
  BY DEF TypeOK
<1>1. ASSUME UNCHANGED <<rows, series>> PROVE Rewritten
  BY <1>1 DEF Rewritten
<1>2. CASE Create
  BY <1>2 DEF Create, Inserted
<1>3. ASSUME NEW c \in Clients, CloseWrite(c) PROVE Rewritten /\ touched' = touched
  <2>1. series' = series /\ touched' = touched /\ reqs[c].step = "close"
    BY <1>3 DEF CloseWrite, history
  <2>2. CASE ~Open(reqs[c].id)
    <3>1. rows' = rows
      BY <1>3, <2>2 DEF CloseWrite, TaskClose, Stored, Open, TypeOK
    <3> QED BY <1>1, <2>1, <3>1
  <2>3. CASE Open(reqs[c].id)
    <3>1. reqs[c].id \in DOMAIN rows /\ rows' = [rows EXCEPT ![reqs[c].id] = Closed(rows[reqs[c].id])]
      BY <1>3, <2>3 DEF CloseWrite, TaskClose, Stored, Open
    <3>2. /\ Closed(rows[reqs[c].id]).from = rows[reqs[c].id].from
          /\ Closed(rows[reqs[c].id]).rule = rows[reqs[c].id].rule
          /\ Closed(rows[reqs[c].id]).state = "checked"
      BY DEF Closed
    <3> QED BY <2>1, <3>1, <3>2, OneRowRewritten
  <2> QED BY <2>2, <2>3
<1>4. ASSUME NEW c \in Clients, RenewWrite(c)
      PROVE  touched' = touched /\ (Rewritten \/ \E new \in Ids \ DOMAIN rows : Continued(c, new))
  BY <1>1, <1>4 DEF RenewWrite, Renewable, Continued
<1>5. ASSUME NEW r \in DOMAIN rows, Update(r) PROVE Rewritten /\ touched \subseteq touched'
  <2>1. PICK rule \in Rules : rows' = [rows EXCEPT ![r].rule = rule]
    BY <1>5 DEF Update
  <2> DEFINE row == [rows[r] EXCEPT !.rule = rule]
  <2>2. row.from = rows[r].from /\ row.state = rows[r].state /\ rows' = [rows EXCEPT ![r] = row]
    BY <1>0, <2>1 DEF Row
  <2> HIDE DEF row
  <2>3. series' = series /\ "edited" \in touched' /\ touched \subseteq touched'
    BY <1>5 DEF Update
  <2> QED BY <2>2, <2>3, OneRowRewritten
<1>6. ASSUME NEW r \in DOMAIN rows, rows' = TaskReopen(r), series' = series, "reopened" \in touched'
      PROVE  Rewritten
  <2> DEFINE row == [rows[r] EXCEPT !.state = "open"]
  <2>1. row.from = rows[r].from /\ row.rule = rows[r].rule /\ row.state = "open" /\ rows' = [rows EXCEPT ![r] = row]
    BY <1>0, <1>6 DEF Row, TaskReopen
  <2> HIDE DEF row
  <2> QED BY <1>6, <2>1, OneRowRewritten
<1>7. ASSUME NEW r \in DOMAIN rows, Reopen(r) \/ DayEndReopen(r) PROVE Rewritten /\ touched \subseteq touched'
  BY <1>1, <1>6, <1>7 DEF Reopen, DayEndReopen
<1>8. ASSUME NEW r \in DOMAIN rows, Delete(r) PROVE Rewritten /\ touched' = touched
  <2> DEFINE row == [rows[r] EXCEPT !.state = "deleted"]
  <2>1. row.from = rows[r].from /\ row.rule = rows[r].rule /\ row.state = "deleted" /\ rows' = [rows EXCEPT ![r] = row]
    BY <1>0, <1>8 DEF Row, Delete
  <2> HIDE DEF row
  <2>2. series' = series /\ touched' = touched
    BY <1>8 DEF Delete, history
  <2> QED BY <2>1, <2>2, OneRowRewritten
<1>9. ASSUME \/ DayEndList \/ UNCHANGED vars
             \/ \E c \in Clients : CloseFails(c) \/ \E r \in DOMAIN rows : CloseRead(c, r)
      PROVE  Rewritten /\ touched' = touched
  BY <1>1, <1>9 DEF DayEndList, vars, history, CloseFails, CloseRead
<1>10. Create => touched' = touched
  BY DEF Create
<1> QED BY <1>2, <1>3, <1>4, <1>5, <1>7, <1>8, <1>9, <1>10 DEF Next

\* A next occurrence takes the place after the row it follows.
LEMMA NextPlace ==
  ASSUME TypeOK, Placed, NEW c \in Clients, NEW new \in Ids \ DOMAIN rows, Continued(c, new)
  PROVE  /\ reqs[c].id \in DOMAIN rows /\ new # reqs[c].id
         /\ DOMAIN rows' = DOMAIN rows \cup {new} /\ DOMAIN series' = DOMAIN rows'
         /\ rows'[new].state = "open" /\ rows'[new].rule = reqs[c].rule /\ rows'[new].from = reqs[c].id
         /\ rows'[reqs[c].id].state = "checked" /\ rows'[reqs[c].id].rule = rows[reqs[c].id].rule
         /\ \A x \in DOMAIN rows : x # reqs[c].id => rows'[x] = rows[x]
         /\ \A x \in DOMAIN rows : rows'[x].rule = rows[x].rule /\ rows'[x].from = rows[x].from
         /\ series'[new] \in Place /\ series'[new].first = series[reqs[c].id].first
         /\ series'[new].nth = series[reqs[c].id].nth + 1
         /\ \A x \in DOMAIN rows : series'[x] = series[x]
<1>1. reqs[c].id \in DOMAIN rows /\ new # reqs[c].id
  BY DEF Continued, Open
<1>2. DOMAIN rows' = DOMAIN rows \cup {new} /\ DOMAIN series' = DOMAIN rows'
  BY DEF Continued, Renewed
<1>3. /\ rows'[new] = NewRow(reqs[c].rule, reqs[c].id) /\ rows'[reqs[c].id] = Closed(rows[reqs[c].id])
      /\ \A x \in DOMAIN rows : x # reqs[c].id => rows'[x] = rows[x]
  BY <1>1 DEF Continued, Renewed
<1>4. series[reqs[c].id] \in Place
  BY <1>1 DEF Placed
<1>5. /\ series'[new] = [series[reqs[c].id] EXCEPT !.nth = @ + 1]
      /\ \A x \in DOMAIN rows : series'[x] = series[x]
  BY <1>2 DEF Continued
<1>6. /\ series'[new] \in Place /\ series'[new].first = series[reqs[c].id].first
      /\ series'[new].nth = series[reqs[c].id].nth + 1
  BY <1>4, <1>5 DEF Place
<1> QED BY <1>1, <1>2, <1>3, <1>5, <1>6 DEF NewRow, Closed

\* A new row starts a series of its own.
LEMMA FirstPlace ==
  ASSUME NEW new \in Ids \ DOMAIN rows, NEW rule \in Rules, Inserted(new, rule)
  PROVE  /\ DOMAIN rows' = DOMAIN rows \cup {new} /\ DOMAIN series' = DOMAIN rows'
         /\ rows'[new].state = "open" /\ rows'[new].rule = rule /\ rows'[new].from = 0
         /\ series'[new] \in Place /\ series'[new].first = new /\ series'[new].nth = 1
         /\ \A x \in DOMAIN rows : rows'[x] = rows[x] /\ series'[x] = series[x]
<1>1. DOMAIN rows' = DOMAIN rows \cup {new} /\ DOMAIN series' = DOMAIN rows'
  BY DEF Inserted
<1>2. rows'[new] = NewRow(rule, 0) /\ series'[new] = [first |-> new, nth |-> 1]
      /\ \A x \in DOMAIN rows : rows'[x] = rows[x] /\ series'[x] = series[x]
  BY <1>1 DEF Inserted
<1> QED BY <1>1, <1>2 DEF NewRow, Place

LEMMA PlacedNext ==
  ASSUME TypeOK, Placed, [Next]_vars
  PROVE  Placed'
<1>0. \A x \in DOMAIN rows : series[x] \in Place /\ series[x].first \in DOMAIN rows
  BY DEF Placed
<1>1. CASE Rewritten
  BY <1>1 DEF Rewritten, Placed
<1>2. ASSUME NEW new \in Ids \ DOMAIN rows, NEW rule \in Rules, Inserted(new, rule) PROVE Placed'
  <2>1. \A x \in DOMAIN rows' : series'[x] \in Place /\ series'[x].first \in DOMAIN rows'
    <3>1. /\ DOMAIN rows' = DOMAIN rows \cup {new} /\ series'[new] \in Place /\ series'[new].first = new
          /\ \A x \in DOMAIN rows : rows'[x] = rows[x] /\ series'[x] = series[x]
      BY <1>2, FirstPlace
    <3> QED BY <1>0, <3>1
  <2>2. series' = [x \in DOMAIN rows' |-> series'[x]]
    BY <1>2 DEF Inserted
  <2> QED BY <2>1, <2>2 DEF Placed
<1>3. ASSUME NEW c \in Clients, NEW new \in Ids \ DOMAIN rows, Continued(c, new) PROVE Placed'
  <2>1. \A x \in DOMAIN rows' : series'[x] \in Place /\ series'[x].first \in DOMAIN rows'
    <3>1. /\ DOMAIN rows' = DOMAIN rows \cup {new} /\ series'[new] \in Place /\ reqs[c].id \in DOMAIN rows
          /\ series'[new].first = series[reqs[c].id].first /\ \A x \in DOMAIN rows : series'[x] = series[x]
      BY <1>3, NextPlace
    <3> QED BY <1>0, <3>1
  <2>2. series' = [x \in DOMAIN rows' |-> series'[x]]
    BY <1>3 DEF Continued
  <2> QED BY <2>1, <2>2 DEF Placed
<1> QED BY <1>1, <1>2, <1>3, Steps

LEMMA OpensOneNext ==
  ASSUME TypeOK, Placed, ClosingOpensOne, [Next]_vars
  PROVE  ClosingOpensOne'
<1> SUFFICES ASSUME "reopened" \notin touched', NEW r \in DOMAIN rows', NEW s \in DOMAIN rows',
                    r # s, rows'[r].state = "open", rows'[s].state = "open"
             PROVE  series'[r].first # series'[s].first
  BY DEF ClosingOpensOne, OneOpenPerSeries, Open
<1>0. \A x, y \in DOMAIN rows : x # y /\ rows[x].state = "open" /\ rows[y].state = "open" => series[x].first # series[y].first
  BY Steps DEF ClosingOpensOne, OneOpenPerSeries, Open
<1>1. CASE Rewritten
  BY <1>0, <1>1 DEF Rewritten
<1>2. ASSUME NEW new \in Ids \ DOMAIN rows, NEW rule \in Rules, Inserted(new, rule) PROVE series'[r].first # series'[s].first
  <2>1. /\ DOMAIN rows' = DOMAIN rows \cup {new} /\ series'[new].first = new
        /\ \A x \in DOMAIN rows : rows'[x] = rows[x] /\ series'[x] = series[x]
    BY <1>2, FirstPlace
  <2>2. \A x \in DOMAIN rows : series[x].first # new
    BY DEF Placed
  <2>3. CASE r \in DOMAIN rows /\ s \in DOMAIN rows
    BY <1>0, <2>1, <2>3
  <2>4. CASE r = new \/ s = new
    BY <2>1, <2>2, <2>4
  <2> QED BY <2>1, <2>3, <2>4
<1>3. ASSUME NEW c \in Clients, NEW new \in Ids \ DOMAIN rows, Continued(c, new) PROVE series'[r].first # series'[s].first
  <2> DEFINE old == reqs[c].id
  <2>1. old \in DOMAIN rows /\ rows[old].state = "open" /\ rows'[old].state = "checked"
    BY <1>3, NextPlace DEF Continued, Open
  <2>2. \A x \in DOMAIN rows : x # old => rows'[x] = rows[x] /\ series'[x] = series[x]
    BY <1>3, NextPlace
  <2>3. DOMAIN rows' = DOMAIN rows \cup {new} /\ series'[new].first = series[old].first
    BY <1>3, NextPlace
  <2> HIDE DEF old
  <2> QED BY <1>0, <2>1, <2>2, <2>3
<1> QED BY <1>1, <1>2, <1>3, Steps

-----------------------------------------------------------------------------
(* What requests carry *)

LEMMA FitStays ==
  ASSUME NEW req, Fit(req), touched \subseteq touched', DOMAIN rows \subseteq DOMAIN rows',
         \A x \in DOMAIN rows : rows'[x].rule = rows[x].rule \/ "edited" \in touched'
  PROVE  Fit(req)'
BY DEF Fit

LEMMA AskedNext ==
  ASSUME TypeOK, Placed, Asked, [Next]_vars
  PROVE  Asked'
<1>1. /\ touched \subseteq touched' /\ DOMAIN rows \subseteq DOMAIN rows'
      /\ \A x \in DOMAIN rows : rows'[x].rule = rows[x].rule \/ "edited" \in touched'
  <2>1. ASSUME NEW new \in Ids \ DOMAIN rows, NEW rule \in Rules, Inserted(new, rule)
        PROVE  DOMAIN rows \subseteq DOMAIN rows' /\ \A x \in DOMAIN rows : rows'[x].rule = rows[x].rule
    BY <2>1, FirstPlace
  <2>2. ASSUME NEW c \in Clients, NEW new \in Ids \ DOMAIN rows, Continued(c, new)
        PROVE  DOMAIN rows \subseteq DOMAIN rows' /\ \A x \in DOMAIN rows : rows'[x].rule = rows[x].rule
    <3>1. DOMAIN rows' = DOMAIN rows \cup {new} /\ \A x \in DOMAIN rows : rows'[x].rule = rows[x].rule
      BY <2>2, NextPlace
    <3> QED BY <3>1
  <2> QED BY <2>1, <2>2, Steps DEF Rewritten
<1>2. \A req : Fit(req) => Fit(req)'
  BY <1>1, FitStays
<1>3. Fit(IdleRequest)'
  BY DEF Fit, IdleRequest
<1>4. ASSUME NEW c \in Clients, NEW r \in DOMAIN rows, CloseRead(c, r) PROVE Asked'
  <2>1. rows[r] \in Row /\ reqs \in [Clients -> Requests] /\ UNCHANGED <<rows, touched>>
    BY <1>4 DEF TypeOK, CloseRead, history
  <2>2. Fit(reqs[c])'
    <3>1. CASE ~rows[r].rule.repeats \/ rows[r].rule.last \/ NextLeft(rows[r].rule.left) = {}
      <4>1. reqs'[c] = [step |-> "close", id |-> r]
        BY <1>4, <2>1, <3>1 DEF CloseRead
      <4>2. EndsHere(rows[r].rule)
        BY <2>1, <3>1, SeriesAssumption DEF EndsHere, NextLeft, Row, Rules
      <4>3. reqs'[c].step = "close" /\ reqs'[c].id = r
        BY <4>1
      <4> QED BY <2>1, <4>2, <4>3 DEF Fit
    <3>2. CASE ~(~rows[r].rule.repeats \/ rows[r].rule.last \/ NextLeft(rows[r].rule.left) = {})
      <4>1. PICK left \in NextLeft(rows[r].rule.left), last \in BOOLEAN :
              reqs'[c] = [step |-> "renew", id |-> r, rule |-> [repeats |-> TRUE, left |-> left, last |-> last]]
        BY <1>4, <2>1, <3>2 DEF CloseRead
      <4>2. reqs'[c].step = "renew" /\ reqs'[c].id = r /\ reqs'[c].rule.left = left
        BY <4>1
      <4> QED BY <2>1, <4>1, <4>2 DEF Fit
    <3> QED BY <3>1, <3>2
  <2>3. \A d \in Clients : d # c => reqs'[d] = reqs[d]
    BY <1>4, <2>1 DEF CloseRead
  <2>4. \A d \in Clients : d # c => Fit(reqs[d])'
    BY <1>2, <2>3 DEF Asked
  <2> QED BY <2>2, <2>4 DEF Asked
<1>5. ASSUME \/ UNCHANGED reqs \/ \E c \in Clients : reqs' = [reqs EXCEPT ![c] = IdleRequest]
      PROVE  Asked'
  <2>1. \A d \in Clients : reqs'[d] = reqs[d] \/ reqs'[d] = IdleRequest
    BY <1>5 DEF TypeOK
  <2> QED BY <1>2, <1>3, <2>1 DEF Asked
<1>6. ASSUME NEW c \in Clients, CloseWrite(c) \/ RenewWrite(c) \/ CloseFails(c) PROVE Asked'
  BY <1>5, <1>6 DEF CloseWrite, RenewWrite, CloseFails
<1>7. CASE \/ Create \/ DayEndList \/ UNCHANGED vars
           \/ \E r \in DOMAIN rows : Update(r) \/ Reopen(r) \/ Delete(r) \/ DayEndReopen(r)
  BY <1>5, <1>7 DEF Create, DayEndList, vars, Update, Reopen, Delete, DayEndReopen
<1> QED BY <1>4, <1>6, <1>7 DEF Next

-----------------------------------------------------------------------------
(* COUNT *)

LEMMA CountNext ==
  ASSUME TypeOK, Placed, Asked, ClosingKeepsCount, [Next]_vars, "edited" \notin touched'
  PROVE  WithinCount'
<1>0. WithinCount /\ "edited" \notin touched
  BY Steps DEF ClosingKeepsCount
<1>1. \A x \in DOMAIN rows : /\ series[x] \in Place /\ series[x].first \in DOMAIN rows
                             /\ rows[x].rule.left \in Nat
  BY DEF Placed, TypeOK, Row, Rules
<1> DEFINE Count(x) == rows[series[x].first].rule.left
           Kept(x) == /\ Count(x) = 0 <=> rows[x].rule.left = 0
                      /\ rows[x].rule.left > 0 => series[x].nth + rows[x].rule.left = Count(x) + 1
<1>2. \A x \in DOMAIN rows : Kept(x)
  BY <1>0 DEF WithinCount
<1>3. SUFFICES \A x \in DOMAIN rows' : Kept(x)'
  BY DEF WithinCount
<1>4. CASE Rewritten
  <2>1. DOMAIN rows' = DOMAIN rows /\ series' = series /\ \A x \in DOMAIN rows : rows'[x].rule = rows[x].rule
    BY <1>4 DEF Rewritten
  <2> QED BY <1>1, <1>2, <2>1
<1>5. ASSUME NEW new \in Ids \ DOMAIN rows, NEW rule \in Rules, Inserted(new, rule)
      PROVE  \A x \in DOMAIN rows' : Kept(x)'
  <2>1. /\ DOMAIN rows' = DOMAIN rows \cup {new} /\ series'[new].first = new /\ series'[new].nth = 1
        /\ rows'[new].rule = rule /\ rule.left \in Nat
        /\ \A x \in DOMAIN rows : rows'[x] = rows[x] /\ series'[x] = series[x]
    BY <1>5, FirstPlace DEF Rules
  <2>2. Kept(new)'
    BY <2>1
  <2>3. \A x \in DOMAIN rows : Kept(x)'
    BY <1>1, <1>2, <2>1
  <2> QED BY <2>1, <2>2, <2>3
<1>6. ASSUME NEW c \in Clients, NEW new \in Ids \ DOMAIN rows, Continued(c, new)
      PROVE  \A x \in DOMAIN rows' : Kept(x)'
  <2>1. /\ DOMAIN rows' = DOMAIN rows \cup {new} /\ reqs[c].id \in DOMAIN rows
        /\ rows'[new].rule = reqs[c].rule /\ series'[new].first = series[reqs[c].id].first
        /\ series'[new].nth = series[reqs[c].id].nth + 1
        /\ \A x \in DOMAIN rows : rows'[x].rule = rows[x].rule
        /\ \A x \in DOMAIN rows : series'[x] = series[x]
    BY <1>6, NextPlace
  <2>2. reqs[c].rule.left \in NextLeft(rows[reqs[c].id].rule.left)
    BY <1>0, <1>6 DEF Asked, Fit, Continued
  <2>3. LET left == rows[reqs[c].id].rule.left IN
        left \in Nat /\ left # 1 /\ reqs[c].rule.left = IF left = 0 THEN 0 ELSE left - 1
    BY <1>1, <2>1, <2>2 DEF NextLeft
  <2>4. Kept(reqs[c].id) /\ series[reqs[c].id].nth \in Nat /\ Count(reqs[c].id) \in Nat
    BY <1>1, <1>2, <2>1 DEF Place
  <2>5. Count(new)' = Count(reqs[c].id) /\ rows'[new].rule.left = reqs[c].rule.left
    BY <1>1, <2>1
  <2> HIDE DEF Count
  <2>6. Kept(new)'
    BY <2>1, <2>3, <2>4, <2>5
  <2> USE DEF Count
  <2>7. ASSUME NEW x \in DOMAIN rows PROVE Kept(x)'
    <3>1. Count(x)' = Count(x) /\ rows'[x].rule.left = rows[x].rule.left /\ series'[x].nth = series[x].nth
      BY <1>1, <2>1
    <3>2. Kept(x)
      BY <1>2
    <3> HIDE DEF Count
    <3> QED BY <3>1, <3>2
  <2> QED BY <2>1, <2>6, <2>7
<1> QED BY <1>4, <1>5, <1>6, Steps

LEMMA GoesOnNext ==
  ASSUME TypeOK, Placed, Asked, ClosingKeepsCount, [Next]_vars, "edited" \notin touched'
  PROVE  SeriesGoesOn'
<1>0. SeriesGoesOn /\ "edited" \notin touched
  BY Steps DEF ClosingKeepsCount
<1>1. SUFFICES ASSUME NEW r \in DOMAIN rows', rows'[r].state = "checked", ~EndsHere(rows'[r].rule)
               PROVE  \E s \in DOMAIN rows' : rows'[s].from = r
  BY DEF SeriesGoesOn, EndsHere, NextOf
<1>2. \A x \in DOMAIN rows : rows[x].state = "checked" /\ ~EndsHere(rows[x].rule) => \E s \in DOMAIN rows : rows[s].from = x
  BY <1>0 DEF SeriesGoesOn, EndsHere, NextOf
<1>3. CASE Rewritten
  <2>1. r \in DOMAIN rows /\ rows'[r].rule = rows[r].rule /\ DOMAIN rows' = DOMAIN rows
    BY <1>3 DEF Rewritten
  <2>2. rows[r].state = "checked"
    <3>1. ASSUME NEW c \in Clients, reqs[c].step = "close", reqs[c].id = r PROVE EndsHere(rows[r].rule)
      BY <1>0, <3>1 DEF Asked, Fit
    <3> QED BY <1>1, <1>3, <2>1, <3>1 DEF Rewritten
  <2> QED BY <1>1, <1>2, <1>3, <2>1, <2>2 DEF Rewritten
<1>4. ASSUME NEW new \in Ids \ DOMAIN rows, NEW rule \in Rules, Inserted(new, rule)
      PROVE  \E s \in DOMAIN rows' : rows'[s].from = r
  <2>1. /\ DOMAIN rows' = DOMAIN rows \cup {new} /\ rows'[new].state = "open"
        /\ \A x \in DOMAIN rows : rows'[x] = rows[x]
    BY <1>4, FirstPlace
  <2> QED BY <1>1, <1>2, <2>1
<1>5. ASSUME NEW c \in Clients, NEW new \in Ids \ DOMAIN rows, Continued(c, new)
      PROVE  \E s \in DOMAIN rows' : rows'[s].from = r
  <2>1. /\ DOMAIN rows' = DOMAIN rows \cup {new} /\ rows'[new].state = "open" /\ rows'[new].from = reqs[c].id
        /\ \A x \in DOMAIN rows : x # reqs[c].id => rows'[x] = rows[x]
        /\ \A x \in DOMAIN rows : rows'[x].rule = rows[x].rule /\ rows'[x].from = rows[x].from
    BY <1>5, NextPlace
  <2>2. CASE r = reqs[c].id
    BY <2>1, <2>2
  <2>3. CASE r # reqs[c].id
    BY <1>1, <1>2, <2>1, <2>3
  <2> QED BY <2>2, <2>3
<1> QED BY <1>3, <1>4, <1>5, Steps

SeriesInv == Placed /\ Asked /\ ClosingOpensOne /\ ClosingKeepsCount

LEMMA SeriesInductive == Spec => []SeriesInv
<1>1. Init => SeriesInv
  BY DEF Init, SeriesInv, Placed, Asked, Fit, IdleRequest, ClosingOpensOne, OneOpenPerSeries, ClosingKeepsCount,
         WithinCount, SeriesGoesOn
<1>2. TypeOK /\ SeriesInv /\ [Next]_vars => SeriesInv'
  BY PlacedNext, AskedNext, OpensOneNext, CountNext, GoesOnNext DEF SeriesInv, ClosingKeepsCount
<1> QED BY <1>1, <1>2, SeriesTyped, PTL DEF Spec

\* However many requests close, delete and edit a repeating task at once: as long as
\* nobody reopens a row, its series has one open row at most. The update of
\* CloseRecurringAndCreateNext finds the row still open, or nothing is inserted.
THEOREM ClosingOpensNextOne == Spec => []ClosingOpensOne
<1>1. SeriesInv => ClosingOpensOne
  BY DEF SeriesInv
<1> QED BY <1>1, SeriesInductive, PTL

\* As long as nobody edits a rule, the COUNT of every row and its number in the
\* series add up to the COUNT asked for, and a series that is to go on goes on
\* (recurrenceForNextOccurrence), whatever is reopened, deleted or fails.
THEOREM ClosingKeepsToCount == Spec => []ClosingKeepsCount
<1>1. SeriesInv => ClosingKeepsCount
  BY DEF SeriesInv
<1> QED BY <1>1, SeriesInductive, PTL

-----------------------------------------------------------------------------
(* The task dialog of the home page (HomeTaskDialog, as ClientPages!Home), for  *)
(* every number of tasks, projects, sections and saves at a time.               *)

HomeRowTypes == [project : HomeProjects, section : Home!Sections \cup {Nil}, prio : Levels, live : BOOLEAN]
HomeFormTypes == [project : HomeProjects, section : Home!Sections \cup {Nil}, prio : Levels, title : HomeProjects \cup {Nil}]
HomeSaveTypes == [task : HomeTasks, step : {"place", "parse", "patch"}, at : {"sent", "done", "refused"}, row : HomeRowTypes \cup {Nil},
                  project : HomeProjects, section : Home!Sections \cup {Nil}, prio : Levels \cup {Nil},
                  title : HomeProjects \cup {Nil}, live : BOOLEAN, typed : HomeFormTypes, was : BOOLEAN, clean : BOOLEAN]
HomeAskTypes == [op : {"preview", "activate"}, task : HomeTasks, at : {"sent", "done"}, live : BOOLEAN]
HomeListTypes == [project : HomeProjects, new : Home!Sections \cup {Nil}, at : {"sent", "done"}, items : SUBSET Home!Sections, shown : BOOLEAN]
HomePreviewTypes == [task : HomeTasks, live : BOOLEAN]

HomeSaveOK(j) ==
  /\ j.step = "place" /\ j.at = "done" => j.row \in HomeRowTypes
  /\ j.step = "patch" => j.prio \in Levels
  /\ j.step = "parse" => j.title # Nil

HomeStoreTypes ==
  /\ homeRows \in [HomeTasks -> HomeRowTypes] /\ homeTasks \in [HomeTasks -> HomeRowTypes]
  /\ homeExists \subseteq Home!Sections /\ homeSections \subseteq homeExists
  /\ homeDetail \in HomeTasks \cup {Nil} /\ homePreview \in HomePreviewTypes \cup {Nil}
  /\ homeAsks \subseteq HomeAskTypes /\ homeCrossed \in BOOLEAN /\ homeMixed \in BOOLEAN
HomeListsTyped ==
  /\ homeLists \subseteq HomeListTypes
  /\ \A l \in homeLists : l.items \subseteq homeExists /\ (l.new # Nil /\ l.at = "done" => l.new \in homeExists)
HomeSavesTyped ==
  /\ homeSaves \in [Chains -> HomeSaveTypes \cup {Nil}]
  /\ \A s \in Chains : homeSaves[s] # Nil => HomeSaveOK(homeSaves[s])
HomeNoForm == [project |-> Nil, section |-> Nil, prio |-> Nil, title |-> Nil]
HomeFormTyped ==
  \/ homeForm \in HomeFormTypes
  \/ homeForm = HomeNoForm /\ homeDetail = Nil /\ homeLists = {} /\ \A s \in Chains : homeSaves[s] = Nil

HomeDialogTypes == HomeStoreTypes /\ HomeListsTyped /\ HomeSavesTyped /\ HomeFormTyped

\* Nothing says of a task that it is live before it was activated.
HomeSavesEarned ==
  \A s \in Chains : homeSaves[s] # Nil =>
    /\ homeSaves[s].step = "place" /\ homeSaves[s].at = "done" /\ homeSaves[s].row.live => homeSaves[s].task \in homeActivated
    /\ homeSaves[s].step = "patch" /\ homeSaves[s].live => homeSaves[s].task \in homeActivated
HomeMarksEarned ==
  ~homeCrossed =>
    /\ \A t \in HomeTasks : (homeRows[t].live \/ homeTasks[t].live) => t \in homeActivated
    /\ \A a \in homeAsks : a.at = "done" /\ a.live => a.task \in homeActivated
    /\ homePreview # Nil /\ homePreview.live => homePreview.task \in homeActivated
    /\ HomeSavesEarned

HomeTarget(f) == IF f.title # Nil THEN f.title ELSE f.project
HomeFormSaid(r, f) == r.project = HomeTarget(f) /\ r.section = f.section /\ r.prio = f.prio

\* How far a save has come that nothing came between.
HomeCleanSave(j) ==
  LET row == homeRows[j.task] IN
  /\ homeDetail = j.task /\ ~\E a \in homeAsks : a.op = "activate"
  /\ homeForm.project = j.typed.project /\ homeForm.prio = j.typed.prio /\ homeForm.title = j.typed.title
  /\ j.step = "place" /\ j.at = "sent" =>
       j.project = j.typed.project /\ j.section = j.typed.section /\ homeTasks[j.task] = row /\ j.was = row.live
  /\ j.step = "place" /\ j.at = "done" => j.row = row /\ row.section = j.typed.section /\ j.was = row.live
  /\ j.step = "parse" => /\ j.title = j.typed.title /\ homeTasks[j.task] = row
                         /\ row.section = j.typed.section /\ j.was = row.live
  /\ j.step = "patch" => /\ row.section = j.typed.section /\ j.at # "refused"
                         /\ j.at = "sent" => /\ j.project = HomeTarget(j.typed) /\ j.prio = j.typed.prio
                                             /\ j.was /\ j.project \in LiveProjects => j.live
                         /\ j.at = "done" => /\ HomeFormSaid(row, j.typed)
                                             /\ j.was /\ row.project \in LiveProjects => row.live

HomeCleanSaves ==
  \A s \in Chains : homeSaves[s] # Nil /\ homeSaves[s].clean =>
    HomeCleanSave(homeSaves[s]) /\ \A r \in Chains : r # s => homeSaves[r] = Nil

\* The sections that rows and the form name exist.
HomeSectionsThere ==
  /\ homeForm.section # Nil => homeForm.section \in homeExists
  /\ \A t \in HomeTasks : homeTasks[t].section # Nil => homeTasks[t].section \in homeExists
  /\ \A t \in HomeTasks : homeRows[t].section # Nil => homeRows[t].section \in homeExists
  /\ \A s \in Chains : homeSaves[s] # Nil /\ homeSaves[s].step = "place" /\ homeSaves[s].at = "done" /\ homeSaves[s].row.section # Nil =>
       homeSaves[s].row.section \in homeExists

\* With never two lists under way, the one that is, is of the project of the form, and whole.
HomeOneList ==
  ~homeMixed => \A l \in homeLists :
    /\ homeLists = {l} /\ (homeDetail # Nil => l.project = homeForm.project)
    /\ l.at = "done" => l.items = {x \in homeExists : x.project = l.project}

HomeInv == HomeDialogTypes /\ Home!PreviewOfShownTask /\ HomeMarksEarned /\ HomeCleanSaves /\ HomeSectionsThere /\ HomeOneList
-----------------------------------------------------------------------------
LEMMA InitHome ==
  ASSUME HomeAssumption, Home!Init
  PROVE  HomeInv
<1>1. homeRows \in [HomeTasks -> [project : HomeProjects, section : Home!Sections \cup {Nil}, prio : Levels, live : {FALSE}]]
  BY DEF Home!Init
<1>2. homeRows \in [HomeTasks -> HomeRowTypes] /\ \A t \in HomeTasks : ~homeRows[t].live
  BY <1>1 DEF HomeRowTypes
<1>3. HomeStoreTypes
  BY <1>2 DEF Home!Init, HomeStoreTypes
<1>4. HomeListsTyped /\ HomeSavesTyped /\ HomeFormTyped
  BY DEF Home!Init, HomeListsTyped, HomeSavesTyped, HomeFormTyped, HomeNoForm
<1>5. Home!PreviewOfShownTask /\ HomeMarksEarned /\ HomeCleanSaves
  BY <1>2 DEF Home!Init, Home!PreviewOfShownTask, HomeMarksEarned, HomeSavesEarned, HomeCleanSaves
<1>6. HomeSectionsThere /\ HomeOneList
  BY DEF Home!Init, HomeSectionsThere, HomeOneList
<1> QED BY <1>3, <1>4, <1>5, <1>6 DEF HomeInv, HomeDialogTypes

-----------------------------------------------------------------------------
(* What the parts of an action do to the invariant. *)

LEMMA DisturbedSaves ==
  ASSUME HomeInv, homeSaves' = Home!Disturbed, UNCHANGED <<homeRows, homeActivated>>
  PROVE  /\ HomeSavesTyped' /\ HomeCleanSaves' /\ (HomeSavesEarned => HomeSavesEarned')
         /\ \A s \in Chains : homeSaves'[s] # Nil =>
              /\ homeSaves[s] # Nil /\ homeSaves'[s].step = homeSaves[s].step /\ homeSaves'[s].at = homeSaves[s].at
              /\ homeSaves'[s].row = homeSaves[s].row
<1>1. ASSUME NEW s \in Chains
      PROVE  homeSaves'[s] = IF homeSaves[s] # Nil THEN [homeSaves[s] EXCEPT !.clean = FALSE] ELSE Nil
  BY DEF Home!Disturbed
<1>2. ASSUME NEW s \in Chains, homeSaves[s] # Nil
      PROVE  /\ homeSaves'[s] \in HomeSaveTypes /\ homeSaves'[s].clean = FALSE /\ homeSaves'[s].step = homeSaves[s].step
             /\ homeSaves'[s].at = homeSaves[s].at /\ homeSaves'[s].row = homeSaves[s].row /\ homeSaves'[s].prio = homeSaves[s].prio
             /\ homeSaves'[s].title = homeSaves[s].title /\ homeSaves'[s].task = homeSaves[s].task /\ homeSaves'[s].live = homeSaves[s].live
  BY <1>1, <1>2 DEF HomeInv, HomeDialogTypes, HomeSavesTyped, HomeSaveTypes
<1>3. homeSaves' = [s \in Chains |-> homeSaves'[s]]
  BY DEF Home!Disturbed
<1>4. ASSUME NEW s \in Chains, homeSaves'[s] # Nil
      PROVE  homeSaves[s] # Nil
  BY <1>1, <1>4
<1>5. HomeSavesTyped'
  <2>1. ASSUME NEW s \in Chains
        PROVE  homeSaves'[s] \in HomeSaveTypes \cup {Nil} /\ (homeSaves'[s] # Nil => HomeSaveOK(homeSaves'[s]))
    BY <1>1, <1>2 DEF HomeInv, HomeDialogTypes, HomeSavesTyped, HomeSaveOK
  <2> QED BY <2>1, <1>3 DEF HomeSavesTyped, HomeSaveOK
<1>6. HomeCleanSaves'
  BY <1>2, <1>4 DEF HomeCleanSaves
<1>7. HomeSavesEarned => HomeSavesEarned'
  BY <1>2, <1>4 DEF HomeSavesEarned
<1> QED BY <1>2, <1>4, <1>5, <1>6, <1>7

LEMMA SetSave ==
  ASSUME HomeSavesTyped, NEW s \in Chains, NEW v, homeSaves' = Home!Set(s, v), v \in HomeSaveTypes \cup {Nil}, v # Nil => HomeSaveOK(v)
  PROVE  /\ HomeSavesTyped'
         /\ \A r \in Chains : homeSaves'[r] = IF r = s THEN v ELSE homeSaves[r]
<1>1. \A r \in Chains : homeSaves'[r] = IF r = s THEN v ELSE homeSaves[r]
  BY DEF HomeSavesTyped, Home!Set
<1>2. homeSaves' \in [Chains -> HomeSaveTypes \cup {Nil}]
  BY DEF HomeSavesTyped, Home!Set
<1> QED BY <1>1, <1>2 DEF HomeSavesTyped, HomeSaveOK

LEMMA ListSent ==
  ASSUME HomeStoreTypes, HomeListsTyped, NEW p \in HomeProjects, NEW new \in Home!Sections \cup {Nil}, Home!Sends(Home!List(p, new)), homeExists' = homeExists
  PROVE  /\ HomeListsTyped' /\ homeMixed' \in BOOLEAN
         /\ ~homeMixed' => \A l \in homeLists' : homeLists' = {l} /\ l.project = p /\ l.at = "sent"
<1>1. Home!List(p, new) \in HomeListTypes /\ Home!List(p, new).items = {} /\ Home!List(p, new).at = "sent" /\ Home!List(p, new).project = p
  BY DEF Home!List, HomeListTypes
<1>2. homeLists' = homeLists \cup {Home!List(p, new)} /\ homeMixed' = (homeMixed \/ homeLists # {})
  BY DEF Home!Sends
<1> QED BY <1>1, <1>2 DEF HomeStoreTypes, HomeListsTyped

LEMMA HiddenLists ==
  ASSUME HomeInv, homeLists' = Home!Hidden, homeDetail' = Nil, UNCHANGED <<homeExists, homeMixed>>
  PROVE  HomeListsTyped' /\ HomeOneList'
<1>1. ASSUME NEW l \in homeLists
      PROVE  /\ [l EXCEPT !.shown = FALSE] \in HomeListTypes /\ [l EXCEPT !.shown = FALSE].project = l.project
             /\ [l EXCEPT !.shown = FALSE].at = l.at /\ [l EXCEPT !.shown = FALSE].items = l.items
             /\ [l EXCEPT !.shown = FALSE].new = l.new
  BY DEF HomeInv, HomeDialogTypes, HomeListsTyped, HomeListTypes
<1>2. HomeListsTyped'
  <2>1. ASSUME NEW k \in homeLists'
        PROVE  k \in HomeListTypes /\ k.items \subseteq homeExists /\ (k.new # Nil /\ k.at = "done" => k.new \in homeExists)
    <3>1. PICK l \in homeLists : k = [l EXCEPT !.shown = FALSE]
      BY DEF Home!Hidden
    <3> QED BY <3>1, <1>1 DEF HomeInv, HomeDialogTypes, HomeListsTyped
  <2> QED BY <2>1 DEF HomeListsTyped
<1>3. HomeOneList'
  <2> SUFFICES ASSUME ~homeMixed, NEW k \in homeLists'
               PROVE  homeLists' = {k} /\ (k.at = "done" => k.items = {x \in homeExists : x.project = k.project})
    BY DEF HomeOneList
  <2>1. PICK l \in homeLists : k = [l EXCEPT !.shown = FALSE]
    BY DEF Home!Hidden
  <2>2. homeLists = {l} /\ (l.at = "done" => l.items = {x \in homeExists : x.project = l.project})
    BY DEF HomeInv, HomeOneList
  <2>3. homeLists' = {k}
    BY <2>1, <2>2 DEF Home!Hidden
  <2> QED BY <2>1, <2>2, <2>3, <1>1
<1> QED BY <1>2, <1>3

\* With the rows, the marks and the preview left alone, what is said of live tasks is still earned.
LEMMA MarksStay ==
  ASSUME HomeMarksEarned, UNCHANGED <<homeRows, homeTasks, homeActivated>>, homeCrossed => homeCrossed', HomeSavesEarned => HomeSavesEarned',
         homePreview' \in {homePreview, Nil}, \A a \in homeAsks' : a.at = "done" => a \in homeAsks
  PROVE  HomeMarksEarned'
BY DEF HomeMarksEarned

-----------------------------------------------------------------------------
(* Gestures *)

LEMMA OpenKeeps ==
  ASSUME HomeInv, NEW t \in HomeTasks, Home!openDetailModal(t)
  PROVE  HomeInv'
<1> USE DEF HomeInv, HomeDialogTypes
<1>1. /\ homeDetail = Nil /\ homeDetail' = t /\ homePreview' = Nil /\ homeSaves' = Home!Disturbed /\ homeSections' = {}
      /\ homeForm' = [project |-> homeTasks[t].project, section |-> homeTasks[t].section, prio |-> homeTasks[t].prio, title |-> Nil]
      /\ homeAsks' = (IF homeTasks[t].project \in LiveProjects THEN homeAsks \cup {Home!Ask("preview", t)} ELSE homeAsks)
      /\ Home!Sends(Home!List(homeTasks[t].project, Nil)) /\ UNCHANGED <<homeRows, homeExists, homeTasks, homeActivated, homeCrossed>>
  BY DEF Home!openDetailModal, Home!service
<1>2. homeTasks[t] \in HomeRowTypes /\ homeTasks[t].project \in HomeProjects
  BY DEF HomeStoreTypes, HomeRowTypes
<1>3. /\ HomeListsTyped' /\ homeMixed' \in BOOLEAN
      /\ ~homeMixed' => \A l \in homeLists' : homeLists' = {l} /\ l.project = homeTasks[t].project /\ l.at = "sent"
  BY <1>1, <1>2, ListSent
<1>4. Home!Ask("preview", t) \in HomeAskTypes /\ Home!Ask("preview", t).at = "sent"
  BY DEF Home!Ask, HomeAskTypes
<1>5. HomeStoreTypes'
  BY <1>1, <1>3, <1>4 DEF HomeStoreTypes
<1>6. homeForm' \in HomeFormTypes /\ homeForm'.project = homeTasks[t].project /\ homeForm'.section = homeTasks[t].section
  BY <1>1, <1>2 DEF HomeFormTypes, HomeRowTypes
<1> HIDE DEF HomeInv, HomeDialogTypes
<1>7. /\ HomeSavesTyped' /\ HomeCleanSaves' /\ (HomeSavesEarned => HomeSavesEarned')
      /\ \A s \in Chains : homeSaves'[s] # Nil =>
           /\ homeSaves[s] # Nil /\ homeSaves'[s].step = homeSaves[s].step /\ homeSaves'[s].at = homeSaves[s].at
           /\ homeSaves'[s].row = homeSaves[s].row
  BY <1>1, DisturbedSaves
<1>8. HomeMarksEarned'
  <2>1. \A a \in homeAsks' : a.at = "done" => a \in homeAsks
    BY <1>1, <1>4
  <2> QED BY <2>1, <1>1, <1>7, MarksStay DEF HomeInv
<1>9. HomeSectionsThere'
  BY <1>1, <1>6, <1>7 DEF HomeInv, HomeSectionsThere
<1>10. HomeOneList'
  BY <1>3, <1>6 DEF HomeOneList
<1>11. Home!PreviewOfShownTask' /\ HomeFormTyped'
  BY <1>1, <1>6 DEF Home!PreviewOfShownTask, HomeFormTyped
<1> QED BY <1>3, <1>5, <1>7, <1>8, <1>9, <1>10, <1>11 DEF HomeInv, HomeDialogTypes

LEMMA CloseKeeps ==
  ASSUME HomeInv, Home!closeDetailModal
  PROVE  HomeInv'
<1>1. /\ homeDetail # Nil /\ homeDetail' = Nil /\ homePreview' = Nil /\ homeSaves' = Home!Disturbed /\ homeLists' = Home!Hidden
      /\ UNCHANGED <<homeRows, homeExists, homeTasks, homeForm, homeSections, homeAsks, homeActivated, homeCrossed, homeMixed>>
  BY DEF Home!closeDetailModal, Home!service, Home!picker, Home!history
<1>2. HomeListsTyped' /\ HomeOneList'
  BY <1>1, HiddenLists
<1>3. HomeStoreTypes'
  BY <1>1 DEF HomeInv, HomeDialogTypes, HomeStoreTypes
<1>4. /\ HomeSavesTyped' /\ HomeCleanSaves' /\ (HomeSavesEarned => HomeSavesEarned')
      /\ \A s \in Chains : homeSaves'[s] # Nil =>
           /\ homeSaves[s] # Nil /\ homeSaves'[s].step = homeSaves[s].step /\ homeSaves'[s].at = homeSaves[s].at
           /\ homeSaves'[s].row = homeSaves[s].row
  BY <1>1, DisturbedSaves
<1>5. HomeMarksEarned'
  BY <1>1, <1>4, MarksStay DEF HomeInv
<1>6. HomeSectionsThere'
  BY <1>1, <1>4 DEF HomeInv, HomeSectionsThere
<1>7. Home!PreviewOfShownTask' /\ HomeFormTyped'
  BY <1>1 DEF HomeInv, HomeDialogTypes, Home!PreviewOfShownTask, HomeFormTyped
<1> QED BY <1>2, <1>3, <1>4, <1>5, <1>6, <1>7 DEF HomeInv, HomeDialogTypes

\* A gesture that leaves the dialog open and changes its form or what is under way.
LEMMA OpenStays ==
  ASSUME HomeInv, homeDetail # Nil, homeSaves' = Home!Disturbed, homeForm' \in HomeFormTypes,
         homeForm'.section # Nil => homeForm'.section \in homeExists,
         UNCHANGED <<homeRows, homeExists, homeTasks, homeDetail, homePreview, homeSections, homeActivated, homeCrossed>>,
         homeAsks' \subseteq HomeAskTypes, \A a \in homeAsks' : a.at = "done" => a \in homeAsks,
         HomeListsTyped', HomeOneList', homeMixed' \in BOOLEAN
  PROVE  HomeInv'
<1>1. HomeStoreTypes'
  BY DEF HomeInv, HomeDialogTypes, HomeStoreTypes
<1>2. /\ HomeSavesTyped' /\ HomeCleanSaves' /\ (HomeSavesEarned => HomeSavesEarned')
      /\ \A s \in Chains : homeSaves'[s] # Nil =>
           /\ homeSaves[s] # Nil /\ homeSaves'[s].step = homeSaves[s].step /\ homeSaves'[s].at = homeSaves[s].at
           /\ homeSaves'[s].row = homeSaves[s].row
  BY DisturbedSaves
<1>3. HomeMarksEarned'
  BY <1>2, MarksStay DEF HomeInv
<1>4. HomeSectionsThere'
  BY <1>2 DEF HomeInv, HomeSectionsThere
<1>5. Home!PreviewOfShownTask' /\ HomeFormTyped'
  BY DEF HomeInv, Home!PreviewOfShownTask, HomeFormTyped
<1> QED BY <1>1, <1>2, <1>3, <1>4, <1>5 DEF HomeInv, HomeDialogTypes

LEMMA OpenForm ==
  ASSUME HomeInv, homeDetail # Nil
  PROVE  homeForm \in HomeFormTypes /\ homeAsks \subseteq HomeAskTypes /\ HomeStoreTypes /\ HomeListsTyped /\ HomeSectionsThere /\ HomeOneList
BY DEF HomeInv, HomeDialogTypes, HomeFormTyped, HomeStoreTypes

LEMMA ProjectKeeps ==
  ASSUME HomeInv, NEW p \in HomeProjects, Home!selectProject(p)
  PROVE  HomeInv'
<1>1. /\ homeDetail # Nil /\ homeForm' = [homeForm EXCEPT !.project = p, !.section = Nil] /\ homeSaves' = Home!Disturbed
      /\ Home!Sends(Home!List(p, Nil)) /\ UNCHANGED <<homeRows, homeExists, homeTasks, homeDetail, homePreview, homeSections, homeAsks, homeActivated, homeCrossed>>
  BY DEF Home!selectProject, Home!service
<1>2. homeForm' \in HomeFormTypes /\ homeForm'.section = Nil /\ homeForm'.project = p
  BY <1>1, OpenForm DEF HomeFormTypes
<1>3. /\ HomeListsTyped' /\ homeMixed' \in BOOLEAN
      /\ ~homeMixed' => \A l \in homeLists' : homeLists' = {l} /\ l.project = p /\ l.at = "sent"
  BY <1>1, ListSent, OpenForm
<1>4. HomeOneList'
  BY <1>2, <1>3 DEF HomeOneList
<1>5. homeAsks' \subseteq HomeAskTypes /\ \A a \in homeAsks' : a.at = "done" => a \in homeAsks
  BY <1>1, OpenForm
<1> QED BY <1>1, <1>2, <1>3, <1>4, <1>5, OpenStays

LEMMA EditKeeps ==
  ASSUME HomeInv, NEW f \in HomeFormTypes, Home!Edit(f), f.section # Nil => f.section \in homeExists, f.project = homeForm.project
  PROVE  HomeInv'
<1>1. /\ homeDetail # Nil /\ homeForm' = f /\ homeSaves' = Home!Disturbed
      /\ UNCHANGED <<homeRows, homeExists, homeTasks, homeDetail, homePreview, homeSections, homeAsks, homeLists, homeActivated, homeCrossed, homeMixed>>
  BY DEF Home!Edit, Home!service, Home!picker, Home!history
<1>2. HomeListsTyped' /\ HomeOneList' /\ homeMixed' \in BOOLEAN
  BY <1>1, OpenForm DEF HomeListsTyped, HomeOneList, HomeStoreTypes
<1>3. homeAsks' \subseteq HomeAskTypes /\ \A a \in homeAsks' : a.at = "done" => a \in homeAsks
  BY <1>1, OpenForm
<1> QED BY <1>1, <1>2, <1>3, OpenStays

LEMMA EditsKeep ==
  ASSUME HomeInv,
         \/ \E p \in HomeProjects \cup {Nil} : Home!setDetailContent(p)
         \/ \E s \in Home!Sections \cup {Nil} : Home!setDetailSectionId(s)
         \/ \E p \in Levels : Home!setDetailPriority(p)
  PROVE  HomeInv'
<1>1. ASSUME NEW p \in HomeProjects \cup {Nil}, Home!setDetailContent(p)
      PROVE  HomeInv'
  <2>1. homeDetail # Nil /\ Home!Edit([homeForm EXCEPT !.title = p])
    BY <1>1 DEF Home!setDetailContent, Home!Edit
  <2>2. [homeForm EXCEPT !.title = p] \in HomeFormTypes /\ [homeForm EXCEPT !.title = p].section = homeForm.section
        /\ [homeForm EXCEPT !.title = p].project = homeForm.project
    BY <2>1, OpenForm DEF HomeFormTypes
  <2>3. homeForm.section # Nil => homeForm.section \in homeExists
    BY <2>1, OpenForm DEF HomeSectionsThere
  <2> QED BY <2>1, <2>2, <2>3, EditKeeps
<1>2. ASSUME NEW s \in Home!Sections \cup {Nil}, Home!setDetailSectionId(s)
      PROVE  HomeInv'
  <2>1. homeDetail # Nil /\ Home!Edit([homeForm EXCEPT !.section = s]) /\ (s # Nil => s \in homeSections)
    BY <1>2 DEF Home!setDetailSectionId, Home!Edit
  <2>2. [homeForm EXCEPT !.section = s] \in HomeFormTypes /\ [homeForm EXCEPT !.section = s].section = s
        /\ [homeForm EXCEPT !.section = s].project = homeForm.project
    BY <2>1, OpenForm DEF HomeFormTypes
  <2>3. s # Nil => s \in homeExists
    BY <2>1, OpenForm DEF HomeStoreTypes
  <2> QED BY <2>1, <2>2, <2>3, EditKeeps
<1>3. ASSUME NEW p \in Levels, Home!setDetailPriority(p)
      PROVE  HomeInv'
  <2>1. homeDetail # Nil /\ Home!Edit([homeForm EXCEPT !.prio = p])
    BY <1>3 DEF Home!setDetailPriority, Home!Edit
  <2>2. [homeForm EXCEPT !.prio = p] \in HomeFormTypes /\ [homeForm EXCEPT !.prio = p].section = homeForm.section
        /\ [homeForm EXCEPT !.prio = p].project = homeForm.project
    BY <2>1, OpenForm DEF HomeFormTypes
  <2>3. homeForm.section # Nil => homeForm.section \in homeExists
    BY <2>1, OpenForm DEF HomeSectionsThere
  <2> QED BY <2>1, <2>2, <2>3, EditKeeps
<1> QED BY <1>1, <1>2, <1>3

LEMMA CreateKeeps ==
  ASSUME HomeInv, NEW n \in SectionNames, Home!createSection(n)
  PROVE  HomeInv'
<1> DEFINE new == [project |-> homeForm.project, name |-> n]
<1>1. /\ homeDetail # Nil /\ homeSaves' = Home!Disturbed /\ Home!Sends(Home!List(homeForm.project, new))
      /\ UNCHANGED <<homeRows, homeExists, homeTasks, homeDetail, homeForm, homePreview, homeSections, homeAsks, homeActivated, homeCrossed>>
  BY DEF Home!createSection, Home!service, Home!dialog, Home!picker
<1>2. homeForm' \in HomeFormTypes /\ homeForm.project \in HomeProjects /\ new \in Home!Sections /\ (homeForm'.section # Nil => homeForm'.section \in homeExists)
  BY <1>1, OpenForm DEF HomeFormTypes, Home!Sections, HomeSectionsThere
<1> HIDE DEF new
<1>3. /\ HomeListsTyped' /\ homeMixed' \in BOOLEAN
      /\ ~homeMixed' => \A l \in homeLists' : homeLists' = {l} /\ l.project = homeForm.project /\ l.at = "sent"
  BY <1>1, <1>2, ListSent, OpenForm
<1>4. HomeOneList'
  BY <1>1, <1>3 DEF HomeOneList
<1>5. homeAsks' \subseteq HomeAskTypes /\ \A a \in homeAsks' : a.at = "done" => a \in homeAsks
  BY <1>1, OpenForm
<1> QED BY <1>1, <1>2, <1>3, <1>4, <1>5, OpenStays

LEMMA MakeLiveKeeps ==
  ASSUME HomeInv, Home!makeDetailTaskLive
  PROVE  HomeInv'
<1>1. /\ homeDetail # Nil /\ homeSaves' = Home!Disturbed /\ homeAsks' = homeAsks \cup {Home!Ask("activate", homeDetail)}
      /\ UNCHANGED <<homeRows, homeExists, homeTasks, homeDetail, homeForm, homePreview, homeSections, homeLists, homeActivated, homeCrossed, homeMixed>>
  BY DEF Home!makeDetailTaskLive, Home!service, Home!dialog, Home!picker, Home!history
<1>2. homeForm' \in HomeFormTypes /\ (homeForm'.section # Nil => homeForm'.section \in homeExists)
  BY <1>1, OpenForm DEF HomeSectionsThere
<1>3. Home!Ask("activate", homeDetail) \in HomeAskTypes /\ Home!Ask("activate", homeDetail).at = "sent"
  BY <1>1, OpenForm DEF Home!Ask, HomeAskTypes, HomeStoreTypes
<1>4. homeAsks' \subseteq HomeAskTypes /\ \A a \in homeAsks' : a.at = "done" => a \in homeAsks
  BY <1>1, <1>3, OpenForm
<1>5. HomeListsTyped' /\ HomeOneList' /\ homeMixed' \in BOOLEAN
  BY <1>1, OpenForm DEF HomeListsTyped, HomeOneList, HomeStoreTypes
<1> QED BY <1>1, <1>2, <1>4, <1>5, OpenStays

\* A save starts clean when it is the only one, the page has the row as it is, and no activation is under way.
LEMMA SaveKeeps ==
  ASSUME HomeInv, Home!saveWithSection
  PROVE  HomeInv'
<1> DEFINE free == CHOOSE s \in Chains : homeSaves[s] = Nil
           clean == /\ \A s \in Chains : homeSaves[s] = Nil
                    /\ homeTasks[homeDetail] = homeRows[homeDetail] /\ ~\E a \in homeAsks : a.op = "activate"
<1>1. PICK save : save = [task |-> homeDetail, step |-> "place", at |-> "sent", row |-> Nil,
                  project |-> homeForm.project, section |-> homeForm.section, prio |-> Nil, title |-> Nil, live |-> FALSE,
                  typed |-> homeForm, was |-> homeRows[homeDetail].live, clean |-> clean]
  OBVIOUS
<1>2. /\ homeDetail # Nil /\ free \in Chains /\ homeSaves[free] = Nil /\ homeSaves' = [Home!Disturbed EXCEPT ![free] = save]
      /\ UNCHANGED <<homeRows, homeExists, homeTasks, homeDetail, homeForm, homePreview, homeSections, homeAsks, homeLists, homeActivated, homeCrossed, homeMixed>>
  BY <1>1 DEF Home!saveWithSection, Home!service, Home!dialog, Home!picker, Home!history
<1>3. homeDetail \in HomeTasks /\ homeForm \in HomeFormTypes /\ homeRows[homeDetail].live \in BOOLEAN
  BY <1>2, OpenForm DEF HomeStoreTypes, HomeRowTypes
<1>4. save \in HomeSaveTypes /\ HomeSaveOK(save) /\ save.step = "place" /\ save.at = "sent" /\ save.clean = clean
  BY <1>1, <1>3 DEF HomeSaveTypes, HomeSaveOK, HomeFormTypes
<1>5. clean => HomeCleanSave(save)
  BY <1>1, <1>3 DEF HomeCleanSave
<1> HIDE DEF free, clean
<1>6. ASSUME NEW s \in Chains
      PROVE  homeSaves'[s] = IF s = free THEN save ELSE IF homeSaves[s] # Nil THEN [homeSaves[s] EXCEPT !.clean = FALSE] ELSE Nil
  BY <1>2 DEF Home!Disturbed
<1>7. ASSUME NEW s \in Chains, s # free, homeSaves'[s] # Nil
      PROVE  /\ homeSaves[s] # Nil /\ homeSaves'[s] \in HomeSaveTypes /\ homeSaves'[s].clean = FALSE /\ homeSaves'[s].step = homeSaves[s].step
             /\ homeSaves'[s].at = homeSaves[s].at /\ homeSaves'[s].row = homeSaves[s].row /\ homeSaves'[s].prio = homeSaves[s].prio
             /\ homeSaves'[s].title = homeSaves[s].title /\ homeSaves'[s].task = homeSaves[s].task /\ homeSaves'[s].live = homeSaves[s].live
  BY <1>6, <1>7 DEF HomeInv, HomeDialogTypes, HomeSavesTyped, HomeSaveTypes
<1>8. homeSaves' = [s \in Chains |-> homeSaves'[s]]
  BY <1>2 DEF Home!Disturbed
<1>9. HomeSavesTyped'
  <2>1. ASSUME NEW s \in Chains
        PROVE  homeSaves'[s] \in HomeSaveTypes \cup {Nil} /\ (homeSaves'[s] # Nil => HomeSaveOK(homeSaves'[s]))
    <3>1. CASE s = free
      BY <3>1, <1>4, <1>6
    <3>2. CASE s # free /\ homeSaves'[s] # Nil
      BY <3>2, <1>7 DEF HomeInv, HomeDialogTypes, HomeSavesTyped, HomeSaveOK
    <3> QED BY <3>1, <3>2
  <2> QED BY <2>1, <1>8 DEF HomeSavesTyped, HomeSaveOK
<1>10. HomeSavesEarned => HomeSavesEarned'
  <2> SUFFICES ASSUME HomeSavesEarned, NEW s \in Chains, homeSaves'[s] # Nil
               PROVE  /\ homeSaves'[s].step = "place" /\ homeSaves'[s].at = "done" /\ homeSaves'[s].row.live => homeSaves'[s].task \in homeActivated
                      /\ homeSaves'[s].step = "patch" /\ homeSaves'[s].live => homeSaves'[s].task \in homeActivated
    BY <1>2 DEF HomeSavesEarned
  <2>1. CASE s = free
    BY <2>1, <1>4, <1>6
  <2>2. CASE s # free
    BY <2>2, <1>7 DEF HomeSavesEarned
  <2> QED BY <2>1, <2>2
<1>11. HomeCleanSaves'
  <2> SUFFICES ASSUME NEW s \in Chains, homeSaves'[s] # Nil, homeSaves'[s].clean
               PROVE  HomeCleanSave(homeSaves[s])' /\ \A r \in Chains : r # s => homeSaves'[r] = Nil
    BY DEF HomeCleanSaves
  <2>1. s = free /\ clean /\ homeSaves'[s] = save
    BY <1>4, <1>6, <1>7
  <2>2. \A r \in Chains : r # s => homeSaves'[r] = Nil
    BY <2>1, <1>6 DEF clean
  <2>3. HomeCleanSave(save)'
    BY <2>1, <1>2, <1>5 DEF HomeCleanSave
  <2>4. HomeCleanSave(homeSaves[s])'
    BY <2>1, <2>3 DEF HomeCleanSave
  <2> QED BY <2>2, <2>4
<1>12. HomeMarksEarned'
  BY <1>2, <1>10, MarksStay DEF HomeInv
<1>13. HomeSectionsThere'
  <2>1. ASSUME NEW s \in Chains, homeSaves'[s] # Nil, homeSaves'[s].step = "place", homeSaves'[s].at = "done", homeSaves'[s].row.section # Nil
        PROVE  homeSaves'[s].row.section \in homeExists
    <3>1. s # free
      BY <2>1, <1>4, <1>6
    <3> QED BY <2>1, <3>1, <1>7 DEF HomeInv, HomeSectionsThere
  <2> QED BY <2>1, <1>2 DEF HomeInv, HomeSectionsThere
<1>14. HomeStoreTypes' /\ HomeListsTyped' /\ HomeFormTyped' /\ Home!PreviewOfShownTask' /\ HomeOneList'
  BY <1>2, <1>3 DEF HomeInv, HomeDialogTypes, HomeStoreTypes, HomeListsTyped, HomeFormTyped, Home!PreviewOfShownTask, HomeOneList
<1> QED BY <1>9, <1>11, <1>12, <1>13, <1>14 DEF HomeInv, HomeDialogTypes

-----------------------------------------------------------------------------
(* Answers: of the board, and of the picker *)

\* What an ask says when it is served or answered, with the saves left alone.
LEMMA SavesStay ==
  ASSUME HomeInv, homeSaves' = homeSaves
  PROVE  HomeSavesTyped'
BY DEF HomeInv, HomeDialogTypes, HomeSavesTyped, HomeSaveOK

LEMMA ServeAskKeeps ==
  ASSUME HomeInv, NEW a \in homeAsks, Home!ServeAsk(a)
  PROVE  HomeInv'
<1>1. PICK b : b = [a EXCEPT !.at = "done", !.live = homeRows'[a.task].live]
  OBVIOUS
<1>2. /\ a \in HomeAskTypes /\ a.at = "sent" /\ homeAsks' = (homeAsks \ {a}) \cup {b}
      /\ homeRows' = (IF a.op = "activate" THEN [homeRows EXCEPT ![a.task].live = TRUE] ELSE homeRows)
      /\ homeActivated' = (IF a.op = "activate" THEN homeActivated \cup {a.task} ELSE homeActivated)
      /\ UNCHANGED <<homeExists, homeTasks, homeDetail, homeForm, homePreview, homeSections, homeLists, homeSaves, homeCrossed, homeMixed>>
  BY <1>1 DEF Home!ServeAsk, HomeInv, HomeDialogTypes, HomeStoreTypes, Home!dialog, Home!picker
<1>3. /\ a.task \in HomeTasks /\ homeRows \in [HomeTasks -> HomeRowTypes]
      /\ homeRows' \in [HomeTasks -> HomeRowTypes]
      /\ \A t \in HomeTasks : homeRows'[t].section = homeRows[t].section /\ (homeRows'[t].live => homeRows[t].live \/ t \in homeActivated')
  <2>1. a.task \in HomeTasks /\ homeRows \in [HomeTasks -> HomeRowTypes]
    BY <1>2 DEF HomeInv, HomeDialogTypes, HomeStoreTypes, HomeAskTypes
  <2>2. CASE a.op = "activate"
    BY <2>1, <2>2, <1>2 DEF HomeRowTypes
  <2>3. CASE a.op # "activate"
    BY <2>1, <2>3, <1>2
  <2> QED BY <2>1, <2>2, <2>3
<1>4. homeRows'[a.task].live \in BOOLEAN
  BY <1>3 DEF HomeRowTypes
<1>5. b \in HomeAskTypes /\ b.op = a.op /\ b.task = a.task /\ b.at = "done" /\ b.live = homeRows'[a.task].live
  BY <1>1, <1>2, <1>4 DEF HomeAskTypes
<1>6. HomeStoreTypes'
  BY <1>2, <1>3, <1>5 DEF HomeInv, HomeDialogTypes, HomeStoreTypes
<1>7. HomeSavesTyped' /\ HomeListsTyped' /\ HomeFormTyped' /\ Home!PreviewOfShownTask' /\ HomeOneList'
  BY <1>2, SavesStay DEF HomeInv, HomeDialogTypes, HomeListsTyped, HomeFormTyped, Home!PreviewOfShownTask, HomeOneList
<1>8. HomeSectionsThere'
  BY <1>2, <1>3 DEF HomeInv, HomeSectionsThere
<1>9. HomeMarksEarned'
  BY <1>2, <1>3, <1>5 DEF HomeInv, HomeMarksEarned, HomeSavesEarned
<1>10. HomeCleanSaves'
  <2>1. CASE a.op = "activate"
    BY <2>1, <1>2 DEF HomeInv, HomeCleanSaves, HomeCleanSave
  <2>2. CASE a.op # "activate"
    BY <2>2, <1>2, <1>5 DEF HomeInv, HomeCleanSaves, HomeCleanSave
  <2> QED BY <2>1, <2>2
<1> QED BY <1>6, <1>7, <1>8, <1>9, <1>10 DEF HomeInv, HomeDialogTypes

LEMMA PreviewedKeeps ==
  ASSUME HomeInv, NEW a \in homeAsks, Home!Previewed(a)
  PROVE  HomeInv'
<1>1. /\ a \in HomeAskTypes /\ a.at = "done" /\ homeAsks' = homeAsks \ {a}
      /\ homePreview' = (IF homeDetail = a.task THEN [task |-> a.task, live |-> a.live] ELSE homePreview)
      /\ UNCHANGED <<homeRows, homeExists, homeTasks, homeDetail, homeForm, homeSections, homeLists, homeSaves, homeActivated, homeCrossed, homeMixed>>
  BY DEF Home!Previewed, HomeInv, HomeDialogTypes, HomeStoreTypes, Home!service, Home!picker, Home!history
<1>2. HomeStoreTypes' /\ Home!PreviewOfShownTask'
  BY <1>1 DEF HomeInv, HomeDialogTypes, HomeStoreTypes, HomePreviewTypes, HomeAskTypes, Home!PreviewOfShownTask
<1>3. HomeSavesTyped' /\ HomeListsTyped' /\ HomeFormTyped' /\ HomeOneList' /\ HomeSectionsThere' /\ HomeCleanSaves'
  BY <1>1, SavesStay DEF HomeInv, HomeDialogTypes, HomeListsTyped, HomeFormTyped, HomeOneList, HomeSectionsThere, HomeCleanSaves, HomeCleanSave
<1>4. HomeMarksEarned'
  BY <1>1 DEF HomeInv, HomeMarksEarned, HomeSavesEarned
<1> QED BY <1>2, <1>3, <1>4 DEF HomeInv, HomeDialogTypes

LEMMA ActivatedKeeps ==
  ASSUME HomeInv, NEW a \in homeAsks, Home!Activated(a)
  PROVE  HomeInv'
<1>1. /\ a \in HomeAskTypes /\ a.at = "done" /\ a.op = "activate" /\ homeAsks' = homeAsks \ {a}
      /\ homePreview' = [task |-> a.task, live |-> a.live] /\ homeTasks' = homeRows /\ homeCrossed' = (homeCrossed \/ homeDetail # a.task)
      /\ UNCHANGED <<homeRows, homeExists, homeDetail, homeForm, homeSections, homeLists, homeSaves, homeActivated, homeMixed>>
  BY DEF Home!Activated, HomeInv, HomeDialogTypes, HomeStoreTypes, Home!service, Home!picker
<1>2. HomeStoreTypes' /\ Home!PreviewOfShownTask'
  BY <1>1 DEF HomeInv, HomeDialogTypes, HomeStoreTypes, HomePreviewTypes, HomeAskTypes, Home!PreviewOfShownTask
<1>3. HomeSavesTyped' /\ HomeListsTyped' /\ HomeFormTyped' /\ HomeOneList' /\ HomeSectionsThere'
  BY <1>1, SavesStay DEF HomeInv, HomeDialogTypes, HomeListsTyped, HomeFormTyped, HomeOneList, HomeSectionsThere
<1>4. HomeCleanSaves'
  BY <1>1 DEF HomeInv, HomeCleanSaves, HomeCleanSave
<1>5. HomeMarksEarned'
  BY <1>1 DEF HomeInv, HomeMarksEarned, HomeSavesEarned
<1> QED BY <1>2, <1>3, <1>4, <1>5 DEF HomeInv, HomeDialogTypes

LEMMA ServeListKeeps ==
  ASSUME HomeInv, NEW l \in homeLists, Home!ServeList(l)
  PROVE  HomeInv'
<1>1. PICK k : k = [l EXCEPT !.at = "done", !.items = {x \in homeExists' : x.project = l.project}]
  OBVIOUS
<1>2. /\ l \in HomeListTypes /\ l.at = "sent" /\ homeLists' = (homeLists \ {l}) \cup {k}
      /\ homeExists' = (IF l.new = Nil THEN homeExists ELSE homeExists \cup {l.new})
      /\ UNCHANGED <<homeRows, homeTasks, homeDetail, homeForm, homePreview, homeSections, homeAsks, homeSaves, homeActivated, homeCrossed, homeMixed>>
  BY <1>1 DEF Home!ServeList, HomeInv, HomeDialogTypes, HomeListsTyped, Home!dialog, Home!picker, Home!history
<1>3. homeExists \subseteq homeExists' /\ homeExists' \subseteq Home!Sections
  BY <1>2 DEF HomeInv, HomeDialogTypes, HomeStoreTypes, HomeListTypes
<1>4. /\ k \in HomeListTypes /\ k.project = l.project /\ k.at = "done" /\ k.new = l.new
      /\ k.items = {x \in homeExists' : x.project = l.project}
  BY <1>1, <1>2, <1>3 DEF HomeListTypes
<1>5. HomeStoreTypes'
  BY <1>2, <1>3 DEF HomeInv, HomeDialogTypes, HomeStoreTypes
<1>6. HomeListsTyped'
  BY <1>2, <1>3, <1>4 DEF HomeInv, HomeDialogTypes, HomeListsTyped
<1>7. HomeSavesTyped' /\ Home!PreviewOfShownTask' /\ HomeCleanSaves'
  BY <1>2, SavesStay DEF HomeInv, Home!PreviewOfShownTask, HomeCleanSaves, HomeCleanSave
<1>8. HomeFormTyped' /\ HomeSectionsThere'
  BY <1>2, <1>3 DEF HomeInv, HomeDialogTypes, HomeFormTyped, HomeSectionsThere
<1>9. HomeMarksEarned'
  BY <1>2 DEF HomeInv, HomeMarksEarned, HomeSavesEarned
<1>10. HomeOneList'
  <2> SUFFICES ASSUME ~homeMixed, NEW x \in homeLists'
               PROVE  /\ homeLists' = {x} /\ (homeDetail # Nil => x.project = homeForm.project)
                      /\ x.at = "done" => x.items = {y \in homeExists' : y.project = x.project}
    BY <1>2 DEF HomeOneList
  <2>1. homeLists = {l} /\ (homeDetail # Nil => l.project = homeForm.project)
    BY DEF HomeInv, HomeOneList
  <2> QED BY <2>1, <1>2, <1>4
<1> QED BY <1>5, <1>6, <1>7, <1>8, <1>9, <1>10 DEF HomeInv, HomeDialogTypes

LEMMA ListedKeeps ==
  ASSUME HomeInv, NEW l \in homeLists, Home!Listed(l)
  PROVE  HomeInv'
<1>1. /\ l \in HomeListTypes /\ l.at = "done" /\ homeLists' = homeLists \ {l}
      /\ homeSections' = (IF l.shown THEN l.items ELSE homeSections)
      /\ homeForm' = [homeForm EXCEPT !.section = IF l.new # Nil THEN l.new ELSE IF @ \in l.items THEN @ ELSE Nil]
      /\ UNCHANGED <<homeRows, homeExists, homeTasks, homeDetail, homePreview, homeAsks, homeSaves, homeActivated, homeCrossed, homeMixed>>
  BY DEF Home!Listed, HomeInv, HomeDialogTypes, HomeListsTyped, Home!service, Home!history
<1>2. l.items \subseteq homeExists /\ (l.new # Nil => l.new \in homeExists) /\ homeForm \in HomeFormTypes /\ homeExists \subseteq Home!Sections
  BY <1>1 DEF HomeInv, HomeDialogTypes, HomeListsTyped, HomeFormTyped, HomeStoreTypes
<1>3. /\ homeForm' \in HomeFormTypes /\ homeForm'.project = homeForm.project /\ homeForm'.prio = homeForm.prio /\ homeForm'.title = homeForm.title
      /\ homeForm'.section # Nil => homeForm'.section \in homeExists
  BY <1>1, <1>2 DEF HomeFormTypes
<1>4. HomeStoreTypes' /\ HomeListsTyped' /\ HomeFormTyped'
  BY <1>1, <1>2, <1>3 DEF HomeInv, HomeDialogTypes, HomeStoreTypes, HomeListsTyped, HomeFormTyped
<1>5. HomeSavesTyped' /\ Home!PreviewOfShownTask'
  BY <1>1, SavesStay DEF HomeInv, Home!PreviewOfShownTask
<1>6. HomeCleanSaves' /\ HomeMarksEarned'
  BY <1>1, <1>3 DEF HomeInv, HomeCleanSaves, HomeCleanSave, HomeMarksEarned, HomeSavesEarned
<1>7. HomeSectionsThere'
  BY <1>1, <1>3 DEF HomeInv, HomeSectionsThere
<1>8. HomeOneList'
  BY <1>1, <1>3 DEF HomeInv, HomeOneList
<1> QED BY <1>4, <1>5, <1>6, <1>7, <1>8 DEF HomeInv, HomeDialogTypes

-----------------------------------------------------------------------------
(* A save *)

LEMMA SaveTyped ==
  ASSUME HomeInv, NEW s \in Chains, homeSaves[s] # Nil
  PROVE  homeSaves[s] \in HomeSaveTypes /\ HomeSaveOK(homeSaves[s]) /\ homeForm \in HomeFormTypes /\ homeSaves[s].task \in HomeTasks
<1>1. homeSaves[s] \in HomeSaveTypes /\ HomeSaveOK(homeSaves[s]) /\ homeForm \in HomeFormTypes
  BY DEF HomeInv, HomeDialogTypes, HomeSavesTyped, HomeFormTyped
<1> QED BY <1>1 DEF HomeSaveTypes

\* A clean save is the only one: it is the one that goes on.
LEMMA CleanIsThis ==
  ASSUME HomeInv, NEW s \in Chains, homeSaves[s] # Nil, NEW v,
         \A r \in Chains : homeSaves'[r] = IF r = s THEN v ELSE homeSaves[r],
         v # Nil /\ v.clean => homeSaves[s].clean /\ HomeCleanSave(v)'
  PROVE  HomeCleanSaves'
<1> SUFFICES ASSUME NEW r \in Chains, homeSaves'[r] # Nil, homeSaves'[r].clean
             PROVE  HomeCleanSave(homeSaves[r])' /\ \A q \in Chains : q # r => homeSaves'[q] = Nil
  BY DEF HomeCleanSaves
<1>1. r = s
  BY DEF HomeInv, HomeCleanSaves
<1>2. homeSaves'[r] = v /\ homeSaves[s].clean
  BY <1>1
<1>3. \A q \in Chains : q # r => homeSaves'[q] = Nil
  BY <1>1, <1>2 DEF HomeInv, HomeCleanSaves
<1>4. HomeCleanSave(homeSaves[r])'
  BY <1>2 DEF HomeCleanSave
<1> QED BY <1>3, <1>4

LEMMA ServePlaceKeeps ==
  ASSUME HomeInv, NEW s \in Chains, Home!ServePlace(s)
  PROVE  HomeInv'
<1>1. PICK j : j = homeSaves[s]
  OBVIOUS
<1>2. /\ j # Nil /\ j.at = "sent" /\ j.step = "place"
      /\ UNCHANGED <<homeExists, homeTasks, homeDetail, homeForm, homePreview, homeSections, homeAsks, homeLists, homeActivated, homeCrossed, homeMixed>>
  BY <1>1 DEF Home!ServePlace, Home!Sending, Home!dialog, Home!picker, Home!history
<1>3. j \in HomeSaveTypes /\ HomeSaveOK(j) /\ homeForm \in HomeFormTypes /\ j.task \in HomeTasks
  BY <1>1, <1>2, SaveTyped
<1>4. HomeListsTyped' /\ Home!PreviewOfShownTask' /\ HomeOneList'
  BY <1>2 DEF HomeInv, HomeDialogTypes, HomeListsTyped, Home!PreviewOfShownTask, HomeOneList
<1>5. HomeFormTyped'
  BY <1>2, <1>3 DEF HomeFormTyped
<1>6. HomeSavesTyped
  BY DEF HomeInv, HomeDialogTypes
<1>7. CASE j.section # Nil /\ (j.section \notin homeExists \/ j.section.project # j.project)
  <2>1. PICK v : v = [j EXCEPT !.at = "refused"]
    OBVIOUS
  <2>2. homeSaves' = Home!Set(s, v) /\ homeRows' = homeRows
    BY <1>1, <1>7, <2>1 DEF Home!ServePlace
  <2>3. v \in HomeSaveTypes \cup {Nil} /\ HomeSaveOK(v) /\ v.at = "refused" /\ v.step = "place" /\ v.clean = j.clean
        /\ v.task = j.task /\ v.typed = j.typed
    BY <1>2, <1>3, <2>1 DEF HomeSaveTypes, HomeSaveOK
  <2>4. HomeSavesTyped' /\ \A r \in Chains : homeSaves'[r] = IF r = s THEN v ELSE homeSaves[r]
    BY <1>6, <2>2, <2>3, SetSave
  <2>5. HomeStoreTypes' /\ HomeSectionsThere' /\ HomeMarksEarned'
    BY <1>2, <2>2, <2>3, <2>4 DEF HomeInv, HomeDialogTypes, HomeStoreTypes, HomeSectionsThere, HomeMarksEarned, HomeSavesEarned
  <2>6. v.clean => homeSaves[s].clean /\ HomeCleanSave(v)'
    BY <1>1, <1>2, <2>2, <2>3 DEF HomeInv, HomeCleanSaves, HomeCleanSave
  <2>7. HomeCleanSaves'
    BY <1>1, <1>2, <2>4, <2>6, CleanIsThis
  <2> QED BY <1>4, <1>5, <2>4, <2>5, <2>7 DEF HomeInv, HomeDialogTypes
<1>8. CASE ~(j.section # Nil /\ (j.section \notin homeExists \/ j.section.project # j.project))
  <2>1. PICK v : v = [j EXCEPT !.at = "done", !.row = homeRows'[j.task]]
    OBVIOUS
  <2>2. homeSaves' = Home!Set(s, v) /\ homeRows' = [homeRows EXCEPT ![j.task].project = j.project, ![j.task].section = j.section]
    BY <1>1, <1>8, <2>1 DEF Home!ServePlace
  <2>3. /\ homeRows' \in [HomeTasks -> HomeRowTypes] /\ \A t \in HomeTasks : homeRows'[t].live = homeRows[t].live
        /\ \A t \in HomeTasks : homeRows'[t].section = IF t = j.task THEN j.section ELSE homeRows[t].section
    BY <1>3, <2>2 DEF HomeInv, HomeDialogTypes, HomeStoreTypes, HomeRowTypes, HomeSaveTypes
  <2>4. v \in HomeSaveTypes \cup {Nil} /\ HomeSaveOK(v) /\ v.at = "done" /\ v.step = "place" /\ v.clean = j.clean
        /\ v.task = j.task /\ v.typed = j.typed /\ v.was = j.was /\ v.row = homeRows'[j.task]
    <3>1. homeRows'[j.task] \in HomeRowTypes
      BY <1>3, <2>3
    <3> QED BY <3>1, <1>2, <1>3, <2>1 DEF HomeSaveTypes, HomeSaveOK
  <2>5. HomeSavesTyped' /\ \A r \in Chains : homeSaves'[r] = IF r = s THEN v ELSE homeSaves[r]
    BY <1>6, <2>2, <2>4, SetSave
  <2>6. HomeStoreTypes' /\ HomeSectionsThere'
    BY <1>2, <1>3, <1>8, <2>3, <2>4, <2>5 DEF HomeInv, HomeDialogTypes, HomeStoreTypes, HomeSectionsThere
  <2>7. HomeMarksEarned'
    BY <1>2, <1>3, <2>3, <2>4, <2>5 DEF HomeInv, HomeMarksEarned, HomeSavesEarned
  <2>8. v.clean => homeSaves[s].clean /\ HomeCleanSave(v)'
    <3> SUFFICES ASSUME v.clean
                 PROVE  homeSaves[s].clean /\ HomeCleanSave(v)'
      OBVIOUS
    <3>1. j.clean /\ HomeCleanSave(j)
      BY <1>1, <1>2, <2>4 DEF HomeInv, HomeCleanSaves
    <3>2. /\ homeDetail' = j.task /\ ~\E a \in homeAsks' : a.op = "activate"
          /\ homeForm'.project = j.typed.project /\ homeForm'.prio = j.typed.prio /\ homeForm'.title = j.typed.title
          /\ j.section = j.typed.section /\ j.was = homeRows[j.task].live
      BY <3>1, <1>2 DEF HomeCleanSave
    <3>3. homeRows'[j.task].section = j.typed.section /\ j.was = homeRows'[j.task].live
      BY <3>2, <1>3, <2>3
    <3> QED BY <3>1, <3>2, <3>3, <1>1, <2>4 DEF HomeCleanSave
  <2>9. HomeCleanSaves'
    BY <1>1, <1>2, <2>5, <2>8, CleanIsThis
  <2> QED BY <1>4, <1>5, <2>5, <2>6, <2>7, <2>9 DEF HomeInv, HomeDialogTypes
<1> QED BY <1>7, <1>8

\* The call a save goes on with: from the dialog as it is, live only when what the dialog shows is.
LEMMA PatchIs ==
  ASSUME HomeInv, homeForm \in HomeFormTypes, NEW j \in HomeSaveTypes, NEW list \in [HomeTasks -> HomeRowTypes]
  PROVE  /\ Home!Patch(list, j) \in HomeSaveTypes /\ HomeSaveOK(Home!Patch(list, j))
         /\ Home!Patch(list, j).step = "patch" /\ Home!Patch(list, j).at = "sent" /\ Home!Patch(list, j).task = j.task
         /\ Home!Patch(list, j).clean = j.clean /\ Home!Patch(list, j).typed = j.typed /\ Home!Patch(list, j).was = j.was
         /\ Home!Patch(list, j).project = (IF j.title # Nil THEN j.title ELSE homeForm.project)
         /\ Home!Patch(list, j).prio = homeForm.prio
         /\ Home!Patch(list, j).live = Home!KeepsLive(list, Home!Patch(list, j).project)
<1> DEFINE project == IF j.title # Nil THEN j.title ELSE homeForm.project
<1>1. project \in HomeProjects /\ homeForm.prio \in Levels
  BY DEF HomeSaveTypes, HomeFormTypes
<1>2. Home!KeepsLive(list, project) \in BOOLEAN
  BY DEF Home!KeepsLive
<1> HIDE DEF project
<1>3. PICK live : live = Home!KeepsLive(list, project)
  OBVIOUS
<1>4. Home!Patch(list, j) = [j EXCEPT !.step = "patch", !.at = "sent", !.project = project, !.prio = homeForm.prio, !.live = live]
  BY <1>3 DEF Home!Patch, project
<1>5. /\ Home!Patch(list, j) \in HomeSaveTypes
      /\ Home!Patch(list, j).step = "patch" /\ Home!Patch(list, j).at = "sent" /\ Home!Patch(list, j).task = j.task
      /\ Home!Patch(list, j).clean = j.clean /\ Home!Patch(list, j).typed = j.typed /\ Home!Patch(list, j).was = j.was
      /\ Home!Patch(list, j).project = project /\ Home!Patch(list, j).prio = homeForm.prio /\ Home!Patch(list, j).live = live
  BY <1>1, <1>2, <1>3, <1>4 DEF HomeSaveTypes
<1>6. HomeSaveOK(Home!Patch(list, j))
  BY <1>1, <1>5 DEF HomeSaveOK
<1> QED BY <1>3, <1>5, <1>6 DEF project

LEMMA PlacedKeeps ==
  ASSUME HomeAssumption, HomeInv, NEW s \in Chains, Home!Placed(s)
  PROVE  HomeInv'
<1>1. PICK j : j = homeSaves[s]
  OBVIOUS
<1>2. PICK k : k = [j EXCEPT !.task = homeDetail, !.title = homeForm.title]
  OBVIOUS
<1>3. PICK v : v = IF homeDetail = Nil THEN Nil ELSE IF homeForm.title # Nil THEN [k EXCEPT !.step = "parse"] ELSE Home!Patch(homeTasks', k)
  OBVIOUS
<1>4. /\ j # Nil /\ j.at = "done" /\ j.step = "place" /\ homeSaves' = Home!Set(s, v) /\ homeTasks' = [homeTasks EXCEPT ![j.task] = j.row]
      /\ UNCHANGED <<homeRows, homeExists, homeDetail, homeForm, homePreview, homeSections, homeAsks, homeLists, homeActivated, homeCrossed, homeMixed>>
  BY <1>1, <1>2, <1>3 DEF Home!Placed, Home!service, Home!dialog, Home!picker, Home!history
<1>5. j \in HomeSaveTypes /\ homeForm \in HomeFormTypes /\ j.task \in HomeTasks /\ j.row \in HomeRowTypes /\ HomeSavesTyped
  BY <1>1, <1>4, SaveTyped DEF HomeSaveOK, HomeInv, HomeDialogTypes
<1>6. /\ homeTasks' \in [HomeTasks -> HomeRowTypes]
      /\ \A t \in HomeTasks : homeTasks'[t] = IF t = j.task THEN j.row ELSE homeTasks[t]
  BY <1>4, <1>5 DEF HomeInv, HomeDialogTypes, HomeStoreTypes
<1>7. HomeListsTyped' /\ Home!PreviewOfShownTask' /\ HomeOneList' /\ HomeFormTyped' /\ HomeStoreTypes'
  BY <1>4, <1>5, <1>6 DEF HomeInv, HomeDialogTypes, HomeListsTyped, Home!PreviewOfShownTask, HomeOneList, HomeFormTyped, HomeStoreTypes
<1>8. ASSUME homeDetail # Nil
      PROVE  /\ k \in HomeSaveTypes /\ k.task = homeDetail /\ k.title = homeForm.title /\ k.clean = j.clean
             /\ k.typed = j.typed /\ k.was = j.was /\ homeDetail \in HomeTasks
  BY <1>2, <1>5, <1>8 DEF HomeInv, HomeDialogTypes, HomeStoreTypes, HomeSaveTypes, HomeFormTypes
<1>9. ASSUME homeDetail # Nil, homeForm.title # Nil
      PROVE  /\ v \in HomeSaveTypes /\ HomeSaveOK(v) /\ v.step = "parse" /\ v.task = homeDetail /\ v.title = homeForm.title
             /\ v.clean = j.clean /\ v.typed = j.typed /\ v.was = j.was
  BY <1>3, <1>8, <1>9 DEF HomeSaveTypes, HomeSaveOK
<1>10. ASSUME homeDetail # Nil, homeForm.title = Nil
       PROVE  /\ v \in HomeSaveTypes /\ HomeSaveOK(v) /\ v.step = "patch" /\ v.at = "sent" /\ v.task = homeDetail
              /\ v.clean = j.clean /\ v.typed = j.typed /\ v.was = j.was
              /\ v.project = homeForm.project /\ v.prio = homeForm.prio /\ v.live = Home!KeepsLive(homeTasks', v.project)
  <2>1. v = Home!Patch(homeTasks', k)
    BY <1>3, <1>10
  <2> QED BY <2>1, <1>5, <1>6, <1>8, <1>10, PatchIs
<1>11. HomeSavesTyped' /\ \A r \in Chains : homeSaves'[r] = IF r = s THEN v ELSE homeSaves[r]
  <2>1. v \in HomeSaveTypes \cup {Nil} /\ (v # Nil => HomeSaveOK(v))
    BY <1>3, <1>9, <1>10
  <2> QED BY <2>1, <1>4, <1>5, SetSave
<1>12. HomeSectionsThere'
  <2>1. j.row.section # Nil => j.row.section \in homeExists
    BY <1>1, <1>4 DEF HomeInv, HomeSectionsThere
  <2>2. v # Nil => v.step # "place"
    BY <1>3, <1>9, <1>10
  <2> QED BY <2>1, <2>2, <1>4, <1>6, <1>11 DEF HomeInv, HomeSectionsThere
<1>13. HomeMarksEarned'
  <2> SUFFICES ASSUME ~homeCrossed
               PROVE  HomeMarksEarned'
    BY <1>4 DEF HomeMarksEarned
  <2>1. j.row.live => j.task \in homeActivated
    BY <1>1, <1>4 DEF HomeInv, HomeMarksEarned, HomeSavesEarned
  <2>2. \A t \in HomeTasks : homeRows[t].live \/ homeTasks'[t].live => t \in homeActivated
    BY <2>1, <1>6 DEF HomeInv, HomeMarksEarned
  <2>3. v # Nil /\ v.step = "patch" /\ v.live => v.task \in homeActivated
    <3> SUFFICES ASSUME v # Nil, v.step = "patch", v.live
                 PROVE  v.task \in homeActivated
      OBVIOUS
    <3>1. homeDetail # Nil /\ homeForm.title = Nil /\ v.task = homeDetail /\ homeDetail \in HomeTasks
      BY <1>3, <1>8, <1>9, <1>10
    <3>2. Home!KeepsLive(homeTasks', v.project)
      BY <3>1, <1>10
    <3> QED BY <3>1, <3>2, <2>2 DEF Home!KeepsLive, HomeInv, HomeMarksEarned, Home!PreviewOfShownTask
  <2>4. v # Nil => v.step # "place"
    BY <1>3, <1>9, <1>10
  <2>5. HomeSavesEarned'
    BY <2>3, <2>4, <1>4, <1>11 DEF HomeInv, HomeMarksEarned, HomeSavesEarned
  <2> QED BY <2>2, <2>5, <1>4 DEF HomeInv, HomeMarksEarned
<1>14. HomeCleanSaves'
  <2>1. v # Nil /\ v.clean => homeSaves[s].clean /\ HomeCleanSave(v)'
    <3> SUFFICES ASSUME v # Nil, v.clean
                 PROVE  homeSaves[s].clean /\ HomeCleanSave(v)'
      OBVIOUS
    <3>1. homeDetail # Nil /\ j.clean
      BY <1>3, <1>9, <1>10
    <3>2. HomeCleanSave(j)
      BY <3>1, <1>1, <1>4 DEF HomeInv, HomeCleanSaves
    <3>3. /\ homeDetail = j.task /\ homeDetail' = j.task /\ homeRows' = homeRows /\ ~\E a \in homeAsks' : a.op = "activate"
          /\ homeForm'.project = j.typed.project /\ homeForm'.prio = j.typed.prio /\ homeForm'.title = j.typed.title
          /\ homeTasks'[j.task] = homeRows[j.task] /\ homeRows[j.task].section = j.typed.section /\ j.was = homeRows[j.task].live
      BY <3>2, <1>4, <1>5, <1>6 DEF HomeCleanSave
    <3>4. CASE homeForm.title # Nil
      BY <3>1, <3>3, <3>4, <1>1, <1>4, <1>9 DEF HomeCleanSave
    <3>5. CASE homeForm.title = Nil
      <4>1. v.was /\ v.project \in LiveProjects => v.live
        BY <3>1, <3>3, <3>5, <1>4, <1>10 DEF Home!KeepsLive
      <4> QED BY <4>1, <3>1, <3>3, <3>5, <1>1, <1>4, <1>10 DEF HomeCleanSave, HomeTarget
    <3> QED BY <3>4, <3>5
  <2> QED BY <2>1, <1>1, <1>4, <1>11, CleanIsThis
<1> QED BY <1>7, <1>11, <1>12, <1>13, <1>14 DEF HomeInv, HomeDialogTypes

LEMMA ParsedKeeps ==
  ASSUME HomeAssumption, HomeInv, NEW s \in Chains, Home!Parsed(s)
  PROVE  HomeInv'
<1>1. PICK j : j = homeSaves[s]
  OBVIOUS
<1>2. PICK v : v = Home!Patch(homeTasks, j)
  OBVIOUS
<1>3. /\ j # Nil /\ j.step = "parse" /\ homeSaves' = Home!Set(s, v) /\ homeCrossed' = (homeCrossed \/ homeDetail # j.task)
      /\ UNCHANGED <<homeRows, homeExists, homeTasks, homeDetail, homeForm, homePreview, homeSections, homeAsks, homeLists, homeActivated, homeMixed>>
  BY <1>1, <1>2 DEF Home!Parsed, Home!service, Home!dialog, Home!picker
<1>4. j \in HomeSaveTypes /\ homeForm \in HomeFormTypes /\ j.task \in HomeTasks /\ j.title # Nil /\ HomeSavesTyped /\ homeTasks \in [HomeTasks -> HomeRowTypes]
  BY <1>1, <1>3, SaveTyped DEF HomeSaveOK, HomeInv, HomeDialogTypes, HomeStoreTypes
<1>5. /\ v \in HomeSaveTypes /\ HomeSaveOK(v) /\ v.step = "patch" /\ v.at = "sent" /\ v.task = j.task
      /\ v.clean = j.clean /\ v.typed = j.typed /\ v.was = j.was
      /\ v.project = j.title /\ v.prio = homeForm.prio /\ v.live = Home!KeepsLive(homeTasks, v.project)
  BY <1>2, <1>4, PatchIs
<1>6. HomeSavesTyped' /\ \A r \in Chains : homeSaves'[r] = IF r = s THEN v ELSE homeSaves[r]
  BY <1>3, <1>4, <1>5, SetSave
<1>7. HomeListsTyped' /\ Home!PreviewOfShownTask' /\ HomeOneList' /\ HomeFormTyped' /\ HomeStoreTypes'
  BY <1>3, <1>4 DEF HomeInv, HomeDialogTypes, HomeListsTyped, Home!PreviewOfShownTask, HomeOneList, HomeFormTyped, HomeStoreTypes
<1>8. HomeSectionsThere'
  BY <1>3, <1>5, <1>6 DEF HomeInv, HomeSectionsThere
<1>9. HomeMarksEarned'
  <2> SUFFICES ASSUME ~homeCrossed, homeDetail = j.task
               PROVE  HomeMarksEarned'
    BY <1>3 DEF HomeMarksEarned
  <2>1. v.live => v.task \in homeActivated
    <3> SUFFICES ASSUME v.live
                 PROVE  v.task \in homeActivated
      OBVIOUS
    <3>1. Home!KeepsLive(homeTasks, v.project) /\ homeDetail # Nil /\ v.task = homeDetail
      BY <1>4, <1>5 DEF HomeAssumption
    <3> QED BY <3>1, <1>4 DEF Home!KeepsLive, HomeInv, HomeMarksEarned, Home!PreviewOfShownTask
  <2>2. HomeSavesEarned'
    BY <2>1, <1>3, <1>5, <1>6 DEF HomeInv, HomeMarksEarned, HomeSavesEarned
  <2> QED BY <2>2, <1>3 DEF HomeInv, HomeMarksEarned
<1>10. HomeCleanSaves'
  <2>1. v.clean => homeSaves[s].clean /\ HomeCleanSave(v)'
    <3> SUFFICES ASSUME v.clean
                 PROVE  homeSaves[s].clean /\ HomeCleanSave(v)'
      OBVIOUS
    <3>1. j.clean /\ HomeCleanSave(j)
      BY <1>1, <1>3, <1>5 DEF HomeInv, HomeCleanSaves
    <3>2. /\ homeDetail = j.task /\ homeDetail' = j.task /\ homeRows' = homeRows /\ ~\E a \in homeAsks' : a.op = "activate"
          /\ homeForm'.project = j.typed.project /\ homeForm'.prio = j.typed.prio /\ homeForm'.title = j.typed.title
          /\ homeTasks[j.task] = homeRows[j.task] /\ homeRows[j.task].section = j.typed.section /\ j.was = homeRows[j.task].live
          /\ j.title = j.typed.title
      BY <3>1, <1>3, <1>4 DEF HomeCleanSave
    <3>3. v.was /\ v.project \in LiveProjects => v.live
      BY <3>2, <1>4, <1>5 DEF Home!KeepsLive, HomeAssumption
    <3> QED BY <3>1, <3>2, <3>3, <1>1, <1>3, <1>4, <1>5 DEF HomeCleanSave, HomeTarget
  <2> QED BY <2>1, <1>1, <1>3, <1>6, CleanIsThis
<1> QED BY <1>6, <1>7, <1>8, <1>9, <1>10 DEF HomeInv, HomeDialogTypes

LEMMA ServePatchKeeps ==
  ASSUME HomeInv, NEW s \in Chains, Home!ServePatch(s)
  PROVE  HomeInv'
<1>1. PICK j : j = homeSaves[s]
  OBVIOUS
<1>2. PICK v : v = [j EXCEPT !.at = "done"]
  OBVIOUS
<1>3. /\ j # Nil /\ j.at = "sent" /\ j.step = "patch" /\ homeSaves' = Home!Set(s, v)
      /\ homeRows' = [homeRows EXCEPT ![j.task].project = j.project, ![j.task].prio = j.prio, ![j.task].live = j.live]
      /\ UNCHANGED <<homeExists, homeTasks, homeDetail, homeForm, homePreview, homeSections, homeAsks, homeLists, homeActivated, homeCrossed, homeMixed>>
  BY <1>1, <1>2 DEF Home!ServePatch, Home!Sending, Home!dialog, Home!picker, Home!history
<1>4. j \in HomeSaveTypes /\ HomeSaveOK(j) /\ homeForm \in HomeFormTypes /\ j.task \in HomeTasks /\ HomeSavesTyped
  BY <1>1, <1>3, SaveTyped DEF HomeInv, HomeDialogTypes
<1>5. /\ v \in HomeSaveTypes \cup {Nil} /\ HomeSaveOK(v) /\ v.at = "done" /\ v.step = "patch" /\ v.clean = j.clean
      /\ v.task = j.task /\ v.typed = j.typed /\ v.was = j.was /\ v.live = j.live
  BY <1>2, <1>3, <1>4 DEF HomeSaveTypes, HomeSaveOK
<1>6. /\ homeRows' \in [HomeTasks -> HomeRowTypes]
      /\ \A t \in HomeTasks : homeRows'[t].section = homeRows[t].section /\ (t # j.task => homeRows'[t] = homeRows[t])
      /\ homeRows'[j.task].project = j.project /\ homeRows'[j.task].prio = j.prio /\ homeRows'[j.task].live = j.live
  BY <1>3, <1>4 DEF HomeInv, HomeDialogTypes, HomeStoreTypes, HomeRowTypes, HomeSaveTypes, HomeSaveOK
<1>7. HomeSavesTyped' /\ \A r \in Chains : homeSaves'[r] = IF r = s THEN v ELSE homeSaves[r]
  BY <1>3, <1>4, <1>5, SetSave
<1>8. HomeListsTyped' /\ Home!PreviewOfShownTask' /\ HomeOneList' /\ HomeFormTyped' /\ HomeStoreTypes'
  BY <1>3, <1>4, <1>6 DEF HomeInv, HomeDialogTypes, HomeListsTyped, Home!PreviewOfShownTask, HomeOneList, HomeFormTyped, HomeStoreTypes
<1>9. HomeSectionsThere'
  BY <1>3, <1>5, <1>6, <1>7 DEF HomeInv, HomeSectionsThere
<1>10. HomeMarksEarned'
  <2>1. ~homeCrossed => (j.live => j.task \in homeActivated)
    BY <1>1, <1>3 DEF HomeInv, HomeMarksEarned, HomeSavesEarned
  <2> QED BY <2>1, <1>3, <1>5, <1>6, <1>7 DEF HomeInv, HomeMarksEarned, HomeSavesEarned
<1>11. HomeCleanSaves'
  <2>1. v.clean => homeSaves[s].clean /\ HomeCleanSave(v)'
    <3> SUFFICES ASSUME v.clean
                 PROVE  homeSaves[s].clean /\ HomeCleanSave(v)'
      OBVIOUS
    <3>1. j.clean /\ HomeCleanSave(j)
      BY <1>1, <1>3, <1>5 DEF HomeInv, HomeCleanSaves
    <3>2. /\ homeDetail' = j.task /\ ~\E a \in homeAsks' : a.op = "activate"
          /\ homeForm'.project = j.typed.project /\ homeForm'.prio = j.typed.prio /\ homeForm'.title = j.typed.title
          /\ homeRows[j.task].section = j.typed.section /\ j.project = HomeTarget(j.typed) /\ j.prio = j.typed.prio
          /\ j.was /\ j.project \in LiveProjects => j.live
      BY <3>1, <1>3 DEF HomeCleanSave
    <3>3. HomeFormSaid(homeRows'[j.task], j.typed) /\ (j.was /\ homeRows'[j.task].project \in LiveProjects => homeRows'[j.task].live)
      BY <3>2, <1>4, <1>6 DEF HomeFormSaid
    <3>4. homeRows'[j.task].section = j.typed.section
      BY <3>2, <1>4, <1>6
    <3>5. HomeCleanSave(v)'
      BY <3>2, <3>3, <3>4, <1>5 DEF HomeCleanSave, HomeFormSaid
    <3> QED BY <3>1, <3>5, <1>1
  <2> QED BY <2>1, <1>1, <1>3, <1>7, CleanIsThis
<1> QED BY <1>7, <1>8, <1>9, <1>10, <1>11 DEF HomeInv, HomeDialogTypes

\* The end of a save, in a slot that is free afterwards.
LEMMA SlotFreed ==
  ASSUME HomeInv, NEW s \in Chains, homeSaves[s] # Nil, homeSaves' = Home!Set(s, Nil)
  PROVE  /\ HomeSavesTyped' /\ HomeCleanSaves' /\ (HomeSavesEarned /\ homeActivated' = homeActivated => HomeSavesEarned')
         /\ \A r \in Chains : homeSaves'[r] # Nil => homeSaves'[r] = homeSaves[r] /\ homeSaves[r] # Nil
<1>1. HomeSavesTyped' /\ \A r \in Chains : homeSaves'[r] = IF r = s THEN Nil ELSE homeSaves[r]
  BY SetSave DEF HomeInv, HomeDialogTypes
<1>2. HomeCleanSaves'
  BY <1>1, CleanIsThis
<1> QED BY <1>1, <1>2 DEF HomeSavesEarned

LEMMA SavedKeeps ==
  ASSUME HomeInv, NEW s \in Chains, Home!Saved(s)
  PROVE  HomeInv'
<1>1. /\ homeSaves[s] # Nil /\ homeSaves' = Home!Set(s, Nil) /\ homeTasks' = homeRows /\ homeDetail' = Nil /\ homePreview' = Nil /\ homeLists' = Home!Hidden
      /\ UNCHANGED <<homeRows, homeExists, homeForm, homeSections, homeAsks, homeActivated, homeCrossed, homeMixed>>
  BY DEF Home!Saved, Home!service, Home!picker, Home!history
<1>2. homeForm \in HomeFormTypes
  BY <1>1, SaveTyped
<1>3. HomeListsTyped' /\ HomeOneList'
  BY <1>1, HiddenLists
<1>4. /\ HomeSavesTyped' /\ HomeCleanSaves' /\ (HomeSavesEarned => HomeSavesEarned')
      /\ \A r \in Chains : homeSaves'[r] # Nil => homeSaves'[r] = homeSaves[r] /\ homeSaves[r] # Nil
  BY <1>1, SlotFreed
<1>5. HomeStoreTypes' /\ HomeFormTyped' /\ Home!PreviewOfShownTask'
  BY <1>1, <1>2 DEF HomeInv, HomeDialogTypes, HomeStoreTypes, HomeFormTyped, Home!PreviewOfShownTask
<1>6. HomeSectionsThere'
  BY <1>1, <1>4 DEF HomeInv, HomeSectionsThere
<1>7. HomeMarksEarned'
  BY <1>1, <1>4 DEF HomeInv, HomeMarksEarned
<1> QED BY <1>3, <1>4, <1>5, <1>6, <1>7 DEF HomeInv, HomeDialogTypes

LEMMA EndsKeep ==
  ASSUME HomeInv, NEW s \in Chains, homeSaves[s] # Nil, homeSaves' = Home!Set(s, Nil),
         UNCHANGED <<homeRows, homeExists, homeTasks, homeDetail, homeForm, homePreview, homeSections, homeAsks, homeLists, homeActivated, homeCrossed, homeMixed>>
  PROVE  HomeInv'
<1>1. homeForm \in HomeFormTypes
  BY SaveTyped
<1>2. /\ HomeSavesTyped' /\ HomeCleanSaves' /\ (HomeSavesEarned => HomeSavesEarned')
      /\ \A r \in Chains : homeSaves'[r] # Nil => homeSaves'[r] = homeSaves[r] /\ homeSaves[r] # Nil
  BY SlotFreed
<1>3. HomeStoreTypes' /\ HomeListsTyped' /\ HomeFormTyped' /\ Home!PreviewOfShownTask' /\ HomeOneList'
  BY <1>1 DEF HomeInv, HomeDialogTypes, HomeStoreTypes, HomeListsTyped, HomeFormTyped, Home!PreviewOfShownTask, HomeOneList
<1>4. HomeSectionsThere' /\ HomeMarksEarned'
  BY <1>2 DEF HomeInv, HomeSectionsThere, HomeMarksEarned
<1> QED BY <1>2, <1>3, <1>4 DEF HomeInv, HomeDialogTypes

LEMMA LostKeeps ==
  ASSUME HomeInv, Home!Lost
  PROVE  HomeInv'
<1>1. UNCHANGED <<homeRows, homeExists, homeTasks, homeDetail, homeForm, homePreview, homeActivated, homeCrossed, homeMixed>>
  BY DEF Home!Lost, Home!service, Home!dialog, Home!history
<1>2. ASSUME NEW a \in homeAsks, homeAsks' = homeAsks \ {a}, UNCHANGED <<Home!picker, homeLists, homeSaves>>
      PROVE  HomeInv'
  <2>1. HomeStoreTypes' /\ HomeListsTyped' /\ HomeFormTyped' /\ Home!PreviewOfShownTask' /\ HomeOneList' /\ HomeSavesTyped'
    BY <1>1, <1>2, SavesStay DEF HomeInv, HomeDialogTypes, HomeStoreTypes, HomeListsTyped, HomeFormTyped, Home!PreviewOfShownTask, HomeOneList, Home!picker
  <2>2. HomeSectionsThere' /\ HomeMarksEarned' /\ HomeCleanSaves'
    BY <1>1, <1>2 DEF HomeInv, HomeSectionsThere, HomeMarksEarned, HomeSavesEarned, HomeCleanSaves, HomeCleanSave
  <2> QED BY <2>1, <2>2 DEF HomeInv, HomeDialogTypes
<1>3. ASSUME NEW l \in homeLists, homeLists' = homeLists \ {l}, UNCHANGED <<homeAsks, homeSaves>>,
             IF l.shown THEN homeSections' = {} /\ homeLoading' = FALSE ELSE UNCHANGED Home!picker
      PROVE  HomeInv'
  <2>1. homeSections' \subseteq homeSections
    BY <1>3 DEF Home!picker
  <2>2. HomeStoreTypes' /\ HomeListsTyped' /\ HomeFormTyped' /\ Home!PreviewOfShownTask' /\ HomeOneList' /\ HomeSavesTyped'
    BY <1>1, <1>3, <2>1, SavesStay DEF HomeInv, HomeDialogTypes, HomeStoreTypes, HomeListsTyped, HomeFormTyped, Home!PreviewOfShownTask, HomeOneList
  <2>3. HomeSectionsThere' /\ HomeMarksEarned' /\ HomeCleanSaves'
    BY <1>1, <1>3 DEF HomeInv, HomeSectionsThere, HomeMarksEarned, HomeSavesEarned, HomeCleanSaves, HomeCleanSave
  <2> QED BY <2>2, <2>3 DEF HomeInv, HomeDialogTypes
<1>4. ASSUME NEW s \in Chains, homeSaves[s] # Nil, homeSaves' = Home!Set(s, Nil), UNCHANGED <<homeAsks, Home!picker, homeLists>>
      PROVE  HomeInv'
  BY <1>1, <1>4, EndsKeep DEF Home!picker
<1> QED BY <1>2, <1>3, <1>4 DEF Home!Lost

-----------------------------------------------------------------------------
LEMMA NextHome ==
  ASSUME HomeAssumption, HomeInv, [Home!Next]_homeVars
  PROVE  HomeInv'
<1>1. CASE UNCHANGED homeVars
  <2>1. UNCHANGED <<homeRows, homeExists, homeTasks, homeDetail, homeForm, homePreview, homeSections, homeAsks, homeLists, homeSaves, homeActivated, homeCrossed, homeMixed>>
    BY <1>1 DEF homeVars
  <2>2. HomeStoreTypes' /\ HomeListsTyped' /\ HomeFormTyped' /\ Home!PreviewOfShownTask' /\ HomeOneList' /\ HomeSavesTyped'
    BY <2>1, SavesStay DEF HomeInv, HomeDialogTypes, HomeStoreTypes, HomeListsTyped, HomeFormTyped, Home!PreviewOfShownTask, HomeOneList
  <2>3. HomeSectionsThere' /\ HomeMarksEarned' /\ HomeCleanSaves'
    BY <2>1 DEF HomeInv, HomeSectionsThere, HomeMarksEarned, HomeSavesEarned, HomeCleanSaves, HomeCleanSave
  <2> QED BY <2>2, <2>3 DEF HomeInv, HomeDialogTypes
<1>2. CASE Home!Gesture
  BY <1>2, OpenKeeps, CloseKeeps, ProjectKeeps, EditsKeep, CreateKeeps, MakeLiveKeeps, SaveKeeps DEF Home!Gesture
<1>3. CASE Home!Progress
  <2>1. CASE Home!Lost
    BY <2>1, LostKeeps
  <2>2. ASSUME NEW a \in homeAsks, Home!ServeAsk(a) \/ Home!Previewed(a) \/ Home!Activated(a)
        PROVE  HomeInv'
    BY <2>2, ServeAskKeeps, PreviewedKeeps, ActivatedKeeps
  <2>3. ASSUME NEW l \in homeLists, Home!ServeList(l) \/ Home!Listed(l)
        PROVE  HomeInv'
    BY <2>3, ServeListKeeps, ListedKeeps
  <2>4. ASSUME NEW s \in Chains, Home!ServePlace(s) \/ Home!Placed(s) \/ Home!Parsed(s)
        PROVE  HomeInv'
    BY <2>4, ServePlaceKeeps, PlacedKeeps, ParsedKeeps
  <2>5. ASSUME NEW s \in Chains, Home!ServePatch(s) \/ Home!Saved(s)
        PROVE  HomeInv'
    BY <2>5, ServePatchKeeps, SavedKeeps
  <2>6. ASSUME NEW s \in Chains, Home!Refused(s)
        PROVE  HomeInv'
    BY <2>6, EndsKeep DEF Home!Refused, Home!service, Home!dialog, Home!picker, Home!history
  <2> QED BY <1>3, <2>1, <2>2, <2>3, <2>4, <2>5, <2>6 DEF Home!Progress
<1> QED BY <1>1, <1>2, <1>3 DEF Home!Next

\* A clean save that ends has left in the row what the form said when it was pressed.
LEMMA CleanSaveSaid ==
  ASSUME HomeInv
  PROVE  Home!SaveKeepsForm
BY DEF HomeInv, HomeCleanSaves, HomeCleanSave, HomeFormSaid, HomeTarget, Home!SaveKeepsForm

\* A list that arrives alone holds the section of the form, or makes one.
LEMMA ListedSection ==
  ASSUME HomeAssumption, HomeInv, NEW l \in homeLists, Home!Listed(l), ~homeMixed, homeDetail # Nil, homeForm.section # Nil,
         homeForm.section.project = homeForm.project
  PROVE  homeForm'.section # Nil
<1>1. /\ l \in HomeListTypes /\ l.at = "done" /\ homeForm \in HomeFormTypes
      /\ homeForm' = [homeForm EXCEPT !.section = IF l.new # Nil THEN l.new ELSE IF @ \in l.items THEN @ ELSE Nil]
  BY DEF Home!Listed, HomeInv, HomeDialogTypes, HomeListsTyped, HomeFormTyped
<1>2. l.items = {x \in homeExists : x.project = l.project} /\ l.project = homeForm.project
  BY <1>1 DEF HomeInv, HomeOneList
<1>3. homeForm.section \in l.items
  BY <1>2 DEF HomeInv, HomeSectionsThere
<1>4. homeForm'.section = IF l.new # Nil THEN l.new ELSE homeForm.section
  BY <1>1, <1>3 DEF HomeFormTypes
<1> QED BY <1>4

LEMMA NextSection ==
  ASSUME HomeAssumption, HomeInv, [Home!Next]_homeVars
  PROVE  Home!ListKeepsSection
<1> SUFFICES ASSUME homeDetail # Nil, homeDetail' = homeDetail, homeLists' # homeLists, ~homeMixed, homeForm.section # Nil, homeForm'.project = homeForm.project,
                    homeForm.section.project = homeForm.project
             PROVE  homeForm'.section # Nil
  BY DEF Home!ListKeepsSection
<1>1. CASE UNCHANGED homeVars
  BY <1>1 DEF homeVars
<1>2. CASE Home!Gesture
  <2>1. ASSUME NEW p \in HomeProjects, Home!selectProject(p)
        PROVE  FALSE
    <3>1. homeForm \in HomeFormTypes /\ homeForm' = [homeForm EXCEPT !.project = p, !.section = Nil] /\ p # homeForm.project
      BY <2>1, OpenForm DEF Home!selectProject
    <3> QED BY <3>1 DEF HomeFormTypes
  <2>2. CASE \/ Home!closeDetailModal \/ \E t \in HomeTasks : Home!openDetailModal(t)
    BY <2>2 DEF Home!closeDetailModal, Home!openDetailModal
  <2>3. CASE \/ \E p \in HomeProjects \cup {Nil} : Home!setDetailContent(p)
             \/ \E s \in Home!Sections \cup {Nil} : Home!setDetailSectionId(s)
             \/ \E p \in Levels : Home!setDetailPriority(p)
    BY <2>3 DEF Home!setDetailContent, Home!setDetailSectionId, Home!setDetailPriority, Home!Edit
  <2>4. CASE Home!makeDetailTaskLive \/ Home!saveWithSection \/ \E n \in SectionNames : Home!createSection(n)
    BY <2>4 DEF Home!makeDetailTaskLive, Home!saveWithSection, Home!createSection, Home!dialog
  <2> QED BY <1>2, <2>1, <2>2, <2>3, <2>4 DEF Home!Gesture
<1>3. CASE Home!Progress
  <2>1. ASSUME NEW l \in homeLists, Home!Listed(l)
        PROVE  homeForm'.section # Nil
    BY <2>1, ListedSection
  <2>2. ASSUME NEW l \in homeLists, Home!ServeList(l)
        PROVE  homeForm'.section # Nil
    BY <2>2 DEF Home!ServeList, Home!dialog
  <2>3. CASE Home!Lost
    BY <2>3 DEF Home!Lost, Home!dialog
  <2>4. ASSUME NEW a \in homeAsks, Home!ServeAsk(a) \/ Home!Previewed(a) \/ Home!Activated(a)
        PROVE  FALSE
    BY <2>4 DEF Home!ServeAsk, Home!Previewed, Home!Activated
  <2>5. ASSUME NEW s \in Chains, Home!ServePlace(s) \/ Home!Placed(s) \/ Home!Parsed(s) \/ Home!ServePatch(s) \/ Home!Saved(s) \/ Home!Refused(s)
        PROVE  homeForm'.section # Nil
    BY <2>5 DEF Home!ServePlace, Home!Placed, Home!Parsed, Home!ServePatch, Home!Saved, Home!Refused
  <2> QED BY <1>3, <2>1, <2>2, <2>3, <2>4, <2>5 DEF Home!Progress
<1> QED BY <1>1, <1>2, <1>3 DEF Home!Next

-----------------------------------------------------------------------------
(* Of the pages of the client. *)

LEMMA StepsHome ==
  ASSUME [PagesNext]_pagesvars, OnHome
  PROVE  [Home!Next]_homeVars /\ OnHome'
BY DEF PagesNext, pagesvars, OnlyCards, OnlyHome, OnlyTeam, OnlyProfile, OnlyShare, OnCards, OnHome, OnTeam, OnProfile, OnShare

LEMMA StaysHome ==
  ASSUME [PagesNext]_pagesvars
  PROVE  OnHome' <=> OnHome
BY DEF PagesNext, pagesvars, OnlyCards, OnlyHome, OnlyTeam, OnlyProfile, OnlyShare, OnHome

LEMMA HomeInvMeansMarks ==
  ASSUME HomeInv
  PROVE  Home!TypeOK /\ Home!PreviewOfShownTask /\ Home!LiveOnlyWhenActivated
<1>1. Home!TypeOK /\ Home!PreviewOfShownTask
  BY DEF HomeInv, HomeDialogTypes, HomeStoreTypes, HomeFormTyped, HomeFormTypes, Home!TypeOK
<1>2. Home!LiveOnlyWhenActivated
  BY DEF HomeInv, HomeMarksEarned, Home!LiveOnlyWhenActivated
<1> QED BY <1>1, <1>2

(* PreviewsAreTheTasks: what the dialog shows of the board is about its own     *)
(* task, and only a task that was activated is live, unless an answer reached   *)
(* the dialog of another task (HomeController.tsx).                             *)
THEOREM DialogShowsItsTask == PagesSpec => []PreviewsAreTheTasks
<1> DEFINE Inv == OnHome => HomeInv
<1>0. HomeAssumption
  BY PagesAssumption
<1>1. PagesInit => Inv
  BY <1>0, InitHome DEF PagesInit, OnCards, OnHome, OnTeam, OnProfile, OnShare
<1>2. Inv /\ [PagesNext]_pagesvars => Inv'
  BY <1>0, StepsHome, StaysHome, NextHome
<1>3. Inv => PreviewsAreTheTasks
  BY <1>0, HomeInvMeansMarks DEF PreviewsAreTheTasks
<1> QED BY <1>1, <1>2, <1>3, PTL DEF PagesSpec

-----------------------------------------------------------------------------
(* The task dialog of the board (BoardTaskDialog, as ClientPages!Card), for     *)
(* every number of boards, cards, tasks, texts and chains of calls at a time.   *)

CardsTyped ==
  /\ cardRows \in [CardTasks -> CardRowTypes \cup {Nil}] /\ cardCards \in [Cards -> CardTypes \cup {Nil}]
  /\ cardActive \in OfBoards /\ cardShown \in [Cards -> CardTypes \cup {Nil}] /\ cardTorn \subseteq Cards
  /\ cardDialog = [open |-> FALSE, card |-> Nil, text |-> Nil, prio |-> Nil]
     \/ cardDialog \in [open : BOOLEAN, card : Cards \cup {Nil}, text : CardTextTypes, prio : CardPrios]
  /\ cardJobs \in [Chains -> CardJobTypes \cup {Nil}]

\* What a call of a chain has behind it.
CardHasRow(j) == j.op = "save" /\ ~(j.fresh /\ (j.step = "parse" \/ (j.step = "create" /\ j.at # "done")))
CardJobOK(j) ==
  /\ j.op = "complete" => j.step \in {"complete", "load"}
  /\ j.op = "save" => j.step # "complete"
  /\ j.step \in {"create", "link"} => j.fresh
  /\ j.at = "refused" => j.step \notin {"parse", "create", "update", "load"}
  /\ CardHasRow(j) <=> j.task # Nil
CardJobsOK == \A s \in Chains : cardJobs[s] # Nil => CardJobOK(cardJobs[s])

\* Who is said to be the card of a row, on the board, by the page or by a chain, is one card.
CardSaidOf(card, t) == card # Nil /\ card.task = t
CardByJob(j, k, t) == j # Nil /\ j.card = k /\ j.task = t
CardClaims(k, t) == CardSaidOf(cardCards[k], t) \/ CardSaidOf(cardShown[k], t) \/ \E s \in Chains : CardByJob(cardJobs[s], k, t)
CardOneCardPerRow ==
  \A t \in CardTasks, k \in Cards : CardClaims(k, t) => cardRows[t] # Nil /\ \A l \in Cards : CardClaims(l, t) => l = k
CardRowsTitled == \A t \in CardTasks : cardRows[t] # Nil => cardRows[t].title # ""

\* What is still to be done by a chain for the title and the priority of its card.
CardHalves(j) == (j.step = "update" /\ j.at = "done") \/ (j.step = "sync" /\ j.at # "done")
CardRelinked(j) == j.fresh /\ j.step = "link" /\ j.at = "done"
CardOwesTitle(j) == CardHalves(j) \/ CardRelinked(j) \/ (j.fresh /\ j.step = "title" /\ j.at # "done")
CardOwesPrio(j) == CardHalves(j) \/ CardRelinked(j) \/ (j.fresh /\ (j.step = "title" \/ (j.step = "prio" /\ j.at # "done")))
CardTitleAgrees(k) == Card!Content(cardCards[k].title) = cardRows[cardCards[k].task].title
CardPrioAgrees(k) == cardCards[k].prio = cardRows[cardCards[k].task].prio
CardAgreeOrOwed ==
  \A k \in Cards : Card!Linked(k) /\ k \notin cardTorn =>
    /\ CardTitleAgrees(k) \/ \E s \in Chains : cardJobs[s] # Nil /\ cardJobs[s].card = k /\ CardOwesTitle(cardJobs[s])
    /\ CardPrioAgrees(k) \/ \E s \in Chains : cardJobs[s] # Nil /\ cardJobs[s].card = k /\ CardOwesPrio(cardJobs[s])

\* How far a save has come that nothing came between.
CardWanted(j) == IF j.text.prio # Nil THEN j.text.prio ELSE j.typed
CardTitleSet(j) == (j.step = "title" /\ j.at = "done") \/ j.step \in {"prio", "update", "sync", "load"}
CardPrioSet(j) == (j.step = "prio" /\ j.at = "done") \/ j.step \in {"update", "sync", "load"}
CardRowSaved(j) == (j.step = "update" /\ j.at = "done") \/ j.step \in {"sync", "load"}
CardSaved(j) == (j.step = "sync" /\ j.at = "done") \/ j.step = "load"
CardCleanSave(j) ==
  /\ j.board = cardActive /\ cardDialog.prio = j.typed
  /\ j.step \in {"prio", "update"} => j.prio = CardWanted(j)
  /\ CardTitleSet(j) => Card!OnBoard(j.card, cardActive) /\ (Card!Linked(j.card) => cardRows[cardCards[j.card].task].title = Card!Content(j.text.content))
  /\ CardPrioSet(j) => (Card!Linked(j.card) => cardRows[cardCards[j.card].task].prio = CardWanted(j))
  /\ CardRowSaved(j) => cardRows[j.task].title = Card!Content(j.text.content) /\ cardRows[j.task].prio = CardWanted(j) /\ cardRows[j.task].board = cardActive
  /\ CardSaved(j) => cardCards[j.card].title = Card!Content(j.text.content) /\ cardCards[j.card].prio = CardWanted(j)
CardCleanSaves ==
  \A s \in Chains : cardJobs[s] # Nil /\ cardJobs[s].clean =>
    /\ \A r \in Chains : r # s => cardJobs[r] = Nil
    /\ cardJobs[s].op = "save" => CardCleanSave(cardJobs[s])

CardsInv == CardsTyped /\ CardJobsOK /\ CardOneCardPerRow /\ CardRowsTitled /\ CardAgreeOrOwed /\ CardCleanSaves

-----------------------------------------------------------------------------
LEMMA InitCards ==
  ASSUME CardsAssumption, Card!Init
  PROVE  CardsInv
<1>1. \A k \in Cards : cardShown[k] = Nil \/ cardShown[k] = cardCards[k]
  BY DEF Card!Init, Card!CardsOf
<1>2. CardsTyped
  <2>1. cardRows \in [CardTasks -> CardRowTypes \cup {Nil}] /\ cardCards \in [Cards -> CardTypes \cup {Nil}]
    BY DEF Card!Init, CardRowTypes, CardTypes, CardTitles, CardPrios
  <2>2. cardShown \in [Cards -> CardTypes \cup {Nil}]
    BY <2>1 DEF Card!Init, Card!CardsOf
  <2> QED BY <2>1, <2>2 DEF Card!Init, CardsTyped
<1>3. \A s \in Chains : cardJobs[s] = Nil
  BY DEF Card!Init
<1>4. CardOneCardPerRow
  <2> SUFFICES ASSUME NEW t \in CardTasks, NEW k \in Cards, CardClaims(k, t)
               PROVE  cardRows[t] # Nil /\ \A l \in Cards : CardClaims(l, t) => l = k
    BY DEF CardOneCardPerRow
  <2>1. ASSUME NEW l \in Cards, CardClaims(l, t)
        PROVE  Card!Linked(l) /\ cardCards[l].task = t
    <3>1. CardSaidOf(cardCards[l], t)
      BY <2>1, <1>1, <1>3 DEF CardClaims, CardSaidOf, CardByJob
    <3> QED BY <3>1 DEF CardsAssumption, CardSaidOf, Card!Linked
  <2>2. cardRows[t] = [board |-> cardCards[k].board, title |-> "old", prio |-> cardCards[k].prio, done |-> FALSE]
    BY <2>1 DEF Card!Init
  <2>3. cardRows[t] # Nil
    <3>1. cardCards[k] \in CardTypes
      BY <2>1, <1>2 DEF CardsTyped, Card!Linked
    <3>2. cardRows[t] \in CardRowTypes
      <4>1. "old" \in CardTitles
        BY DEF CardTitles
      <4>2. cardCards[k].board \in OfBoards /\ cardCards[k].prio \in CardPrios
        BY <3>1 DEF CardTypes
      <4> QED BY <2>2, <4>1, <4>2 DEF CardRowTypes
    <3> QED BY <3>2 DEF CardsAssumption
  <2> QED BY <2>1, <2>3 DEF Card!Init
<1>5. CardRowsTitled
  BY DEF Card!Init, CardRowsTitled
<1>6. CardAgreeOrOwed
  <2> SUFFICES ASSUME NEW k \in Cards, Card!Linked(k) PROVE CardTitleAgrees(k) /\ CardPrioAgrees(k)
    BY DEF CardAgreeOrOwed
  <2>1. cardRows[cardCards[k].task] = [board |-> cardCards[k].board, title |-> "old", prio |-> cardCards[k].prio, done |-> FALSE]
    BY DEF Card!Init
  <2>2. cardCards[k].title = "old"
    BY DEF Card!Init, Card!Linked
  <2> QED BY <2>1, <2>2 DEF CardTitleAgrees, CardPrioAgrees, Card!Content
<1> QED BY <1>2, <1>3, <1>4, <1>5, <1>6 DEF CardsInv, CardJobsOK, CardCleanSaves

-----------------------------------------------------------------------------
(* Gestures *)

LEMMA Quiet ==
  ASSUME CardsAssumption, CardsInv, UNCHANGED <<cardRows, cardCards, cardTorn>>, cardActive' \in OfBoards,
         cardDialog' = [open |-> FALSE, card |-> Nil, text |-> Nil, prio |-> Nil]
           \/ cardDialog' \in [open : BOOLEAN, card : Cards \cup {Nil}, text : CardTextTypes, prio : CardPrios],
         cardShown' \in [Cards -> CardTypes \cup {Nil}],
         \A k \in Cards : cardShown'[k] # Nil => cardShown'[k] = cardShown[k] \/ cardShown'[k] = cardCards[k],
         (cardJobs' = cardJobs /\ cardActive' = cardActive /\ cardDialog'.prio = cardDialog.prio) \/ Card!Disturb
  PROVE  CardsInv'
<1>1. ASSUME NEW s \in Chains
      PROVE  /\ cardJobs[s] # Nil => cardJobs'[s] \in {cardJobs[s], [cardJobs[s] EXCEPT !.clean = FALSE]}
             /\ cardJobs[s] = Nil => cardJobs'[s] = Nil
  BY DEF Card!Disturb
<1>2. ASSUME NEW s \in Chains, cardJobs[s] # Nil
      PROVE  /\ cardJobs'[s] \in CardJobTypes /\ cardJobs'[s].op = cardJobs[s].op /\ cardJobs'[s].card = cardJobs[s].card
             /\ cardJobs'[s].task = cardJobs[s].task /\ cardJobs'[s].fresh = cardJobs[s].fresh
             /\ cardJobs'[s].step = cardJobs[s].step /\ cardJobs'[s].at = cardJobs[s].at
  <2>1. cardJobs[s] \in CardJobTypes
    BY <1>2 DEF CardsInv, CardsTyped
  <2>2. CASE cardJobs'[s] = cardJobs[s]
    BY <2>1, <2>2
  <2>3. CASE cardJobs'[s] = [cardJobs[s] EXCEPT !.clean = FALSE]
    BY <2>1, <2>3 DEF CardJobTypes
  <2> QED BY <1>1, <1>2, <2>2, <2>3
<1>3. CardsTyped'
  <2>1. cardJobs' \in [Chains -> CardJobTypes \cup {Nil}]
    BY <1>1, <1>2 DEF CardsInv, CardsTyped, Card!Disturb
  <2> QED BY <2>1 DEF CardsInv, CardsTyped
<1>4. CardJobsOK'
  BY <1>1, <1>2 DEF CardsInv, CardJobsOK, CardJobOK, CardHasRow
<1>5. CardOneCardPerRow'
  <2>1. ASSUME NEW t \in CardTasks, NEW k \in Cards, CardClaims(k, t)'
        PROVE  CardClaims(k, t)
    BY <2>1, <1>1, <1>2 DEF CardClaims, CardSaidOf, CardByJob
  <2> QED BY <2>1 DEF CardsInv, CardOneCardPerRow
<1>6. CardRowsTitled'
  BY DEF CardsInv, CardRowsTitled
<1>7. CardAgreeOrOwed'
  <2> SUFFICES ASSUME NEW k \in Cards, Card!Linked(k)', k \notin cardTorn'
               PROVE  /\ CardTitleAgrees(k)' \/ \E s \in Chains : cardJobs'[s] # Nil /\ cardJobs'[s].card = k /\ CardOwesTitle(cardJobs'[s])
                      /\ CardPrioAgrees(k)' \/ \E s \in Chains : cardJobs'[s] # Nil /\ cardJobs'[s].card = k /\ CardOwesPrio(cardJobs'[s])
    BY DEF CardAgreeOrOwed
  <2>1. Card!Linked(k) /\ k \notin cardTorn
    BY DEF Card!Linked
  <2>2. ASSUME NEW s \in Chains, cardJobs[s] # Nil
        PROVE  cardJobs'[s] # Nil /\ (CardOwesTitle(cardJobs[s]) => CardOwesTitle(cardJobs'[s])) /\ (CardOwesPrio(cardJobs[s]) => CardOwesPrio(cardJobs'[s]))
    <3>1. cardJobs'[s] # Nil
      BY <1>2, <2>2 DEF CardsAssumption
    <3>2. cardJobs'[s].step = cardJobs[s].step /\ cardJobs'[s].at = cardJobs[s].at /\ cardJobs'[s].fresh = cardJobs[s].fresh
      BY <1>2, <2>2
    <3> QED BY <3>1, <3>2 DEF CardOwesTitle, CardOwesPrio, CardHalves, CardRelinked
  <2>3. CardTitleAgrees(k)' \/ \E s \in Chains : cardJobs'[s] # Nil /\ cardJobs'[s].card = k /\ CardOwesTitle(cardJobs'[s])
    <3>1. CardTitleAgrees(k)' <=> CardTitleAgrees(k)
      BY DEF CardTitleAgrees
    <3> QED BY <2>1, <2>2, <1>2, <3>1 DEF CardsInv, CardAgreeOrOwed
  <2>4. CardPrioAgrees(k)' \/ \E s \in Chains : cardJobs'[s] # Nil /\ cardJobs'[s].card = k /\ CardOwesPrio(cardJobs'[s])
    <3>1. CardPrioAgrees(k)' <=> CardPrioAgrees(k)
      BY DEF CardPrioAgrees
    <3> QED BY <2>1, <2>2, <1>2, <3>1 DEF CardsInv, CardAgreeOrOwed
  <2> QED BY <2>3, <2>4
<1>8. CardCleanSaves'
  <2>1. CASE cardJobs' = cardJobs /\ cardActive' = cardActive /\ cardDialog'.prio = cardDialog.prio
    <3>1. ASSUME NEW s \in Chains
          PROVE  CardCleanSave(cardJobs[s]) => CardCleanSave(cardJobs[s])'
      BY <2>1 DEF CardCleanSave, Card!OnBoard, Card!Linked
    <3> QED BY <2>1, <3>1 DEF CardsInv, CardCleanSaves
  <2>2. CASE Card!Disturb
    <3>1. ASSUME NEW s \in Chains, cardJobs'[s] # Nil
          PROVE  ~cardJobs'[s].clean
      BY <2>2, <3>1 DEF Card!Disturb, CardsInv, CardsTyped, CardJobTypes
    <3> QED BY <3>1 DEF CardCleanSaves
  <2> QED BY <2>1, <2>2
<1> QED BY <1>3, <1>4, <1>5, <1>6, <1>7, <1>8 DEF CardsInv

LEMMA SelectedIsCard ==
  ASSUME CardsInv, Card!DialogShown
  PROVE  /\ cardDialog \in [open : BOOLEAN, card : Cards \cup {Nil}, text : CardTextTypes, prio : CardPrios]
         /\ cardDialog.card \in Cards /\ cardShown[cardDialog.card] \in CardTypes /\ Card!selectedTaskCard = cardShown[cardDialog.card]
<1>1. cardDialog.card # Nil /\ cardDialog.open
  BY DEF Card!DialogShown, Card!selectedTaskCard
<1> QED BY <1>1 DEF CardsInv, CardsTyped, Card!DialogShown, Card!selectedTaskCard

LEMMA CardOpenKeeps ==
  ASSUME CardsAssumption, CardsInv, NEW k \in Cards, Card!openDetail(k)
  PROVE  CardsInv'
<1>1. cardShown[k] \in CardTypes
  BY DEF Card!openDetail, CardsInv, CardsTyped
<1>2. cardDialog' \in [open : BOOLEAN, card : Cards \cup {Nil}, text : CardTextTypes, prio : CardPrios]
  BY <1>1 DEF Card!openDetail, CardTypes, CardTextTypes
<1> QED BY <1>2, Quiet DEF Card!openDetail, CardsInv, CardsTyped

LEMMA CardCloseKeeps ==
  ASSUME CardsAssumption, CardsInv, Card!closeDetail
  PROVE  CardsInv'
<1>1. /\ cardDialog' \in [open : BOOLEAN, card : Cards \cup {Nil}, text : CardTextTypes, prio : CardPrios]
      /\ cardDialog'.prio = cardDialog.prio
  BY SelectedIsCard DEF Card!closeDetail
<1> QED BY <1>1, Quiet DEF Card!closeDetail, CardsInv, CardsTyped

LEMMA TypeKeeps ==
  ASSUME CardsAssumption, CardsInv, NEW text \in Texts, Card!onDetailTitleInput(text)
  PROVE  CardsInv'
<1>1. /\ cardDialog' \in [open : BOOLEAN, card : Cards \cup {Nil}, text : CardTextTypes, prio : CardPrios]
      /\ cardDialog'.prio = cardDialog.prio
  BY SelectedIsCard DEF Card!onDetailTitleInput, CardsAssumption
<1> QED BY <1>1, Quiet DEF Card!onDetailTitleInput, CardsInv, CardsTyped

LEMMA PriorityKeeps ==
  ASSUME CardsAssumption, CardsInv, NEW p \in Levels, Card!setDetailPriority(p)
  PROVE  CardsInv'
<1>1. cardDialog' \in [open : BOOLEAN, card : Cards \cup {Nil}, text : CardTextTypes, prio : CardPrios]
  BY SelectedIsCard DEF Card!setDetailPriority, CardPrios
<1> QED BY <1>1, Quiet DEF Card!setDetailPriority, CardsInv, CardsTyped

LEMMA SwitchKeeps ==
  ASSUME CardsAssumption, CardsInv, NEW b \in OfBoards, Card!SwitchBoard(b)
  PROVE  CardsInv'
<1>1. cardDialog' = [open |-> FALSE, card |-> Nil, text |-> Nil, prio |-> Nil]
      \/ cardDialog' \in [open : BOOLEAN, card : Cards \cup {Nil}, text : CardTextTypes, prio : CardPrios]
  <2>1. CASE cardDialog = [open |-> FALSE, card |-> Nil, text |-> Nil, prio |-> Nil]
    BY <2>1 DEF Card!SwitchBoard
  <2>2. CASE cardDialog \in [open : BOOLEAN, card : Cards \cup {Nil}, text : CardTextTypes, prio : CardPrios]
    BY <2>2 DEF Card!SwitchBoard
  <2> QED BY <2>1, <2>2 DEF CardsInv, CardsTyped
<1>2. cardShown' \in [Cards -> CardTypes \cup {Nil}] /\ \A k \in Cards : cardShown'[k] = Nil
  BY DEF Card!SwitchBoard
<1> QED BY <1>1, <1>2, Quiet DEF Card!SwitchBoard

LEMMA CardsOfBoard ==
  ASSUME CardsInv, NEW b
  PROVE  Card!CardsOf(b) \in [Cards -> CardTypes \cup {Nil}] /\ \A k \in Cards : Card!CardsOf(b)[k] # Nil => Card!CardsOf(b)[k] = cardCards[k]
BY DEF Card!CardsOf, CardsInv, CardsTyped

LEMMA LoadKeeps ==
  ASSUME CardsAssumption, CardsInv, Card!Load
  PROVE  CardsInv'
<1>1. cardShown' = Card!CardsOf(cardActive)
  BY DEF Card!Load
<1>2. cardShown' \in [Cards -> CardTypes \cup {Nil}] /\ \A k \in Cards : cardShown'[k] # Nil => cardShown'[k] = cardCards[k]
  BY <1>1, CardsOfBoard
<1> QED BY <1>2, Quiet DEF Card!Load, CardsInv, CardsTyped

\* A chain begins with a call to the board that is active.
LEMMA StartKeeps ==
  ASSUME CardsAssumption, CardsInv, UNCHANGED <<cardRows, cardCards, cardActive, cardShown, cardDialog, cardTorn>>,
         NEW j, Card!Start(j), j \in CardJobTypes, CardJobOK(j), j.board = cardActive, j.at = "sent", j.typed = cardDialog.prio,
         j.step \in {"parse", "create", "title", "complete"}, j.step = "title" => ~j.fresh,
         j.task # Nil => CardSaidOf(cardShown[j.card], j.task)
  PROVE  CardsInv'
<1>1. Card!FreeSlot \in Chains /\ cardJobs[Card!FreeSlot] = Nil
  BY DEF Card!Start, Card!FreeSlot
<1>2. PICK f \in Chains : f = Card!FreeSlot /\ cardJobs[f] = Nil
  BY <1>1
<1>3. PICK alone \in BOOLEAN : alone = \A s \in Chains : cardJobs[s] = Nil
  OBVIOUS
<1>4. cardJobs' = [s \in Chains |-> IF s = f THEN [j EXCEPT !.clean = alone]
                                    ELSE IF cardJobs[s] # Nil THEN [cardJobs[s] EXCEPT !.clean = FALSE] ELSE Nil]
  BY <1>2, <1>3 DEF Card!Start
<1>5. /\ cardJobs'[f] \in CardJobTypes /\ cardJobs'[f].op = j.op /\ cardJobs'[f].card = j.card /\ cardJobs'[f].task = j.task
      /\ cardJobs'[f].fresh = j.fresh /\ cardJobs'[f].step = j.step /\ cardJobs'[f].at = j.at /\ cardJobs'[f].text = j.text
      /\ cardJobs'[f].typed = j.typed /\ cardJobs'[f].board = j.board /\ cardJobs'[f].clean = alone
  BY <1>4 DEF CardJobTypes
<1>6. ASSUME NEW s \in Chains, s # f
      PROVE  cardJobs'[s] = IF cardJobs[s] # Nil THEN [cardJobs[s] EXCEPT !.clean = FALSE] ELSE Nil
  BY <1>4, <1>6
<1>7. ASSUME NEW s \in Chains, s # f, cardJobs[s] # Nil
      PROVE  /\ cardJobs'[s] \in CardJobTypes /\ cardJobs'[s] # Nil /\ cardJobs'[s].op = cardJobs[s].op /\ cardJobs'[s].card = cardJobs[s].card
             /\ cardJobs'[s].task = cardJobs[s].task /\ cardJobs'[s].fresh = cardJobs[s].fresh
             /\ cardJobs'[s].step = cardJobs[s].step /\ cardJobs'[s].at = cardJobs[s].at /\ cardJobs'[s].clean = FALSE
  <2>1. cardJobs[s] \in CardJobTypes
    BY <1>7 DEF CardsInv, CardsTyped
  <2>2. cardJobs'[s] = [cardJobs[s] EXCEPT !.clean = FALSE]
    BY <1>6, <1>7
  <2>3. cardJobs'[s] \in CardJobTypes
    BY <2>1, <2>2 DEF CardJobTypes
  <2> QED BY <2>1, <2>2, <2>3 DEF CardJobTypes, CardsAssumption
<1>8. CardsTyped'
  <2>1. cardJobs' \in [Chains -> CardJobTypes \cup {Nil}]
    BY <1>4, <1>5, <1>6, <1>7
  <2> QED BY <2>1 DEF CardsInv, CardsTyped
<1>9. CardJobsOK'
  <2>1. CardJobOK(cardJobs'[f])
    BY <1>5 DEF CardJobOK, CardHasRow
  <2>2. ASSUME NEW s \in Chains, s # f, cardJobs'[s] # Nil
        PROVE  CardJobOK(cardJobs'[s])
    <3>1. cardJobs[s] # Nil
      BY <2>2, <1>6
    <3>2. CardJobOK(cardJobs[s])
      BY <3>1 DEF CardsInv, CardJobsOK
    <3> QED BY <3>1, <3>2, <2>2, <1>7 DEF CardJobOK, CardHasRow
  <2>3. ASSUME NEW s \in Chains, cardJobs'[s] # Nil PROVE CardJobOK(cardJobs'[s])
    BY <2>1, <2>2, <2>3
  <2> QED BY <2>3 DEF CardJobsOK, CardJobOK, CardHasRow
<1>10. CardOneCardPerRow'
  <2>1. ASSUME NEW t \in CardTasks, NEW k \in Cards, CardClaims(k, t)'
        PROVE  CardClaims(k, t)
    <3>1. CASE CardSaidOf(cardCards[k], t) \/ CardSaidOf(cardShown[k], t)
      BY <3>1 DEF CardClaims
    <3>2. ASSUME NEW s \in Chains, CardByJob(cardJobs'[s], k, t)
          PROVE  CardClaims(k, t)
      <4>1. CASE s = f
        BY <3>2, <4>1, <1>5 DEF CardsAssumption, CardByJob, CardClaims
      <4>2. CASE s # f
        BY <3>2, <4>2, <1>6, <1>7 DEF CardByJob, CardClaims
      <4> QED BY <4>1, <4>2
    <3> QED BY <2>1, <3>1, <3>2 DEF CardClaims, CardSaidOf, CardByJob
  <2> QED BY <2>1 DEF CardsInv, CardOneCardPerRow
<1>11. CardRowsTitled'
  BY DEF CardsInv, CardRowsTitled
<1>12. CardAgreeOrOwed'
  <2> SUFFICES ASSUME NEW k \in Cards, Card!Linked(k)', k \notin cardTorn'
               PROVE  /\ CardTitleAgrees(k)' \/ \E s \in Chains : cardJobs'[s] # Nil /\ cardJobs'[s].card = k /\ CardOwesTitle(cardJobs'[s])
                      /\ CardPrioAgrees(k)' \/ \E s \in Chains : cardJobs'[s] # Nil /\ cardJobs'[s].card = k /\ CardOwesPrio(cardJobs'[s])
    BY DEF CardAgreeOrOwed
  <2>1. Card!Linked(k) /\ k \notin cardTorn
    BY DEF Card!Linked
  <2>2. ASSUME NEW s \in Chains, cardJobs[s] # Nil
        PROVE  /\ cardJobs'[s] # Nil /\ cardJobs'[s].card = cardJobs[s].card
               /\ (CardOwesTitle(cardJobs[s]) => CardOwesTitle(cardJobs'[s])) /\ (CardOwesPrio(cardJobs[s]) => CardOwesPrio(cardJobs'[s]))
    BY <1>2, <1>7, <2>2 DEF CardOwesTitle, CardOwesPrio, CardHalves, CardRelinked
  <2>3. (CardTitleAgrees(k)' <=> CardTitleAgrees(k)) /\ (CardPrioAgrees(k)' <=> CardPrioAgrees(k))
    BY DEF CardTitleAgrees, CardPrioAgrees
  <2> QED BY <2>1, <2>2, <2>3 DEF CardsInv, CardAgreeOrOwed
<1>13. CardCleanSaves'
  <2> SUFFICES ASSUME NEW s \in Chains, cardJobs'[s] # Nil, cardJobs'[s].clean
               PROVE  /\ \A r \in Chains : r # s => cardJobs'[r] = Nil
                      /\ CardCleanSave(cardJobs[s])'
    BY DEF CardCleanSaves
  <2>1. s = f
    BY <1>6, <1>7
  <2>2. \A r \in Chains : r # s => cardJobs'[r] = Nil
    BY <2>1, <1>3, <1>5, <1>6
  <2>3. CardCleanSave(cardJobs[s])'
    BY <2>1, <1>5 DEF CardCleanSave, CardTitleSet, CardPrioSet, CardRowSaved, CardSaved
  <2> QED BY <2>2, <2>3
<1> QED BY <1>8, <1>9, <1>10, <1>11, <1>12, <1>13 DEF CardsInv

LEMMA CardSaveKeeps ==
  ASSUME CardsAssumption, CardsInv, Card!saveDetail
  PROVE  CardsInv'
<1>1. PICK task : task = Card!selectedTaskCard.task
  OBVIOUS
<1>2. PICK first : first = IF cardDialog.text.prio # Nil THEN "parse" ELSE IF task = Nil THEN "create" ELSE "title"
  OBVIOUS
<1>3. PICK j : j = [op |-> "save", card |-> cardDialog.card, task |-> task, fresh |-> task = Nil, text |-> cardDialog.text,
                    typed |-> cardDialog.prio, clean |-> TRUE, step |-> first, at |-> "sent", board |-> Nil, prio |-> Nil]
  OBVIOUS
<1>4. PICK v : v = Card!Sent(j, first)
  OBVIOUS
<1>5. Card!DialogShown /\ Card!Start(v) /\ UNCHANGED <<cardRows, cardCards, cardActive, cardShown, cardDialog, cardTorn>>
  BY <1>1, <1>2, <1>3, <1>4 DEF Card!saveDetail
<1>6. /\ cardDialog.card \in Cards /\ task \in CardTasks \cup {Nil} /\ cardDialog.text \in CardTextTypes /\ cardDialog.prio \in CardPrios
      /\ cardShown[cardDialog.card] \in CardTypes /\ task = cardShown[cardDialog.card].task
  BY <1>1, <1>5, SelectedIsCard DEF CardTypes
<1>7. cardShown[cardDialog.card] # Nil
  BY <1>6 DEF CardsAssumption
<1>8. v = [op |-> "save", card |-> cardDialog.card, task |-> task, fresh |-> task = Nil, text |-> cardDialog.text,
           typed |-> cardDialog.prio, clean |-> TRUE, step |-> first, at |-> "sent", board |-> cardActive, prio |-> Nil]
  BY <1>2, <1>3, <1>4 DEF Card!Sent
<1>9. v \in CardJobTypes
  <2>1. first \in Card!Steps /\ Nil \in CardPrios /\ cardActive \in OfBoards
    BY <1>2 DEF Card!Steps, CardPrios, CardsInv, CardsTyped
  <2> QED BY <1>6, <1>8, <2>1 DEF CardJobTypes
<1>10. CardJobOK(v)
  BY <1>2, <1>8 DEF CardJobOK, CardHasRow
<1>11. v.task # Nil => CardSaidOf(cardShown[v.card], v.task)
  BY <1>6, <1>7, <1>8 DEF CardSaidOf
<1> QED BY <1>2, <1>5, <1>8, <1>9, <1>10, <1>11, StartKeeps

LEMMA CompleteKeeps ==
  ASSUME CardsAssumption, CardsInv, Card!completeStack
  PROVE  CardsInv'
<1>1. PICK j : j = [op |-> "complete", card |-> cardDialog.card, task |-> Nil, fresh |-> FALSE, text |-> cardDialog.text,
                    typed |-> cardDialog.prio, clean |-> TRUE, step |-> "complete", at |-> "sent", board |-> Nil, prio |-> Nil]
  OBVIOUS
<1>2. PICK v : v = Card!Sent(j, "complete")
  OBVIOUS
<1>3. Card!DialogShown /\ Card!Start(v) /\ UNCHANGED <<cardRows, cardCards, cardActive, cardShown, cardDialog, cardTorn>>
  BY <1>1, <1>2 DEF Card!completeStack
<1>4. cardDialog.card \in Cards /\ cardDialog.text \in CardTextTypes /\ cardDialog.prio \in CardPrios
  BY <1>3, SelectedIsCard
<1>5. v = [op |-> "complete", card |-> cardDialog.card, task |-> Nil, fresh |-> FALSE, text |-> cardDialog.text,
           typed |-> cardDialog.prio, clean |-> TRUE, step |-> "complete", at |-> "sent", board |-> cardActive, prio |-> Nil]
  BY <1>1, <1>2 DEF Card!Sent
<1>6. v \in CardJobTypes
  <2>1. "complete" \in Card!Steps /\ Nil \in CardPrios /\ cardActive \in OfBoards
    BY DEF Card!Steps, CardPrios, CardsInv, CardsTyped
  <2> QED BY <1>4, <1>5, <2>1 DEF CardJobTypes
<1>7. CardJobOK(v)
  BY <1>5 DEF CardJobOK, CardHasRow
<1> QED BY <1>3, <1>5, <1>6, <1>7, StartKeeps

-----------------------------------------------------------------------------
(* The steps of a chain *)

\* A chain goes on by itself.
LEMMA Moves ==
  ASSUME CardsAssumption, CardsInv, NEW s \in Chains, cardJobs[s] # Nil,
         NEW v \in CardJobTypes, CardJobOK(v), cardJobs' = [cardJobs EXCEPT ![s] = v]
  PROVE  /\ cardJobs' \in [Chains -> CardJobTypes \cup {Nil}] /\ CardJobsOK'
         /\ cardJobs'[s] = v /\ v # Nil
         /\ \A r \in Chains : r # s => cardJobs'[r] = cardJobs[r]
<1>1. cardJobs' \in [Chains -> CardJobTypes \cup {Nil}] /\ cardJobs'[s] = v /\ \A r \in Chains : r # s => cardJobs'[r] = cardJobs[r]
  BY DEF CardsInv, CardsTyped
<1>2. \A r \in Chains : cardJobs'[r] # Nil => CardJobOK(cardJobs'[r])
  BY <1>1 DEF CardsInv, CardJobsOK
<1> QED BY <1>1, <1>2 DEF CardJobsOK, CardJobOK, CardHasRow, CardsAssumption

LEMMA CleanMoves ==
  ASSUME CardsInv, NEW s \in Chains, cardJobs[s] # Nil, NEW v, cardJobs'[s] = v,
         \A r \in Chains : r # s => cardJobs'[r] = cardJobs[r],
         v.clean => cardJobs[s].clean, v.clean /\ v.op = "save" => CardCleanSave(v)'
  PROVE  CardCleanSaves'
<1> SUFFICES ASSUME NEW q \in Chains, cardJobs'[q] # Nil, cardJobs'[q].clean
             PROVE  /\ \A r \in Chains : r # q => cardJobs'[r] = Nil
                    /\ cardJobs'[q].op = "save" => CardCleanSave(cardJobs[q])'
  BY DEF CardCleanSaves
<1>1. q = s
  BY DEF CardsInv, CardCleanSaves
<1>2. \A r \in Chains : r # q => cardJobs'[r] = Nil
  BY <1>1 DEF CardsInv, CardCleanSaves
<1>3. cardJobs'[q].op = "save" => CardCleanSave(cardJobs[q])'
  <2>1. ASSUME v.op = "save" PROVE CardCleanSave(v)'
    BY <1>1, <2>1
  <2>2. CardCleanSave(v)' => CardCleanSave(cardJobs[q])'
    BY <1>1 DEF CardCleanSave, Card!OnBoard, Card!Linked, Card!Content, CardWanted, CardTitleSet, CardPrioSet, CardRowSaved, CardSaved
  <2> QED BY <1>1, <2>1, <2>2
<1> QED BY <1>2, <1>3

\* A step that changes nothing but the chain, and the cards the page has.
LEMMA AdvanceKeeps ==
  ASSUME CardsAssumption, CardsInv, NEW s \in Chains, cardJobs[s] # Nil,
         NEW v \in CardJobTypes, CardJobOK(v), cardJobs' = [cardJobs EXCEPT ![s] = v], UNCHANGED <<cardRows, cardCards, cardActive, cardDialog, cardShown, cardTorn>>,
         v.card = cardJobs[s].card, v.task = cardJobs[s].task, v.clean = cardJobs[s].clean, v.op = cardJobs[s].op,
         CardOwesTitle(cardJobs[s]) => CardOwesTitle(v), CardOwesPrio(cardJobs[s]) => CardOwesPrio(v),
         v.op = "save" /\ CardCleanSave(cardJobs[s]) => CardCleanSave(v)
  PROVE  CardsInv'
<1>1. /\ cardJobs' \in [Chains -> CardJobTypes \cup {Nil}] /\ CardJobsOK'
      /\ cardJobs'[s] = v /\ v # Nil /\ \A r \in Chains : r # s => cardJobs'[r] = cardJobs[r]
  BY Moves
<1>2. CardsTyped'
  BY <1>1 DEF CardsInv, CardsTyped
<1>3. CardOneCardPerRow'
  <2>1. ASSUME NEW t \in CardTasks, NEW k \in Cards, CardClaims(k, t)'
        PROVE  CardClaims(k, t)
    BY <2>1, <1>1 DEF CardClaims, CardSaidOf, CardByJob
  <2> QED BY <2>1 DEF CardsInv, CardOneCardPerRow
<1>4. CardRowsTitled'
  BY DEF CardsInv, CardRowsTitled
<1>5. CardAgreeOrOwed'
  <2> SUFFICES ASSUME NEW k \in Cards, Card!Linked(k)', k \notin cardTorn'
               PROVE  /\ CardTitleAgrees(k)' \/ \E r \in Chains : cardJobs'[r] # Nil /\ cardJobs'[r].card = k /\ CardOwesTitle(cardJobs'[r])
                      /\ CardPrioAgrees(k)' \/ \E r \in Chains : cardJobs'[r] # Nil /\ cardJobs'[r].card = k /\ CardOwesPrio(cardJobs'[r])
    BY DEF CardAgreeOrOwed
  <2>1. Card!Linked(k) /\ k \notin cardTorn
    BY DEF Card!Linked
  <2>2. ASSUME NEW r \in Chains, cardJobs[r] # Nil
        PROVE  /\ cardJobs'[r] # Nil /\ cardJobs'[r].card = cardJobs[r].card
               /\ (CardOwesTitle(cardJobs[r]) => CardOwesTitle(cardJobs'[r])) /\ (CardOwesPrio(cardJobs[r]) => CardOwesPrio(cardJobs'[r]))
    <3>1. CASE r = s
      BY <3>1, <1>1
    <3>2. CASE r # s
      BY <3>2, <2>2, <1>1
    <3> QED BY <3>1, <3>2
  <2>3. (CardTitleAgrees(k)' <=> CardTitleAgrees(k)) /\ (CardPrioAgrees(k)' <=> CardPrioAgrees(k))
    BY DEF CardTitleAgrees, CardPrioAgrees
  <2> QED BY <2>1, <2>2, <2>3 DEF CardsInv, CardAgreeOrOwed
<1>6. CardCleanSaves'
  <2>1. CardCleanSave(v)' <=> CardCleanSave(v)
    BY DEF CardCleanSave, Card!OnBoard, Card!Linked
  <2>2. v.clean /\ v.op = "save" => CardCleanSave(v)'
    BY <2>1 DEF CardsInv, CardCleanSaves
  <2> QED BY <1>1, <2>2, CleanMoves
<1> QED BY <1>1, <1>2, <1>3, <1>4, <1>5, <1>6 DEF CardsInv

\* What a step that was served leaves of its chain.
LEMMA ServedJob ==
  ASSUME NEW j \in CardJobTypes, NEW at \in {"sent", "done", "refused"}, NEW v, v = [j EXCEPT !.at = at]
  PROVE  /\ v \in CardJobTypes /\ v.op = j.op /\ v.card = j.card /\ v.task = j.task /\ v.fresh = j.fresh /\ v.text = j.text
         /\ v.typed = j.typed /\ v.clean = j.clean /\ v.step = j.step /\ v.at = at /\ v.board = j.board /\ v.prio = j.prio
BY DEF CardJobTypes

LEMMA ServeNothing ==
  ASSUME CardsAssumption, CardsInv, NEW s \in Chains, cardJobs[s] # Nil, cardJobs[s].at = "sent",
         NEW at \in {"done", "refused"}, cardJobs' = [cardJobs EXCEPT ![s].at = at],
         UNCHANGED <<cardRows, cardCards, cardActive, cardDialog, cardShown, cardTorn>>,
         IF at = "done" THEN cardJobs[s].step \in {"parse", "load"} ELSE cardJobs[s].step \notin {"parse", "create", "update", "load"}
  PROVE  CardsInv'
<1>1. cardJobs[s] \in CardJobTypes /\ CardJobOK(cardJobs[s])
  BY DEF CardsInv, CardsTyped, CardJobsOK
<1>2. PICK v : v = [cardJobs[s] EXCEPT !.at = at]
  OBVIOUS
<1>3. /\ v \in CardJobTypes /\ v.op = cardJobs[s].op /\ v.card = cardJobs[s].card /\ v.task = cardJobs[s].task /\ v.fresh = cardJobs[s].fresh
      /\ v.text = cardJobs[s].text /\ v.typed = cardJobs[s].typed /\ v.clean = cardJobs[s].clean /\ v.step = cardJobs[s].step /\ v.at = at
      /\ v.board = cardJobs[s].board /\ v.prio = cardJobs[s].prio
  BY <1>1, <1>2, ServedJob
<1>4. cardJobs' = [cardJobs EXCEPT ![s] = v]
  BY <1>2 DEF CardsInv, CardsTyped
<1>5. CardJobOK(v)
  BY <1>1, <1>3 DEF CardJobOK, CardHasRow
<1>6. (CardOwesTitle(cardJobs[s]) => CardOwesTitle(v)) /\ (CardOwesPrio(cardJobs[s]) => CardOwesPrio(v))
  BY <1>3 DEF CardOwesTitle, CardOwesPrio, CardHalves, CardRelinked
<1>7. CardCleanSave(cardJobs[s]) => CardCleanSave(v)
  <2>1. CardTitleSet(v) => CardTitleSet(cardJobs[s])
    BY <1>3 DEF CardTitleSet
  <2>2. (CardPrioSet(v) => CardPrioSet(cardJobs[s])) /\ (CardRowSaved(v) => CardRowSaved(cardJobs[s])) /\ (CardSaved(v) => CardSaved(cardJobs[s]))
    BY <1>3 DEF CardPrioSet, CardRowSaved, CardSaved
  <2>3. CardWanted(v) = CardWanted(cardJobs[s])
    BY <1>3 DEF CardWanted
  <2> SUFFICES ASSUME CardCleanSave(cardJobs[s]) PROVE CardCleanSave(v)
    OBVIOUS
  <2>4. v.board = cardActive /\ cardDialog.prio = v.typed /\ (v.step \in {"prio", "update"} => v.prio = CardWanted(v))
    BY <1>3, <2>3 DEF CardCleanSave
  <2>5. CardTitleSet(v) => Card!OnBoard(v.card, cardActive) /\ (Card!Linked(v.card) => cardRows[cardCards[v.card].task].title = Card!Content(v.text.content))
    BY <1>3, <2>1 DEF CardCleanSave
  <2>6. CardPrioSet(v) => (Card!Linked(v.card) => cardRows[cardCards[v.card].task].prio = CardWanted(v))
    BY <1>3, <2>2, <2>3 DEF CardCleanSave
  <2>7. CardRowSaved(v) => cardRows[v.task].title = Card!Content(v.text.content) /\ cardRows[v.task].prio = CardWanted(v) /\ cardRows[v.task].board = cardActive
    BY <1>3, <2>2, <2>3 DEF CardCleanSave
  <2>8. CardSaved(v) => cardCards[v.card].title = Card!Content(v.text.content) /\ cardCards[v.card].prio = CardWanted(v)
    BY <1>3, <2>2, <2>3 DEF CardCleanSave
  <2> QED BY <2>4, <2>5, <2>6, <2>7, <2>8 DEF CardCleanSave
<1> QED BY <1>3, <1>4, <1>5, <1>6, <1>7, AdvanceKeeps

LEMMA RowsOfCards ==
  ASSUME CardsAssumption, CardsInv
  PROVE  /\ \A k \in Cards : Card!Linked(k) =>
              /\ cardCards[k] \in CardTypes /\ cardCards[k].task \in CardTasks
              /\ cardRows[cardCards[k].task] \in CardRowTypes /\ cardRows[cardCards[k].task].title # ""
              /\ \A l \in Cards : Card!Linked(l) /\ l # k => cardCards[l].task # cardCards[k].task
         /\ \A s \in Chains : cardJobs[s] # Nil /\ cardJobs[s].task # Nil =>
              /\ cardJobs[s].task \in CardTasks /\ cardRows[cardJobs[s].task] \in CardRowTypes
              /\ \A l \in Cards : Card!Linked(l) /\ l # cardJobs[s].card => cardCards[l].task # cardJobs[s].task
<1>1. ASSUME NEW k \in Cards, Card!Linked(k)
      PROVE  /\ cardCards[k] \in CardTypes /\ cardCards[k].task \in CardTasks /\ CardClaims(k, cardCards[k].task)
             /\ cardRows[cardCards[k].task] \in CardRowTypes /\ cardRows[cardCards[k].task].title # ""
  <2>1. cardCards[k] \in CardTypes /\ cardCards[k].task \in CardTasks
    BY <1>1 DEF Card!Linked, CardsInv, CardsTyped, CardTypes
  <2>2. CardClaims(k, cardCards[k].task)
    BY <1>1 DEF CardClaims, CardSaidOf, Card!Linked
  <2>3. cardRows[cardCards[k].task] # Nil
    BY <2>1, <2>2 DEF CardsInv, CardOneCardPerRow
  <2> QED BY <2>1, <2>2, <2>3 DEF CardsInv, CardsTyped, CardRowsTitled
<1>2. ASSUME NEW k \in Cards, Card!Linked(k), NEW l \in Cards, Card!Linked(l), l # k
      PROVE  cardCards[l].task # cardCards[k].task
  BY <1>1, <1>2 DEF CardsInv, CardOneCardPerRow
<1>3. ASSUME NEW s \in Chains, cardJobs[s] # Nil, cardJobs[s].task # Nil
      PROVE  /\ cardJobs[s].task \in CardTasks /\ cardRows[cardJobs[s].task] \in CardRowTypes
             /\ \A l \in Cards : Card!Linked(l) /\ l # cardJobs[s].card => cardCards[l].task # cardJobs[s].task
  <2>1. cardJobs[s].task \in CardTasks /\ cardJobs[s].card \in Cards
    BY <1>3 DEF CardsInv, CardsTyped, CardJobTypes
  <2>2. CardClaims(cardJobs[s].card, cardJobs[s].task)
    BY <1>3 DEF CardClaims, CardByJob
  <2>3. cardRows[cardJobs[s].task] \in CardRowTypes
    BY <2>1, <2>2 DEF CardsInv, CardOneCardPerRow, CardsTyped
  <2>4. ASSUME NEW l \in Cards, Card!Linked(l), l # cardJobs[s].card
        PROVE  cardCards[l].task # cardJobs[s].task
    BY <2>1, <2>2, <2>4, <1>1 DEF CardsInv, CardOneCardPerRow
  <2> QED BY <2>1, <2>3, <2>4
<1> QED BY <1>1, <1>2, <1>3

\* The service changed a card or a row, and the chain knows.
LEMMA StoreKeepsRows ==
  ASSUME CardsAssumption, CardsInv, NEW s \in Chains, cardJobs[s] # Nil,
         NEW v \in CardJobTypes, CardJobOK(v), cardJobs' = [cardJobs EXCEPT ![s] = v], v.card = cardJobs[s].card,
         v.task = cardJobs[s].task \/ (v.task \in CardTasks /\ cardRows[v.task] = Nil /\ cardRows'[v.task] # Nil),
         cardCards' \in [Cards -> CardTypes \cup {Nil}], cardRows' \in [CardTasks -> CardRowTypes \cup {Nil}],
         \A t \in CardTasks : cardRows[t] # Nil => cardRows'[t] # Nil,
         \A t \in CardTasks : cardRows'[t] # Nil => cardRows'[t].title # "",
         \A k \in Cards, t \in CardTasks : CardSaidOf(cardCards'[k], t) => CardClaims(k, t),
         cardTorn' \subseteq Cards, UNCHANGED <<cardActive, cardDialog, cardShown>>
  PROVE  /\ CardsTyped' /\ CardJobsOK' /\ CardOneCardPerRow' /\ CardRowsTitled'
         /\ cardJobs'[s] = v /\ v # Nil /\ \A r \in Chains : r # s => cardJobs'[r] = cardJobs[r]
<1>1. /\ cardJobs' \in [Chains -> CardJobTypes \cup {Nil}] /\ CardJobsOK'
      /\ cardJobs'[s] = v /\ v # Nil /\ \A r \in Chains : r # s => cardJobs'[r] = cardJobs[r]
  BY Moves
<1>2. CardsTyped'
  BY <1>1 DEF CardsInv, CardsTyped
<1>3. CardOneCardPerRow'
  <2>1. ASSUME NEW t \in CardTasks, NEW k \in Cards, CardClaims(k, t)'
        PROVE  CardClaims(k, t) \/ (k = v.card /\ cardRows[t] = Nil /\ cardRows'[t] # Nil)
    <3>1. CASE CardSaidOf(cardCards'[k], t) \/ CardSaidOf(cardShown[k], t)
      BY <3>1 DEF CardClaims
    <3>2. ASSUME NEW r \in Chains, CardByJob(cardJobs'[r], k, t)
          PROVE  CardClaims(k, t) \/ (k = v.card /\ cardRows[t] = Nil /\ cardRows'[t] # Nil)
      <4>1. CASE r = s
        BY <3>2, <4>1, <1>1 DEF CardByJob, CardClaims
      <4>2. CASE r # s
        BY <3>2, <4>2, <1>1 DEF CardByJob, CardClaims
      <4> QED BY <4>1, <4>2
    <3> QED BY <2>1, <3>1, <3>2 DEF CardClaims, CardSaidOf, CardByJob
  <2>2. ASSUME NEW t \in CardTasks, NEW k \in Cards, NEW l \in Cards, CardClaims(k, t)', CardClaims(l, t)'
        PROVE  cardRows'[t] # Nil /\ l = k
    BY <2>2, <2>1 DEF CardsInv, CardOneCardPerRow
  <2> QED BY <2>2 DEF CardOneCardPerRow
<1>4. CardRowsTitled'
  BY DEF CardRowsTitled
<1> QED BY <1>1, <1>2, <1>3, <1>4

LEMMA StoreKeepsAgreement ==
  ASSUME CardsAssumption, CardsInv, NEW s \in Chains, cardJobs[s] # Nil,
         NEW v, v # Nil, v.card = cardJobs[s].card, cardJobs'[s] = v, \A r \in Chains : r # s => cardJobs'[r] = cardJobs[r],
         \A l \in Cards : l # v.card => cardCards'[l] = cardCards[l] /\ (l \in cardTorn => l \in cardTorn'),
         \A l \in Cards : Card!Linked(l) /\ l # v.card =>
           cardRows'[cardCards[l].task].title = cardRows[cardCards[l].task].title /\ cardRows'[cardCards[l].task].prio = cardRows[cardCards[l].task].prio,
         NEW k \in Cards, k = v.card,
         (Card!Linked(k) /\ k \notin cardTorn)' =>
           /\ CardTitleAgrees(k)' \/ CardOwesTitle(v) \/ \E r \in Chains : r # s /\ cardJobs[r] # Nil /\ cardJobs[r].card = k /\ CardOwesTitle(cardJobs[r])
           /\ CardPrioAgrees(k)' \/ CardOwesPrio(v) \/ \E r \in Chains : r # s /\ cardJobs[r] # Nil /\ cardJobs[r].card = k /\ CardOwesPrio(cardJobs[r])
  PROVE  CardAgreeOrOwed'
<1> SUFFICES ASSUME NEW l \in Cards, Card!Linked(l)', l \notin cardTorn'
             PROVE  /\ CardTitleAgrees(l)' \/ \E r \in Chains : cardJobs'[r] # Nil /\ cardJobs'[r].card = l /\ CardOwesTitle(cardJobs'[r])
                    /\ CardPrioAgrees(l)' \/ \E r \in Chains : cardJobs'[r] # Nil /\ cardJobs'[r].card = l /\ CardOwesPrio(cardJobs'[r])
  BY DEF CardAgreeOrOwed
<1>1. CASE l = k
  <2>1. \A r \in Chains : r # s /\ cardJobs[r] # Nil => cardJobs'[r] = cardJobs[r] /\ cardJobs'[r] # Nil
    OBVIOUS
  <2>2. CardTitleAgrees(l)' \/ \E r \in Chains : cardJobs'[r] # Nil /\ cardJobs'[r].card = l /\ CardOwesTitle(cardJobs'[r])
    BY <1>1, <2>1
  <2>3. CardPrioAgrees(l)' \/ \E r \in Chains : cardJobs'[r] # Nil /\ cardJobs'[r].card = l /\ CardOwesPrio(cardJobs'[r])
    BY <1>1, <2>1
  <2> QED BY <2>2, <2>3
<1>2. CASE l # k
  <2>1. Card!Linked(l) /\ l \notin cardTorn
    BY <1>2 DEF Card!Linked
  <2>2. (CardTitleAgrees(l)' <=> CardTitleAgrees(l)) /\ (CardPrioAgrees(l)' <=> CardPrioAgrees(l))
    BY <1>2, <2>1 DEF CardTitleAgrees, CardPrioAgrees
  <2>3. ASSUME NEW r \in Chains, cardJobs[r] # Nil, cardJobs[r].card = l
        PROVE  cardJobs'[r] = cardJobs[r]
    BY <1>2, <2>3
  <2> QED BY <2>1, <2>2, <2>3 DEF CardsInv, CardAgreeOrOwed
<1> QED BY <1>1, <1>2

(* Chain s's job becomes v, which the service answered for card k: what the others keep, and what card k's agreement rests on. *)
CardAnswered(s, v, k) ==
  /\ v # Nil /\ cardJobs[s] # Nil /\ v.card = cardJobs[s].card /\ cardJobs'[s] = v /\ k = v.card
  /\ \A q \in Chains : q # s => cardJobs'[q] = cardJobs[q]
  /\ \A l \in Cards : l # v.card => cardCards'[l] = cardCards[l] /\ (l \in cardTorn => l \in cardTorn')
  /\ \A l \in Cards : Card!Linked(l) /\ l # v.card =>
       cardRows'[cardCards[l].task].title = cardRows[cardCards[l].task].title /\ cardRows'[cardCards[l].task].prio = cardRows[cardCards[l].task].prio
  /\ (Card!Linked(k) /\ k \notin cardTorn)' =>
       /\ CardTitleAgrees(k)' \/ CardOwesTitle(v) \/ \E q \in Chains : q # s /\ cardJobs[q] # Nil /\ cardJobs[q].card = k /\ CardOwesTitle(cardJobs[q])
       /\ CardPrioAgrees(k)' \/ CardOwesPrio(v) \/ \E q \in Chains : q # s /\ cardJobs[q] # Nil /\ cardJobs[q].card = k /\ CardOwesPrio(cardJobs[q])

LEMMA AnswerKeepsAgreement ==
  ASSUME CardsAssumption, CardsInv, NEW s \in Chains, NEW v, NEW k \in Cards, CardAnswered(s, v, k)
  PROVE  CardAgreeOrOwed'
<1>1. /\ v # Nil /\ cardJobs[s] # Nil /\ v.card = cardJobs[s].card /\ cardJobs'[s] = v /\ k = v.card
      /\ \A q \in Chains : q # s => cardJobs'[q] = cardJobs[q]
  BY DEF CardAnswered
<1>2. \A l \in Cards : l # v.card => cardCards'[l] = cardCards[l] /\ (l \in cardTorn => l \in cardTorn')
  BY DEF CardAnswered
<1>3. \A l \in Cards : Card!Linked(l) /\ l # v.card =>
         cardRows'[cardCards[l].task].title = cardRows[cardCards[l].task].title /\ cardRows'[cardCards[l].task].prio = cardRows[cardCards[l].task].prio
  BY DEF CardAnswered
<1>4. (Card!Linked(k) /\ k \notin cardTorn)' =>
         /\ CardTitleAgrees(k)' \/ CardOwesTitle(v) \/ \E q \in Chains : q # s /\ cardJobs[q] # Nil /\ cardJobs[q].card = k /\ CardOwesTitle(cardJobs[q])
         /\ CardPrioAgrees(k)' \/ CardOwesPrio(v) \/ \E q \in Chains : q # s /\ cardJobs[q] # Nil /\ cardJobs[q].card = k /\ CardOwesPrio(cardJobs[q])
  BY DEF CardAnswered
<1> QED BY <1>1, <1>2, <1>3, <1>4, StoreKeepsAgreement

LEMMA EndKeeps ==
  ASSUME CardsAssumption, CardsInv, NEW s \in Chains, cardJobs[s] # Nil, cardJobs' = [cardJobs EXCEPT ![s] = Nil],
         UNCHANGED <<cardRows, cardCards, cardActive>>, cardShown' \in {cardShown, Card!CardsOf(cardActive)},
         cardDialog' \in {cardDialog, [cardDialog EXCEPT !.open = FALSE]},
         cardTorn' = cardTorn \cup {cardJobs[s].card} \/ (cardTorn' = cardTorn /\ ~CardOwesTitle(cardJobs[s]) /\ ~CardOwesPrio(cardJobs[s]))
  PROVE  CardsInv'
<1>1. cardJobs' \in [Chains -> CardJobTypes \cup {Nil}] /\ cardJobs'[s] = Nil /\ \A r \in Chains : r # s => cardJobs'[r] = cardJobs[r]
  BY DEF CardsInv, CardsTyped
<1>2. cardShown' \in [Cards -> CardTypes \cup {Nil}] /\ \A k \in Cards : cardShown'[k] # Nil => cardShown'[k] = cardShown[k] \/ cardShown'[k] = cardCards[k]
  BY CardsOfBoard DEF CardsInv, CardsTyped
<1>3. CardsTyped'
  <2>1. cardDialog' = [open |-> FALSE, card |-> Nil, text |-> Nil, prio |-> Nil]
      \/ cardDialog' \in [open : BOOLEAN, card : Cards \cup {Nil}, text : CardTextTypes, prio : CardPrios]
    <3>1. CASE cardDialog = [open |-> FALSE, card |-> Nil, text |-> Nil, prio |-> Nil]
      BY <3>1
    <3>2. CASE cardDialog \in [open : BOOLEAN, card : Cards \cup {Nil}, text : CardTextTypes, prio : CardPrios]
      BY <3>2
    <3> QED BY <3>1, <3>2 DEF CardsInv, CardsTyped
  <2>2. cardTorn' \subseteq Cards
    BY DEF CardsInv, CardsTyped, CardJobTypes
  <2> QED BY <1>1, <1>2, <2>1, <2>2 DEF CardsInv, CardsTyped
<1>4. CardJobsOK'
  <2>1. \A r \in Chains : cardJobs'[r] # Nil => CardJobOK(cardJobs'[r])
    BY <1>1 DEF CardsInv, CardJobsOK
  <2> QED BY <2>1 DEF CardJobsOK, CardJobOK, CardHasRow
<1>5. CardOneCardPerRow'
  <2>1. ASSUME NEW t \in CardTasks, NEW k \in Cards, CardClaims(k, t)'
        PROVE  CardClaims(k, t)
    BY <2>1, <1>1, <1>2 DEF CardClaims, CardSaidOf, CardByJob
  <2> QED BY <2>1 DEF CardsInv, CardOneCardPerRow
<1>6. CardRowsTitled'
  BY DEF CardsInv, CardRowsTitled
<1>7. CardAgreeOrOwed'
  <2> SUFFICES ASSUME NEW k \in Cards, Card!Linked(k)', k \notin cardTorn'
               PROVE  /\ CardTitleAgrees(k)' \/ \E r \in Chains : cardJobs'[r] # Nil /\ cardJobs'[r].card = k /\ CardOwesTitle(cardJobs'[r])
                      /\ CardPrioAgrees(k)' \/ \E r \in Chains : cardJobs'[r] # Nil /\ cardJobs'[r].card = k /\ CardOwesPrio(cardJobs'[r])
    BY DEF CardAgreeOrOwed
  <2>1. Card!Linked(k) /\ k \notin cardTorn
    BY DEF Card!Linked
  <2>2. ASSUME NEW r \in Chains, cardJobs[r] # Nil, cardJobs[r].card = k, CardOwesTitle(cardJobs[r]) \/ CardOwesPrio(cardJobs[r])
        PROVE  cardJobs'[r] = cardJobs[r]
    BY <2>2, <1>1
  <2>3. (CardTitleAgrees(k)' <=> CardTitleAgrees(k)) /\ (CardPrioAgrees(k)' <=> CardPrioAgrees(k))
    BY DEF CardTitleAgrees, CardPrioAgrees
  <2> QED BY <2>1, <2>2, <2>3 DEF CardsInv, CardAgreeOrOwed
<1>8. CardCleanSaves'
  <2>1. cardDialog'.prio = cardDialog.prio
    BY DEF CardsInv, CardsTyped
  <2>2. ASSUME NEW r \in Chains
        PROVE  CardCleanSave(cardJobs[r]) /\ cardJobs'[r] = cardJobs[r] => CardCleanSave(cardJobs[r])'
    BY <2>1 DEF CardCleanSave, Card!OnBoard, Card!Linked
  <2>3. ASSUME NEW r \in Chains, cardJobs'[r] # Nil, cardJobs'[r].clean
        PROVE  /\ \A q \in Chains : q # r => cardJobs'[q] = Nil
               /\ cardJobs'[r].op = "save" => CardCleanSave(cardJobs[r])'
    BY <2>2, <2>3, <1>1 DEF CardsInv, CardCleanSaves
  <2> QED BY <2>3 DEF CardCleanSaves
<1> QED BY <1>3, <1>4, <1>5, <1>6, <1>7, <1>8 DEF CardsInv

-----------------------------------------------------------------------------
(* What the service does for a step *)

LEMMA ContentIsTitle ==
  ASSUME NEW title \in CardTitles
  PROVE  Card!Content(title) \in CardTitles /\ Card!Content(title) # "" /\ Card!Content(Card!Content(title)) = Card!Content(title)
<1>1. Card!Untitled \in CardTitles /\ Card!Untitled # ""
  BY DEF CardTitles, Card!Untitled
<1> QED BY <1>1 DEF Card!Content

LEMMA CardCreateKeeps ==
  ASSUME CardsAssumption, CardsInv, NEW s \in Chains, cardJobs[s] # Nil, cardJobs[s].at = "sent", cardJobs[s].step = "create",
         NEW t \in CardTasks, cardRows[t] = Nil, cardJobs' = [cardJobs EXCEPT ![s].at = "done", ![s].task = t],
         cardRows' = [cardRows EXCEPT ![t] = [board |-> Nil, title |-> Card!Content(cardJobs[s].text.content), prio |-> 4, done |-> FALSE]],
         UNCHANGED <<cardCards, cardActive, cardShown, cardDialog, cardTorn>>
  PROVE  CardsInv'
<1>1. cardJobs[s] \in CardJobTypes /\ CardJobOK(cardJobs[s]) /\ cardJobs[s].card \in Cards /\ cardJobs[s].text.content \in CardTitles /\ t # Nil
  BY DEF CardsInv, CardsTyped, CardJobsOK, CardJobTypes, CardTextTypes, CardsAssumption
<1>2. PICK v : v = [cardJobs[s] EXCEPT !.at = "done", !.task = t]
  OBVIOUS
<1>3. /\ v \in CardJobTypes /\ v.op = cardJobs[s].op /\ v.card = cardJobs[s].card /\ v.task = t /\ v.fresh = cardJobs[s].fresh
      /\ v.typed = cardJobs[s].typed /\ v.clean = cardJobs[s].clean /\ v.step = "create" /\ v.at = "done" /\ v.board = cardJobs[s].board
  BY <1>1, <1>2 DEF CardJobTypes
<1>4. cardJobs' = [cardJobs EXCEPT ![s] = v]
  BY <1>2 DEF CardsInv, CardsTyped
<1>5. CardJobOK(v) /\ v.op = "save"
  BY <1>1, <1>3 DEF CardJobOK, CardHasRow, CardJobTypes
<1>6. PICK r : r = [board |-> Nil, title |-> Card!Content(cardJobs[s].text.content), prio |-> 4, done |-> FALSE]
  OBVIOUS
<1>7. r \in CardRowTypes /\ r.title # ""
  <2>1. 4 \in CardPrios
    BY DEF CardPrios
  <2> QED BY <1>1, <1>6, <2>1, ContentIsTitle DEF CardRowTypes
<1>8. /\ cardRows' \in [CardTasks -> CardRowTypes \cup {Nil}] /\ cardRows'[t] = r /\ \A u \in CardTasks : u # t => cardRows'[u] = cardRows[u]
  BY <1>6, <1>7 DEF CardsInv, CardsTyped
<1>9. r # Nil
  BY <1>7 DEF CardsAssumption
<1>10. ASSUME NEW l \in Cards, Card!Linked(l)
       PROVE  cardCards[l].task \in CardTasks /\ cardRows'[cardCards[l].task] = cardRows[cardCards[l].task]
  BY <1>10, <1>8, RowsOfCards DEF CardsAssumption
<1>11. /\ CardsTyped' /\ CardJobsOK' /\ CardOneCardPerRow' /\ CardRowsTitled'
       /\ cardJobs'[s] = v /\ v # Nil /\ \A q \in Chains : q # s => cardJobs'[q] = cardJobs[q]
  <2>1. \A u \in CardTasks : cardRows[u] # Nil => cardRows'[u] # Nil
    BY <1>8
  <2>2. \A u \in CardTasks : cardRows'[u] # Nil => cardRows'[u].title # ""
    BY <1>7, <1>8 DEF CardsInv, CardRowsTitled
  <2>3. \A k \in Cards, u \in CardTasks : CardSaidOf(cardCards'[k], u) => CardClaims(k, u)
    BY DEF CardClaims
  <2> QED BY <1>3, <1>4, <1>5, <1>8, <1>9, <2>1, <2>2, <2>3, StoreKeepsRows DEF CardsInv, CardsTyped
<1>12. CardAgreeOrOwed'
  <2>1. PICK k \in Cards : k = v.card
    BY <1>1, <1>3
  <2>2. ASSUME Card!Linked(k)', k \notin cardTorn'
        PROVE  /\ CardTitleAgrees(k)' \/ CardOwesTitle(v) \/ \E q \in Chains : q # s /\ cardJobs[q] # Nil /\ cardJobs[q].card = k /\ CardOwesTitle(cardJobs[q])
               /\ CardPrioAgrees(k)' \/ CardOwesPrio(v) \/ \E q \in Chains : q # s /\ cardJobs[q] # Nil /\ cardJobs[q].card = k /\ CardOwesPrio(cardJobs[q])
    <3>1. Card!Linked(k) /\ k \notin cardTorn
      BY <2>2 DEF Card!Linked
    <3>2. (CardTitleAgrees(k)' <=> CardTitleAgrees(k)) /\ (CardPrioAgrees(k)' <=> CardPrioAgrees(k))
      BY <3>1, <1>10 DEF CardTitleAgrees, CardPrioAgrees
    <3>3. ~CardOwesTitle(cardJobs[s]) /\ ~CardOwesPrio(cardJobs[s])
      BY DEF CardOwesTitle, CardOwesPrio, CardHalves, CardRelinked
    <3> QED BY <3>1, <3>2, <3>3 DEF CardsInv, CardAgreeOrOwed
  <2>3. ASSUME NEW l \in Cards, Card!Linked(l), l # v.card
        PROVE  cardRows'[cardCards[l].task] = cardRows[cardCards[l].task]
    BY <2>3, <1>10
  <2>5. (Card!Linked(k) /\ k \notin cardTorn)' =>
           /\ CardTitleAgrees(k)' \/ CardOwesTitle(v) \/ \E q \in Chains : q # s /\ cardJobs[q] # Nil /\ cardJobs[q].card = k /\ CardOwesTitle(cardJobs[q])
           /\ CardPrioAgrees(k)' \/ CardOwesPrio(v) \/ \E q \in Chains : q # s /\ cardJobs[q] # Nil /\ cardJobs[q].card = k /\ CardOwesPrio(cardJobs[q])
    BY <2>2
  <2>4. v # Nil /\ cardJobs'[s] = v /\ v.card = cardJobs[s].card /\ \A q \in Chains : q # s => cardJobs'[q] = cardJobs[q]
    BY <1>3, <1>11
  <2>6. \A l \in Cards : l # v.card => cardCards'[l] = cardCards[l] /\ (l \in cardTorn => l \in cardTorn')
    OBVIOUS
  <2>7. \A l \in Cards : Card!Linked(l) /\ l # v.card =>
           cardRows'[cardCards[l].task].title = cardRows[cardCards[l].task].title /\ cardRows'[cardCards[l].task].prio = cardRows[cardCards[l].task].prio
    BY <2>3
  <2>8. CardAnswered(s, v, k)
    BY <2>1, <2>4, <2>5, <2>6, <2>7 DEF CardAnswered
  <2> QED BY <2>8, AnswerKeepsAgreement
<1>13. CardCleanSaves'
  <2>1. v.clean => CardCleanSave(cardJobs[s])
    BY <1>3, <1>5 DEF CardsInv, CardCleanSaves
  <2>2. v.clean => CardCleanSave(v)'
    BY <2>1, <1>3 DEF CardCleanSave, CardTitleSet, CardPrioSet, CardRowSaved, CardSaved
  <2> QED BY <1>3, <1>11, <2>2, CleanMoves
<1> QED BY <1>11, <1>12, <1>13 DEF CardsInv

\* A step other than that is served: its chain stays as it is but for the answer.
LEMMA DoneJob ==
  ASSUME CardsInv, NEW s \in Chains, cardJobs[s] # Nil, cardJobs[s].at = "sent", cardJobs' = [cardJobs EXCEPT ![s].at = "done"],
         cardJobs[s].step \in {"update", "link", "title", "prio", "sync", "complete"}
  PROVE  \E v \in CardJobTypes :
           /\ cardJobs' = [cardJobs EXCEPT ![s] = v] /\ CardJobOK(v) /\ v.op = cardJobs[s].op /\ v.card = cardJobs[s].card /\ v.task = cardJobs[s].task
           /\ v.fresh = cardJobs[s].fresh /\ v.text = cardJobs[s].text /\ v.typed = cardJobs[s].typed /\ v.clean = cardJobs[s].clean
           /\ v.step = cardJobs[s].step /\ v.at = "done" /\ v.board = cardJobs[s].board /\ v.prio = cardJobs[s].prio
           /\ v.card \in Cards /\ v.text.content \in CardTitles /\ v.prio \in CardPrios /\ v.board \in OfBoards
           /\ v.op = "save" <=> v.step # "complete"
           /\ v.op = "save" => v.task \in CardTasks /\ v.task # Nil
           /\ v.clean /\ v.op = "save" => CardCleanSave(cardJobs[s])
<1>1. cardJobs[s] \in CardJobTypes /\ CardJobOK(cardJobs[s])
  BY DEF CardsInv, CardsTyped, CardJobsOK
<1>2. PICK v : v = [cardJobs[s] EXCEPT !.at = "done"]
  OBVIOUS
<1>3. /\ v \in CardJobTypes /\ v.op = cardJobs[s].op /\ v.card = cardJobs[s].card /\ v.task = cardJobs[s].task /\ v.fresh = cardJobs[s].fresh
      /\ v.text = cardJobs[s].text /\ v.typed = cardJobs[s].typed /\ v.clean = cardJobs[s].clean /\ v.step = cardJobs[s].step /\ v.at = "done"
      /\ v.board = cardJobs[s].board /\ v.prio = cardJobs[s].prio
  BY <1>1, <1>2, ServedJob
<1>4. cardJobs' = [cardJobs EXCEPT ![s] = v]
  BY <1>2 DEF CardsInv, CardsTyped
<1>5. CardJobOK(v) /\ (v.op = "save" <=> v.step # "complete")
  BY <1>1, <1>3 DEF CardJobOK, CardHasRow, CardJobTypes
<1>6. v.card \in Cards /\ v.text.content \in CardTitles /\ v.prio \in CardPrios /\ v.board \in OfBoards
  BY <1>3 DEF CardJobTypes, CardTextTypes
<1>7. v.op = "save" => v.task \in CardTasks /\ v.task # Nil
  BY <1>1, <1>3 DEF CardJobOK, CardHasRow, CardJobTypes
<1>8. v.clean /\ v.op = "save" => CardCleanSave(cardJobs[s])
  BY <1>3 DEF CardsInv, CardCleanSaves
<1> QED BY <1>3, <1>4, <1>5, <1>6, <1>7, <1>8

LEMMA UpdateKeeps ==
  ASSUME CardsAssumption, CardsInv, NEW s \in Chains, cardJobs[s] # Nil, cardJobs[s].at = "sent", cardJobs[s].step = "update",
         cardJobs' = [cardJobs EXCEPT ![s].at = "done"],
         cardRows' = [cardRows EXCEPT ![cardJobs[s].task] = [@ EXCEPT !.board = cardJobs[s].board, !.title = Card!Content(cardJobs[s].text.content), !.prio = cardJobs[s].prio]],
         UNCHANGED <<cardCards, cardActive, cardShown, cardDialog, cardTorn>>
  PROVE  CardsInv'
<1>1. PICK v \in CardJobTypes :
        /\ cardJobs' = [cardJobs EXCEPT ![s] = v] /\ CardJobOK(v) /\ v.op = cardJobs[s].op /\ v.card = cardJobs[s].card /\ v.task = cardJobs[s].task
        /\ v.fresh = cardJobs[s].fresh /\ v.text = cardJobs[s].text /\ v.typed = cardJobs[s].typed /\ v.clean = cardJobs[s].clean
        /\ v.step = cardJobs[s].step /\ v.at = "done" /\ v.board = cardJobs[s].board /\ v.prio = cardJobs[s].prio
        /\ v.card \in Cards /\ v.text.content \in CardTitles /\ v.prio \in CardPrios /\ v.board \in OfBoards
        /\ v.op = "save" <=> v.step # "complete"
        /\ v.op = "save" => v.task \in CardTasks /\ v.task # Nil
        /\ v.clean /\ v.op = "save" => CardCleanSave(cardJobs[s])
  BY DoneJob
<1>2. PICK t \in CardTasks : t = v.task /\ t # Nil
  BY <1>1
<1>3. cardRows[t] \in CardRowTypes /\ \A l \in Cards : Card!Linked(l) /\ l # v.card => cardCards[l].task # t
  <2>1. cardJobs[s].task = t /\ cardJobs[s].task # Nil /\ cardJobs[s].card = v.card
    BY <1>1, <1>2
  <2> QED BY <2>1, RowsOfCards
<1>4. PICK r : r = [cardRows[t] EXCEPT !.board = v.board, !.title = Card!Content(v.text.content), !.prio = v.prio]
  OBVIOUS
<1>5. r \in CardRowTypes /\ r.title # "" /\ r.title = Card!Content(v.text.content) /\ r.prio = v.prio /\ r.board = v.board
  <2>1. Card!Content(v.text.content) \in CardTitles /\ Card!Content(v.text.content) # ""
    BY <1>1, ContentIsTitle
  <2> QED BY <1>1, <1>3, <1>4, <2>1 DEF CardRowTypes
<1>6. /\ cardRows' \in [CardTasks -> CardRowTypes \cup {Nil}] /\ cardRows'[t] = r /\ \A u \in CardTasks : u # t => cardRows'[u] = cardRows[u]
  BY <1>1, <1>2, <1>4, <1>5 DEF CardsInv, CardsTyped
<1>7. r # Nil
  BY <1>5 DEF CardsAssumption
<1>8. /\ CardsTyped' /\ CardJobsOK' /\ CardOneCardPerRow' /\ CardRowsTitled'
      /\ cardJobs'[s] = v /\ v # Nil /\ \A q \in Chains : q # s => cardJobs'[q] = cardJobs[q]
  <2>1. \A u \in CardTasks : cardRows[u] # Nil => cardRows'[u] # Nil
    BY <1>6, <1>7
  <2>2. \A u \in CardTasks : cardRows'[u] # Nil => cardRows'[u].title # ""
    BY <1>5, <1>6 DEF CardsInv, CardRowsTitled
  <2>3. \A k \in Cards, u \in CardTasks : CardSaidOf(cardCards'[k], u) => CardClaims(k, u)
    BY DEF CardClaims
  <2> QED BY <1>1, <1>6, <2>1, <2>2, <2>3, StoreKeepsRows DEF CardsInv, CardsTyped
<1>9. CardAgreeOrOwed'
  <2>1. PICK k \in Cards : k = v.card
    BY <1>1
  <2>2. CardOwesTitle(v) /\ CardOwesPrio(v)
    BY <1>1 DEF CardOwesTitle, CardOwesPrio, CardHalves
  <2>3. ASSUME NEW l \in Cards, Card!Linked(l), l # v.card
        PROVE  cardRows'[cardCards[l].task] = cardRows[cardCards[l].task]
    BY <2>3, <1>3, <1>6, RowsOfCards
  <2> QED BY <1>1, <1>8, <2>1, <2>2, <2>3, StoreKeepsAgreement
<1>10. CardCleanSaves'
  <2>1. ASSUME v.clean, v.op = "save" PROVE CardCleanSave(v)'
    <3>1. CardCleanSave(cardJobs[s])
      BY <1>1, <2>1
    <3>2. v.board = cardActive /\ cardDialog.prio = v.typed /\ v.prio = CardWanted(v)
      BY <3>1, <1>1 DEF CardCleanSave, CardWanted
    <3>3. Card!OnBoard(v.card, cardActive) /\ (Card!Linked(v.card) => cardRows[cardCards[v.card].task].title = Card!Content(v.text.content))
      BY <3>1, <1>1 DEF CardCleanSave, CardTitleSet
    <3>4. Card!Linked(v.card) => cardRows[cardCards[v.card].task].prio = CardWanted(v)
      BY <3>1, <1>1 DEF CardCleanSave, CardPrioSet, CardWanted
    <3>5. Card!Linked(v.card) => /\ cardRows'[cardCards[v.card].task].title = Card!Content(v.text.content)
                                 /\ cardRows'[cardCards[v.card].task].prio = CardWanted(v)
      BY <3>2, <3>3, <3>4, <1>1, <1>5, <1>6, RowsOfCards
    <3>6. cardRows'[v.task].title = Card!Content(v.text.content) /\ cardRows'[v.task].prio = CardWanted(v) /\ cardRows'[v.task].board = cardActive
      BY <3>2, <1>2, <1>5, <1>6
    <3>7. ~CardSaved(v)
      BY <1>1 DEF CardSaved
    <3> QED BY <3>2, <3>3, <3>5, <3>6, <3>7, <1>1 DEF CardCleanSave, Card!OnBoard, Card!Linked, CardWanted, Card!Content, CardTitleSet, CardPrioSet, CardRowSaved
  <2> QED BY <1>1, <1>8, <2>1, CleanMoves
<1> QED BY <1>8, <1>9, <1>10 DEF CardsInv

LEMMA LinkKeeps ==
  ASSUME CardsAssumption, CardsInv, NEW s \in Chains, cardJobs[s] # Nil, cardJobs[s].at = "sent", cardJobs[s].step = "link",
         cardJobs' = [cardJobs EXCEPT ![s].at = "done"], Card!OnBoard(cardJobs[s].card, cardJobs[s].board),
         cardCards' = [cardCards EXCEPT ![cardJobs[s].card].task = cardJobs[s].task],
         UNCHANGED <<cardRows, cardActive, cardShown, cardDialog, cardTorn>>
  PROVE  CardsInv'
<1>1. PICK v \in CardJobTypes :
        /\ cardJobs' = [cardJobs EXCEPT ![s] = v] /\ CardJobOK(v) /\ v.op = cardJobs[s].op /\ v.card = cardJobs[s].card /\ v.task = cardJobs[s].task
        /\ v.fresh = cardJobs[s].fresh /\ v.text = cardJobs[s].text /\ v.typed = cardJobs[s].typed /\ v.clean = cardJobs[s].clean
        /\ v.step = cardJobs[s].step /\ v.at = "done" /\ v.board = cardJobs[s].board /\ v.prio = cardJobs[s].prio
        /\ v.card \in Cards /\ v.text.content \in CardTitles /\ v.prio \in CardPrios /\ v.board \in OfBoards
        /\ v.op = "save" <=> v.step # "complete"
        /\ v.op = "save" => v.task \in CardTasks /\ v.task # Nil
        /\ v.clean /\ v.op = "save" => CardCleanSave(cardJobs[s])
  BY DoneJob
<1>2. PICK k \in Cards : k = v.card /\ cardCards[k] # Nil /\ cardCards[k].board = cardJobs[s].board
  BY <1>1 DEF Card!OnBoard
<1>3. PICK c : c = [cardCards[k] EXCEPT !.task = v.task]
  OBVIOUS
<1>4. v.task \in CardTasks /\ v.task # Nil /\ v.fresh
  BY <1>1 DEF CardJobOK
<1>5. c \in CardTypes /\ c.task = v.task
  BY <1>2, <1>3, <1>4 DEF CardsInv, CardsTyped, CardTypes
<1>6. cardCards' \in [Cards -> CardTypes \cup {Nil}] /\ cardCards'[k] = c /\ \A l \in Cards : l # k => cardCards'[l] = cardCards[l]
  BY <1>1, <1>2, <1>3, <1>5 DEF CardsInv, CardsTyped
<1>7. /\ CardsTyped' /\ CardJobsOK' /\ CardOneCardPerRow' /\ CardRowsTitled'
      /\ cardJobs'[s] = v /\ v # Nil /\ \A q \in Chains : q # s => cardJobs'[q] = cardJobs[q]
  <2>1. \A u \in CardTasks : cardRows'[u] # Nil => cardRows'[u].title # ""
    BY DEF CardsInv, CardRowsTitled
  <2>2. ASSUME NEW l \in Cards, NEW u \in CardTasks, CardSaidOf(cardCards'[l], u)
        PROVE  CardClaims(l, u)
    <3>1. CASE l = k
      BY <2>2, <3>1, <1>1, <1>2, <1>5, <1>6 DEF CardClaims, CardSaidOf, CardByJob
    <3>2. CASE l # k
      BY <2>2, <3>2, <1>6 DEF CardClaims
    <3> QED BY <3>1, <3>2
  <2> QED BY <1>1, <1>6, <2>1, <2>2, StoreKeepsRows DEF CardsInv, CardsTyped
<1>8. CardAgreeOrOwed'
  <2>1. CardOwesTitle(v) /\ CardOwesPrio(v)
    BY <1>1, <1>4 DEF CardOwesTitle, CardOwesPrio, CardRelinked
  <2>2. \A l \in Cards : l # v.card => cardCards'[l] = cardCards[l] /\ (l \in cardTorn => l \in cardTorn')
    BY <1>2, <1>6
  <2> QED BY <1>1, <1>2, <1>7, <2>1, <2>2, StoreKeepsAgreement
<1>9. CardCleanSaves'
  <2>1. ASSUME v.clean, v.op = "save" PROVE CardCleanSave(v)'
    <3>1. v.board = cardActive /\ cardDialog.prio = v.typed
      BY <1>1, <2>1 DEF CardCleanSave
    <3> QED BY <3>1, <1>1 DEF CardCleanSave, CardTitleSet, CardPrioSet, CardRowSaved, CardSaved
  <2> QED BY <1>1, <1>7, <2>1, CleanMoves
<1> QED BY <1>7, <1>8, <1>9 DEF CardsInv

LEMMA TitleKeeps ==
  ASSUME CardsAssumption, CardsInv, NEW s \in Chains, cardJobs[s] # Nil, cardJobs[s].at = "sent", cardJobs[s].step = "title",
         cardJobs' = [cardJobs EXCEPT ![s].at = "done"], Card!OnBoard(cardJobs[s].card, cardJobs[s].board),
         Card!SetBoth(cardJobs[s].card, "title", cardJobs[s].text.content),
         UNCHANGED <<cardActive, cardShown, cardDialog, cardTorn>>
  PROVE  CardsInv'
<1>1. PICK v \in CardJobTypes :
        /\ cardJobs' = [cardJobs EXCEPT ![s] = v] /\ CardJobOK(v) /\ v.op = cardJobs[s].op /\ v.card = cardJobs[s].card /\ v.task = cardJobs[s].task
        /\ v.fresh = cardJobs[s].fresh /\ v.text = cardJobs[s].text /\ v.typed = cardJobs[s].typed /\ v.clean = cardJobs[s].clean
        /\ v.step = cardJobs[s].step /\ v.at = "done" /\ v.board = cardJobs[s].board /\ v.prio = cardJobs[s].prio
        /\ v.card \in Cards /\ v.text.content \in CardTitles /\ v.prio \in CardPrios /\ v.board \in OfBoards
        /\ v.op = "save" <=> v.step # "complete"
        /\ v.op = "save" => v.task \in CardTasks /\ v.task # Nil
        /\ v.clean /\ v.op = "save" => CardCleanSave(cardJobs[s])
  BY DoneJob
<1>2. PICK k \in Cards : k = v.card /\ cardCards[k] # Nil /\ cardCards[k].board = cardJobs[s].board
  BY <1>1 DEF Card!OnBoard
<1>3. PICK c : c = [cardCards[k] EXCEPT !.title = v.text.content]
  OBVIOUS
<1>4. c \in CardTypes /\ c.title = v.text.content /\ c.task = cardCards[k].task /\ c.prio = cardCards[k].prio /\ c.board = cardCards[k].board
  BY <1>1, <1>2, <1>3 DEF CardsInv, CardsTyped, CardTypes
<1>5. cardCards' \in [Cards -> CardTypes \cup {Nil}] /\ cardCards'[k] = c /\ \A l \in Cards : l # k => cardCards'[l] = cardCards[l]
  BY <1>1, <1>2, <1>3, <1>4 DEF Card!SetBoth, CardsInv, CardsTyped
<1>6. c # Nil /\ (Card!Linked(k)' <=> Card!Linked(k))
  BY <1>2, <1>4, <1>5 DEF CardsAssumption, Card!Linked
<1>7. Card!Content(v.text.content) \in CardTitles /\ Card!Content(v.text.content) # "" /\ Card!Content(Card!Content(v.text.content)) = Card!Content(v.text.content)
  BY <1>1, ContentIsTitle
<1>8. /\ cardRows' \in [CardTasks -> CardRowTypes \cup {Nil}]
      /\ ~Card!Linked(k) => cardRows' = cardRows
      /\ Card!Linked(k) => /\ cardRows'[cardCards[k].task].title = Card!Content(v.text.content)
                           /\ cardRows'[cardCards[k].task].prio = cardRows[cardCards[k].task].prio
                           /\ cardRows'[cardCards[k].task].board = cardRows[cardCards[k].task].board
                           /\ cardRows'[cardCards[k].task] \in CardRowTypes
                           /\ \A u \in CardTasks : u # cardCards[k].task => cardRows'[u] = cardRows[u]
  <2>1. CASE ~Card!Linked(k)
    BY <2>1, <1>1, <1>2 DEF Card!SetBoth, CardsInv, CardsTyped
  <2>2. CASE Card!Linked(k)
    <3>1. PICK t \in CardTasks : t = cardCards[k].task /\ cardRows[t] \in CardRowTypes
      BY <2>2, RowsOfCards
    <3>2. PICK r : r = [cardRows[t] EXCEPT !.title = Card!Content(v.text.content)]
      OBVIOUS
    <3>3. r \in CardRowTypes /\ r.title = Card!Content(v.text.content) /\ r.prio = cardRows[t].prio /\ r.board = cardRows[t].board
      BY <3>1, <3>2, <1>7 DEF CardRowTypes
    <3>4. cardRows' = [cardRows EXCEPT ![t] = r]
      BY <2>2, <3>1, <3>2, <1>1, <1>2 DEF Card!SetBoth
    <3> QED BY <2>2, <3>1, <3>3, <3>4 DEF CardsInv, CardsTyped
  <2> QED BY <2>1, <2>2
<1>9. /\ \A u \in CardTasks : cardRows[u] # Nil => cardRows'[u] # Nil
      /\ \A u \in CardTasks : cardRows'[u] # Nil => cardRows'[u].title # ""
  <2>1. CASE ~Card!Linked(k)
    BY <2>1, <1>8 DEF CardsInv, CardRowsTitled
  <2>2. CASE Card!Linked(k)
    BY <2>2, <1>7, <1>8 DEF CardsInv, CardRowsTitled, CardsAssumption
  <2> QED BY <2>1, <2>2
<1>10. /\ CardsTyped' /\ CardJobsOK' /\ CardOneCardPerRow' /\ CardRowsTitled'
       /\ cardJobs'[s] = v /\ v # Nil /\ \A q \in Chains : q # s => cardJobs'[q] = cardJobs[q]
  <2>1. ASSUME NEW l \in Cards, NEW u \in CardTasks, CardSaidOf(cardCards'[l], u)
        PROVE  CardClaims(l, u)
    BY <2>1, <1>2, <1>4, <1>5 DEF CardClaims, CardSaidOf
  <2> QED BY <1>1, <1>5, <1>8, <1>9, <2>1, StoreKeepsRows DEF CardsInv, CardsTyped
<1>11. ASSUME NEW l \in Cards, Card!Linked(l), l # k
       PROVE  cardRows'[cardCards[l].task] = cardRows[cardCards[l].task]
  BY <1>8, <1>11, RowsOfCards
<1>12. CardAgreeOrOwed'
  <2>1. ASSUME (Card!Linked(k) /\ k \notin cardTorn)'
        PROVE  /\ CardTitleAgrees(k)'
               /\ CardPrioAgrees(k)' \/ CardOwesPrio(v) \/ \E q \in Chains : q # s /\ cardJobs[q] # Nil /\ cardJobs[q].card = k /\ CardOwesPrio(cardJobs[q])
    <3>1. Card!Linked(k) /\ k \notin cardTorn
      BY <2>1, <1>6
    <3>2. CardTitleAgrees(k)' /\ (CardPrioAgrees(k)' <=> CardPrioAgrees(k))
      BY <3>1, <1>4, <1>5, <1>8 DEF CardTitleAgrees, CardPrioAgrees, Card!Content
    <3>3. CardOwesPrio(cardJobs[s]) => CardOwesPrio(v)
      BY <1>1 DEF CardOwesPrio, CardHalves, CardRelinked
    <3> QED BY <3>1, <3>2, <3>3 DEF CardsInv, CardAgreeOrOwed
  <2>2. \A l \in Cards : l # v.card => cardCards'[l] = cardCards[l] /\ (l \in cardTorn => l \in cardTorn')
    BY <1>2, <1>5
  <2>3. ASSUME NEW l \in Cards, Card!Linked(l), l # v.card
        PROVE  cardRows'[cardCards[l].task] = cardRows[cardCards[l].task]
    BY <2>3, <1>2, <1>11
  <2>4. (Card!Linked(k) /\ k \notin cardTorn)' =>
           /\ CardTitleAgrees(k)' \/ CardOwesTitle(v) \/ \E q \in Chains : q # s /\ cardJobs[q] # Nil /\ cardJobs[q].card = k /\ CardOwesTitle(cardJobs[q])
           /\ CardPrioAgrees(k)' \/ CardOwesPrio(v) \/ \E q \in Chains : q # s /\ cardJobs[q] # Nil /\ cardJobs[q].card = k /\ CardOwesPrio(cardJobs[q])
    BY <2>1
  <2>5. v # Nil /\ cardJobs'[s] = v /\ v.card = cardJobs[s].card /\ \A q \in Chains : q # s => cardJobs'[q] = cardJobs[q]
    BY <1>1, <1>10
  <2> QED BY <1>2, <2>2, <2>3, <2>4, <2>5, StoreKeepsAgreement
<1>13. CardCleanSaves'
  <2>1. ASSUME v.clean, v.op = "save" PROVE CardCleanSave(v)'
    <3>1. v.board = cardActive /\ cardDialog.prio = v.typed
      BY <1>1, <2>1 DEF CardCleanSave
    <3>2. Card!OnBoard(v.card, cardActive)'
      BY <3>1, <1>1, <1>2, <1>4, <1>5, <1>6 DEF Card!OnBoard
    <3>3. Card!Linked(v.card)' => cardRows'[cardCards'[v.card].task].title = Card!Content(v.text.content)
      BY <1>2, <1>4, <1>5, <1>6, <1>8
    <3>4. ~CardPrioSet(v) /\ ~CardRowSaved(v) /\ ~CardSaved(v) /\ v.step \notin {"prio", "update"}
      BY <1>1 DEF CardPrioSet, CardRowSaved, CardSaved
    <3> QED BY <3>1, <3>2, <3>3, <3>4 DEF CardCleanSave, CardPrioSet, CardRowSaved, CardSaved, Card!Content
  <2> QED BY <1>1, <1>10, <2>1, CleanMoves
<1> QED BY <1>10, <1>12, <1>13 DEF CardsInv

LEMMA PrioKeeps ==
  ASSUME CardsAssumption, CardsInv, NEW s \in Chains, cardJobs[s] # Nil, cardJobs[s].at = "sent", cardJobs[s].step = "prio",
         cardJobs' = [cardJobs EXCEPT ![s].at = "done"], Card!OnBoard(cardJobs[s].card, cardJobs[s].board),
         Card!SetBoth(cardJobs[s].card, "prio", cardJobs[s].prio),
         UNCHANGED <<cardActive, cardShown, cardDialog, cardTorn>>
  PROVE  CardsInv'
<1>1. PICK v \in CardJobTypes :
        /\ cardJobs' = [cardJobs EXCEPT ![s] = v] /\ CardJobOK(v) /\ v.op = cardJobs[s].op /\ v.card = cardJobs[s].card /\ v.task = cardJobs[s].task
        /\ v.fresh = cardJobs[s].fresh /\ v.text = cardJobs[s].text /\ v.typed = cardJobs[s].typed /\ v.clean = cardJobs[s].clean
        /\ v.step = cardJobs[s].step /\ v.at = "done" /\ v.board = cardJobs[s].board /\ v.prio = cardJobs[s].prio
        /\ v.card \in Cards /\ v.text.content \in CardTitles /\ v.prio \in CardPrios /\ v.board \in OfBoards
        /\ v.op = "save" <=> v.step # "complete"
        /\ v.op = "save" => v.task \in CardTasks /\ v.task # Nil
        /\ v.clean /\ v.op = "save" => CardCleanSave(cardJobs[s])
  BY DoneJob
<1>2. PICK k \in Cards : k = v.card /\ cardCards[k] # Nil /\ cardCards[k].board = cardJobs[s].board
  BY <1>1 DEF Card!OnBoard
<1>3. PICK c : c = [cardCards[k] EXCEPT !.prio = v.prio]
  OBVIOUS
<1>4. c \in CardTypes /\ c.title = cardCards[k].title /\ c.task = cardCards[k].task /\ c.prio = v.prio /\ c.board = cardCards[k].board
  BY <1>1, <1>2, <1>3 DEF CardsInv, CardsTyped, CardTypes
<1>5. cardCards' \in [Cards -> CardTypes \cup {Nil}] /\ cardCards'[k] = c /\ \A l \in Cards : l # k => cardCards'[l] = cardCards[l]
  BY <1>1, <1>2, <1>3, <1>4 DEF Card!SetBoth, CardsInv, CardsTyped
<1>6. c # Nil /\ (Card!Linked(k)' <=> Card!Linked(k))
  BY <1>2, <1>4, <1>5 DEF CardsAssumption, Card!Linked
<1>8. /\ cardRows' \in [CardTasks -> CardRowTypes \cup {Nil}]
      /\ ~Card!Linked(k) => cardRows' = cardRows
      /\ Card!Linked(k) => /\ cardRows'[cardCards[k].task].title = cardRows[cardCards[k].task].title
                           /\ cardRows'[cardCards[k].task].prio = v.prio
                           /\ cardRows'[cardCards[k].task].board = cardRows[cardCards[k].task].board
                           /\ cardRows'[cardCards[k].task] \in CardRowTypes
                           /\ \A u \in CardTasks : u # cardCards[k].task => cardRows'[u] = cardRows[u]
  <2>1. CASE ~Card!Linked(k)
    BY <2>1, <1>1, <1>2 DEF Card!SetBoth, CardsInv, CardsTyped
  <2>2. CASE Card!Linked(k)
    <3>1. PICK t \in CardTasks : t = cardCards[k].task /\ cardRows[t] \in CardRowTypes
      BY <2>2, RowsOfCards
    <3>2. PICK r : r = [cardRows[t] EXCEPT !.prio = v.prio]
      OBVIOUS
    <3>3. r \in CardRowTypes /\ r.title = cardRows[t].title /\ r.prio = v.prio /\ r.board = cardRows[t].board
      BY <3>1, <3>2, <1>1 DEF CardRowTypes
    <3>4. cardRows' = [cardRows EXCEPT ![t] = r]
      BY <2>2, <3>1, <3>2, <1>1, <1>2 DEF Card!SetBoth
    <3> QED BY <2>2, <3>1, <3>3, <3>4 DEF CardsInv, CardsTyped
  <2> QED BY <2>1, <2>2
<1>9. /\ \A u \in CardTasks : cardRows[u] # Nil => cardRows'[u] # Nil
      /\ \A u \in CardTasks : cardRows'[u] # Nil => cardRows'[u].title # ""
  <2>1. CASE ~Card!Linked(k)
    BY <2>1, <1>8 DEF CardsInv, CardRowsTitled
  <2>2. CASE Card!Linked(k)
    <3>1. cardRows[cardCards[k].task].title # ""
      BY <2>2, RowsOfCards
    <3> QED BY <2>2, <3>1, <1>8 DEF CardsInv, CardRowsTitled, CardsAssumption
  <2> QED BY <2>1, <2>2
<1>10. /\ CardsTyped' /\ CardJobsOK' /\ CardOneCardPerRow' /\ CardRowsTitled'
       /\ cardJobs'[s] = v /\ v # Nil /\ \A q \in Chains : q # s => cardJobs'[q] = cardJobs[q]
  <2>1. ASSUME NEW l \in Cards, NEW u \in CardTasks, CardSaidOf(cardCards'[l], u)
        PROVE  CardClaims(l, u)
    BY <2>1, <1>2, <1>4, <1>5 DEF CardClaims, CardSaidOf
  <2> QED BY <1>1, <1>5, <1>8, <1>9, <2>1, StoreKeepsRows DEF CardsInv, CardsTyped
<1>11. ASSUME NEW l \in Cards, Card!Linked(l), l # k
       PROVE  cardRows'[cardCards[l].task] = cardRows[cardCards[l].task]
  BY <1>8, <1>11, RowsOfCards
<1>12. CardAgreeOrOwed'
  <2>1. ASSUME (Card!Linked(k) /\ k \notin cardTorn)'
        PROVE  /\ CardPrioAgrees(k)'
               /\ CardTitleAgrees(k)' \/ CardOwesTitle(v) \/ \E q \in Chains : q # s /\ cardJobs[q] # Nil /\ cardJobs[q].card = k /\ CardOwesTitle(cardJobs[q])
    <3>1. Card!Linked(k) /\ k \notin cardTorn
      BY <2>1, <1>6
    <3>2. CardPrioAgrees(k)' /\ (CardTitleAgrees(k)' <=> CardTitleAgrees(k))
      BY <3>1, <1>4, <1>5, <1>8 DEF CardTitleAgrees, CardPrioAgrees
    <3>3. CardOwesTitle(cardJobs[s]) => CardOwesTitle(v)
      BY <1>1 DEF CardOwesTitle, CardHalves, CardRelinked
    <3> QED BY <3>1, <3>2, <3>3 DEF CardsInv, CardAgreeOrOwed
  <2>2. \A l \in Cards : l # v.card => cardCards'[l] = cardCards[l] /\ (l \in cardTorn => l \in cardTorn')
    BY <1>2, <1>5
  <2>3. ASSUME NEW l \in Cards, Card!Linked(l), l # v.card
        PROVE  cardRows'[cardCards[l].task] = cardRows[cardCards[l].task]
    BY <2>3, <1>2, <1>11
  <2>4. (Card!Linked(k) /\ k \notin cardTorn)' =>
           /\ CardTitleAgrees(k)' \/ CardOwesTitle(v) \/ \E q \in Chains : q # s /\ cardJobs[q] # Nil /\ cardJobs[q].card = k /\ CardOwesTitle(cardJobs[q])
           /\ CardPrioAgrees(k)' \/ CardOwesPrio(v) \/ \E q \in Chains : q # s /\ cardJobs[q] # Nil /\ cardJobs[q].card = k /\ CardOwesPrio(cardJobs[q])
    BY <2>1
  <2>5. v # Nil /\ cardJobs'[s] = v /\ v.card = cardJobs[s].card /\ \A q \in Chains : q # s => cardJobs'[q] = cardJobs[q]
    BY <1>1, <1>10
  <2> QED BY <1>2, <2>2, <2>3, <2>4, <2>5, StoreKeepsAgreement
<1>13. CardCleanSaves'
  <2>1. ASSUME v.clean, v.op = "save" PROVE CardCleanSave(v)'
    <3>1. v.board = cardActive /\ cardDialog.prio = v.typed /\ v.prio = CardWanted(v)
      BY <1>1, <2>1 DEF CardCleanSave, CardWanted
    <3>2. Card!OnBoard(v.card, cardActive)'
      BY <3>1, <1>1, <1>2, <1>4, <1>5, <1>6 DEF Card!OnBoard
    <3>3. Card!Linked(v.card) => cardRows[cardCards[v.card].task].title = Card!Content(v.text.content)
      BY <1>1, <2>1 DEF CardCleanSave, CardTitleSet
    <3>4. Card!Linked(v.card)' => cardRows'[cardCards'[v.card].task].title = Card!Content(v.text.content) /\ cardRows'[cardCards'[v.card].task].prio = CardWanted(v)
      BY <3>1, <3>3, <1>2, <1>4, <1>5, <1>6, <1>8
    <3>5. ~CardRowSaved(v) /\ ~CardSaved(v)
      BY <1>1 DEF CardRowSaved, CardSaved
    <3> QED BY <3>1, <3>2, <3>4, <3>5 DEF CardCleanSave, CardRowSaved, CardSaved, Card!Content, CardWanted
  <2> QED BY <1>1, <1>10, <2>1, CleanMoves
<1> QED BY <1>10, <1>12, <1>13 DEF CardsInv

LEMMA SyncKeeps ==
  ASSUME CardsAssumption, CardsInv, NEW s \in Chains, cardJobs[s] # Nil, cardJobs[s].at = "sent", cardJobs[s].step = "sync",
         cardJobs' = [cardJobs EXCEPT ![s].at = "done"], Card!OnBoard(cardJobs[s].card, cardJobs[s].board), Card!Linked(cardJobs[s].card),
         Card!SyncFromTask(cardJobs[s].card), cardTorn' = cardTorn \ {cardJobs[s].card}, UNCHANGED <<cardActive, cardShown, cardDialog>>
  PROVE  CardsInv'
<1>1. PICK v \in CardJobTypes :
        /\ cardJobs' = [cardJobs EXCEPT ![s] = v] /\ CardJobOK(v) /\ v.op = cardJobs[s].op /\ v.card = cardJobs[s].card /\ v.task = cardJobs[s].task
        /\ v.fresh = cardJobs[s].fresh /\ v.text = cardJobs[s].text /\ v.typed = cardJobs[s].typed /\ v.clean = cardJobs[s].clean
        /\ v.step = cardJobs[s].step /\ v.at = "done" /\ v.board = cardJobs[s].board /\ v.prio = cardJobs[s].prio
        /\ v.card \in Cards /\ v.text.content \in CardTitles /\ v.prio \in CardPrios /\ v.board \in OfBoards
        /\ v.op = "save" <=> v.step # "complete"
        /\ v.op = "save" => v.task \in CardTasks /\ v.task # Nil
        /\ v.clean /\ v.op = "save" => CardCleanSave(cardJobs[s])
  BY DoneJob
<1>2. PICK k \in Cards : k = v.card /\ cardCards[k] # Nil /\ cardCards[k].board = cardJobs[s].board
  BY <1>1 DEF Card!OnBoard
<1>3. PICK t \in CardTasks : t = cardCards[k].task /\ cardRows[t] \in CardRowTypes /\ cardRows[t].title # "" /\ Card!Linked(k)
  BY <1>1, <1>2, RowsOfCards
<1>4. PICK c : c = [cardCards[k] EXCEPT !.title = cardRows[t].title, !.prio = cardRows[t].prio]
  OBVIOUS
<1>5. c \in CardTypes /\ c.title = cardRows[t].title /\ c.task = cardCards[k].task /\ c.prio = cardRows[t].prio /\ c.board = cardCards[k].board
  <2>1. cardRows[t].title \in CardTitles /\ cardRows[t].prio \in CardPrios
    BY <1>3 DEF CardRowTypes
  <2>2. cardCards[k] \in CardTypes
    BY <1>2 DEF CardsInv, CardsTyped
  <2> QED BY <1>4, <2>1, <2>2 DEF CardTypes
<1>6. cardCards' \in [Cards -> CardTypes \cup {Nil}] /\ cardCards'[k] = c /\ \A l \in Cards : l # k => cardCards'[l] = cardCards[l]
  BY <1>1, <1>2, <1>3, <1>4, <1>5 DEF Card!SyncFromTask, CardsInv, CardsTyped
<1>7. cardRows' = cardRows /\ c # Nil
  BY <1>5 DEF Card!SyncFromTask, CardsAssumption
<1>8. /\ CardsTyped' /\ CardJobsOK' /\ CardOneCardPerRow' /\ CardRowsTitled'
      /\ cardJobs'[s] = v /\ v # Nil /\ \A q \in Chains : q # s => cardJobs'[q] = cardJobs[q]
  <2>1. \A u \in CardTasks : cardRows'[u] # Nil => cardRows'[u].title # ""
    BY <1>7 DEF CardsInv, CardRowsTitled
  <2>2. ASSUME NEW l \in Cards, NEW u \in CardTasks, CardSaidOf(cardCards'[l], u)
        PROVE  CardClaims(l, u)
    BY <2>2, <1>2, <1>5, <1>6 DEF CardClaims, CardSaidOf
  <2> QED BY <1>1, <1>6, <1>7, <2>1, <2>2, StoreKeepsRows DEF CardsInv, CardsTyped
<1>9. CardAgreeOrOwed'
  <2>1. CardTitleAgrees(k)' /\ CardPrioAgrees(k)'
    BY <1>3, <1>5, <1>6, <1>7 DEF CardTitleAgrees, CardPrioAgrees, Card!Content
  <2>2. \A l \in Cards : l # v.card => cardCards'[l] = cardCards[l] /\ (l \in cardTorn => l \in cardTorn')
    BY <1>1, <1>2, <1>6
  <2>3. ASSUME NEW l \in Cards, Card!Linked(l), l # v.card
        PROVE  cardRows'[cardCards[l].task] = cardRows[cardCards[l].task]
    BY <1>7
  <2>4. (Card!Linked(k) /\ k \notin cardTorn)' =>
           /\ CardTitleAgrees(k)' \/ CardOwesTitle(v) \/ \E q \in Chains : q # s /\ cardJobs[q] # Nil /\ cardJobs[q].card = k /\ CardOwesTitle(cardJobs[q])
           /\ CardPrioAgrees(k)' \/ CardOwesPrio(v) \/ \E q \in Chains : q # s /\ cardJobs[q] # Nil /\ cardJobs[q].card = k /\ CardOwesPrio(cardJobs[q])
    BY <2>1
  <2>5. v # Nil /\ cardJobs'[s] = v /\ v.card = cardJobs[s].card /\ \A q \in Chains : q # s => cardJobs'[q] = cardJobs[q]
    BY <1>1, <1>8
  <2> QED BY <1>2, <2>2, <2>3, <2>4, <2>5, StoreKeepsAgreement
<1>10. CardCleanSaves'
  <2>1. ASSUME v.clean, v.op = "save" PROVE CardCleanSave(v)'
    <3>1. v.board = cardActive /\ cardDialog.prio = v.typed
      BY <1>1, <2>1 DEF CardCleanSave
    <3>2. cardRows[t].title = Card!Content(v.text.content) /\ cardRows[t].prio = CardWanted(v)
      BY <1>1, <1>2, <1>3, <2>1 DEF CardCleanSave, CardTitleSet, CardPrioSet, CardWanted
    <3>3. cardRows[v.task].title = Card!Content(v.text.content) /\ cardRows[v.task].prio = CardWanted(v) /\ cardRows[v.task].board = cardActive
      BY <1>1, <2>1 DEF CardCleanSave, CardRowSaved, CardWanted
    <3>4. Card!OnBoard(v.card, cardActive)'
      BY <3>1, <1>1, <1>2, <1>5, <1>6, <1>7 DEF Card!OnBoard
    <3>5. /\ cardRows'[cardCards'[v.card].task].title = Card!Content(v.text.content) /\ cardRows'[cardCards'[v.card].task].prio = CardWanted(v)
          /\ cardCards'[v.card].title = Card!Content(v.text.content) /\ cardCards'[v.card].prio = CardWanted(v)
      BY <3>2, <1>2, <1>3, <1>5, <1>6, <1>7
    <3>6. v.step \notin {"prio", "update"}
      BY <1>1
    <3> QED BY <3>1, <3>3, <3>4, <3>5, <3>6, <1>7 DEF CardCleanSave, Card!Content, CardWanted, Card!Linked
  <2> QED BY <1>1, <1>8, <2>1, CleanMoves
<1> QED BY <1>8, <1>9, <1>10 DEF CardsInv

LEMMA StackKeeps ==
  ASSUME CardsAssumption, CardsInv, NEW s \in Chains, cardJobs[s] # Nil, cardJobs[s].at = "sent", cardJobs[s].step = "complete",
         cardJobs' = [cardJobs EXCEPT ![s].at = "done"], Card!OnBoard(cardJobs[s].card, cardJobs[s].board),
         Card!CompleteStack(cardJobs[s].card), UNCHANGED <<cardActive, cardShown, cardDialog, cardTorn>>
  PROVE  CardsInv'
<1>1. PICK v \in CardJobTypes :
        /\ cardJobs' = [cardJobs EXCEPT ![s] = v] /\ CardJobOK(v) /\ v.op = cardJobs[s].op /\ v.card = cardJobs[s].card /\ v.task = cardJobs[s].task
        /\ v.fresh = cardJobs[s].fresh /\ v.text = cardJobs[s].text /\ v.typed = cardJobs[s].typed /\ v.clean = cardJobs[s].clean
        /\ v.step = cardJobs[s].step /\ v.at = "done" /\ v.board = cardJobs[s].board /\ v.prio = cardJobs[s].prio
        /\ v.card \in Cards /\ v.text.content \in CardTitles /\ v.prio \in CardPrios /\ v.board \in OfBoards
        /\ v.op = "save" <=> v.step # "complete"
        /\ v.op = "save" => v.task \in CardTasks /\ v.task # Nil
        /\ v.clean /\ v.op = "save" => CardCleanSave(cardJobs[s])
  BY DoneJob
<1>2. PICK k \in Cards : k = v.card /\ cardCards[k] # Nil /\ cardCards[k].board = cardJobs[s].board
  BY <1>1 DEF Card!OnBoard
<1>3. cardCards' \in [Cards -> CardTypes \cup {Nil}] /\ cardCards'[k] = Nil /\ \A l \in Cards : l # k => cardCards'[l] = cardCards[l]
  BY <1>1, <1>2 DEF Card!CompleteStack, CardsInv, CardsTyped
<1>4. /\ cardRows' \in [CardTasks -> CardRowTypes \cup {Nil}]
      /\ \A u \in CardTasks : cardRows[u] # Nil => cardRows'[u] # Nil
      /\ \A u \in CardTasks : cardRows'[u] # Nil => cardRows'[u].title # ""
      /\ \A l \in Cards : Card!Linked(l) /\ l # k => cardRows'[cardCards[l].task] = cardRows[cardCards[l].task]
  <2>1. CASE ~Card!Linked(k)
    BY <2>1, <1>1, <1>2 DEF Card!CompleteStack, CardsInv, CardsTyped, CardRowsTitled
  <2>2. CASE Card!Linked(k)
    <3>1. PICK t \in CardTasks : t = cardCards[k].task /\ cardRows[t] \in CardRowTypes /\ cardRows[t].title # ""
      BY <2>2, RowsOfCards
    <3>2. PICK r : r = [cardRows[t] EXCEPT !.done = TRUE]
      OBVIOUS
    <3>3. r \in CardRowTypes /\ r.title = cardRows[t].title /\ r # Nil
      <4>1. r \in CardRowTypes /\ r.title = cardRows[t].title
        BY <3>1, <3>2 DEF CardRowTypes
      <4> QED BY <4>1 DEF CardsAssumption
    <3>4. cardRows' = [cardRows EXCEPT ![t] = r]
      <4>1. cardRows' = [cardRows EXCEPT ![t].done = TRUE]
        BY <2>2, <3>1, <1>1, <1>2 DEF Card!CompleteStack
      <4> QED BY <4>1, <3>1, <3>2 DEF CardsInv, CardsTyped
    <3>5. cardRows' \in [CardTasks -> CardRowTypes \cup {Nil}] /\ cardRows'[t] = r /\ \A u \in CardTasks : u # t => cardRows'[u] = cardRows[u]
      BY <3>3, <3>4 DEF CardsInv, CardsTyped
    <3>6. \A l \in Cards : Card!Linked(l) /\ l # k => cardRows'[cardCards[l].task] = cardRows[cardCards[l].task]
      BY <2>2, <3>1, <3>5, RowsOfCards
    <3> QED BY <3>1, <3>3, <3>5, <3>6 DEF CardsInv, CardRowsTitled
  <2> QED BY <2>1, <2>2
<1>5. /\ CardsTyped' /\ CardJobsOK' /\ CardOneCardPerRow' /\ CardRowsTitled'
      /\ cardJobs'[s] = v /\ v # Nil /\ \A q \in Chains : q # s => cardJobs'[q] = cardJobs[q]
  <2>1. ASSUME NEW l \in Cards, NEW u \in CardTasks, CardSaidOf(cardCards'[l], u)
        PROVE  CardClaims(l, u)
    BY <2>1, <1>3 DEF CardClaims, CardSaidOf
  <2> QED BY <1>1, <1>3, <1>4, <2>1, StoreKeepsRows DEF CardsInv, CardsTyped
<1>6. CardAgreeOrOwed'
  <2>1. ~Card!Linked(k)'
    BY <1>3 DEF Card!Linked
  <2>2. \A l \in Cards : l # v.card => cardCards'[l] = cardCards[l] /\ (l \in cardTorn => l \in cardTorn')
    BY <1>1, <1>2, <1>3
  <2>3. ASSUME NEW l \in Cards, Card!Linked(l), l # v.card
        PROVE  cardRows'[cardCards[l].task] = cardRows[cardCards[l].task]
    BY <2>3, <1>2, <1>4
  <2>4. (Card!Linked(k) /\ k \notin cardTorn)' =>
           /\ CardTitleAgrees(k)' \/ CardOwesTitle(v) \/ \E q \in Chains : q # s /\ cardJobs[q] # Nil /\ cardJobs[q].card = k /\ CardOwesTitle(cardJobs[q])
           /\ CardPrioAgrees(k)' \/ CardOwesPrio(v) \/ \E q \in Chains : q # s /\ cardJobs[q] # Nil /\ cardJobs[q].card = k /\ CardOwesPrio(cardJobs[q])
    BY <2>1
  <2>5. v # Nil /\ cardJobs'[s] = v /\ v.card = cardJobs[s].card /\ \A q \in Chains : q # s => cardJobs'[q] = cardJobs[q]
    BY <1>1, <1>5
  <2> QED BY <1>2, <2>2, <2>3, <2>4, <2>5, StoreKeepsAgreement
<1>7. CardCleanSaves'
  <2>1. v.op # "save"
    BY <1>1
  <2> QED BY <1>1, <1>5, <2>1, CleanMoves
<1> QED BY <1>5, <1>6, <1>7 DEF CardsInv

LEMMA ServeKeeps ==
  ASSUME CardsAssumption, CardsInv, NEW s \in Chains, Card!Serve(s)
  PROVE  CardsInv'
<1>1. cardJobs[s] # Nil /\ cardJobs[s].at = "sent" /\ UNCHANGED <<cardActive, cardShown, cardDialog>>
  BY DEF Card!Serve
<1>2. /\ cardJobs[s].step \in Card!Steps /\ cardJobs[s] \in CardJobTypes
      /\ cardTorn' = IF cardJobs[s].step = "sync" /\ cardJobs'[s].at = "done" THEN cardTorn \ {cardJobs[s].card} ELSE cardTorn
  BY <1>1 DEF Card!Serve, CardsInv, CardsTyped, CardJobTypes
<1>3. CASE cardJobs[s].step \in {"parse", "load"}
  <2>1. cardJobs' = [cardJobs EXCEPT ![s].at = "done"] /\ UNCHANGED <<cardRows, cardCards, cardTorn>>
    BY <1>2, <1>3 DEF Card!Serve, Card!Stays
  <2> QED BY <1>1, <1>3, <2>1, ServeNothing
<1>4. CASE cardJobs[s].step = "create"
  <2>1. PICK t \in CardTasks :
          /\ cardRows[t] = Nil /\ cardJobs' = [cardJobs EXCEPT ![s].at = "done", ![s].task = t]
          /\ cardRows' = [cardRows EXCEPT ![t] = [board |-> Nil, title |-> Card!Content(cardJobs[s].text.content), prio |-> 4, done |-> FALSE]]
          /\ UNCHANGED cardCards
    BY <1>4 DEF Card!Serve, Card!Stays
  <2> QED BY <1>1, <1>2, <1>4, <2>1, CardCreateKeeps
<1>5. CASE cardJobs[s].step = "update"
  <2>1. /\ cardJobs' = [cardJobs EXCEPT ![s].at = "done"] /\ UNCHANGED cardCards
        /\ cardRows' = [cardRows EXCEPT ![cardJobs[s].task] = [@ EXCEPT !.board = cardJobs[s].board, !.title = Card!Content(cardJobs[s].text.content), !.prio = cardJobs[s].prio]]
    BY <1>5 DEF Card!Serve, Card!Stays
  <2> QED BY <1>1, <1>2, <1>5, <2>1, UpdateKeeps
<1>6. CASE cardJobs[s].step \in {"link", "title", "prio", "sync", "complete"}
  <2>1. CASE ~Card!OnBoard(cardJobs[s].card, cardJobs[s].board) \/ (cardJobs[s].step = "sync" /\ ~Card!Linked(cardJobs[s].card))
    <3>1. cardJobs' = [cardJobs EXCEPT ![s].at = "refused"] /\ UNCHANGED <<cardRows, cardCards>>
      BY <1>6, <2>1 DEF Card!Serve, Card!Stays
    <3>2. cardJobs'[s].at = "refused"
      BY <3>1, <1>2 DEF CardsInv, CardsTyped, CardJobTypes
    <3> QED BY <1>1, <1>2, <1>6, <3>1, <3>2, ServeNothing
  <2>2. CASE Card!OnBoard(cardJobs[s].card, cardJobs[s].board) /\ (cardJobs[s].step = "sync" => Card!Linked(cardJobs[s].card))
    <3>1. /\ cardJobs' = [cardJobs EXCEPT ![s].at = "done"]
          /\ cardJobs[s].step = "link" => cardCards' = [cardCards EXCEPT ![cardJobs[s].card].task = cardJobs[s].task] /\ UNCHANGED cardRows
          /\ cardJobs[s].step = "title" => Card!SetBoth(cardJobs[s].card, "title", cardJobs[s].text.content)
          /\ cardJobs[s].step = "prio" => Card!SetBoth(cardJobs[s].card, "prio", cardJobs[s].prio)
          /\ cardJobs[s].step = "sync" => Card!SyncFromTask(cardJobs[s].card)
          /\ cardJobs[s].step = "complete" => Card!CompleteStack(cardJobs[s].card)
      BY <1>6, <2>2 DEF Card!Serve, Card!Stays
    <3>2. cardJobs'[s].at = "done"
      BY <3>1, <1>2 DEF CardsInv, CardsTyped, CardJobTypes
    <3>3. CASE cardJobs[s].step = "link"
      BY <1>1, <1>2, <2>2, <3>1, <3>3, LinkKeeps
    <3>4. CASE cardJobs[s].step = "title"
      BY <1>1, <1>2, <2>2, <3>1, <3>4, TitleKeeps
    <3>5. CASE cardJobs[s].step = "prio"
      BY <1>1, <1>2, <2>2, <3>1, <3>5, PrioKeeps
    <3>6. CASE cardJobs[s].step = "sync"
      BY <1>1, <1>2, <2>2, <3>1, <3>2, <3>6, SyncKeeps
    <3>7. CASE cardJobs[s].step = "complete"
      BY <1>1, <1>2, <2>2, <3>1, <3>7, StackKeeps
    <3> QED BY <1>6, <3>3, <3>4, <3>5, <3>6, <3>7
  <2> QED BY <2>1, <2>2
<1> QED BY <1>2, <1>3, <1>4, <1>5, <1>6 DEF Card!Steps

-----------------------------------------------------------------------------
(* What the page does with the answers, and the theorems *)

LEMMA ContinueKeeps ==
  ASSUME CardsAssumption, CardsInv, NEW s \in Chains, Card!Continue(s)
  PROVE  CardsInv'
<1>1. /\ cardJobs[s] # Nil /\ cardJobs[s].at = "done" /\ cardJobs[s] \in CardJobTypes /\ CardJobOK(cardJobs[s]) /\ cardActive \in OfBoards
      /\ UNCHANGED <<cardRows, cardCards, cardActive, cardTorn>>
  BY DEF Card!Continue, CardsInv, CardsTyped, CardJobsOK
<1>2. CASE cardJobs[s].step = "load"
  <2>1. ~CardOwesTitle(cardJobs[s]) /\ ~CardOwesPrio(cardJobs[s])
    BY <1>2 DEF CardOwesTitle, CardOwesPrio, CardHalves, CardRelinked
  <2>2. /\ cardShown' = Card!CardsOf(cardActive) /\ cardJobs' = [cardJobs EXCEPT ![s] = Nil]
        /\ cardDialog' \in {cardDialog, [cardDialog EXCEPT !.open = FALSE]}
    BY <1>2 DEF Card!Continue
  <2> QED BY <1>1, <2>1, <2>2, EndKeeps
<1>3. CASE cardJobs[s].step = "parse" /\ cardJobs[s].text.content = ""
  <2>1. ~CardOwesTitle(cardJobs[s]) /\ ~CardOwesPrio(cardJobs[s])
    BY <1>3 DEF CardOwesTitle, CardOwesPrio, CardHalves, CardRelinked
  <2>2. cardJobs' = [cardJobs EXCEPT ![s] = Nil] /\ UNCHANGED <<cardShown, cardDialog>>
    BY <1>3 DEF Card!Continue
  <2> QED BY <1>1, <2>1, <2>2, EndKeeps
<1>4. CASE cardJobs[s].step # "load" /\ ~(cardJobs[s].step = "parse" /\ cardJobs[s].text.content = "")
  <2>1. PICK step : step = Card!NextStep(cardJobs[s])
    OBVIOUS
  <2>2. PICK v : v = Card!Sent(cardJobs[s], step)
    OBVIOUS
  <2>3. cardJobs' = [cardJobs EXCEPT ![s] = v] /\ UNCHANGED <<cardShown, cardDialog>>
    BY <1>4, <2>1, <2>2 DEF Card!Continue
  <2>4. step \in Card!Steps /\ step # "parse" /\ step # "complete"
    BY <1>1, <1>4, <2>1 DEF Card!NextStep, CardJobTypes, Card!Steps
  <2>5. PICK p : p = IF step \notin {"prio", "update"} THEN Nil ELSE IF cardJobs[s].text.prio # Nil THEN cardJobs[s].text.prio ELSE cardDialog.prio
    OBVIOUS
  <2>6. p \in CardPrios
    <3>1. cardDialog.prio \in CardPrios
      BY DEF CardsInv, CardsTyped, CardPrios
    <3>2. cardJobs[s].text.prio \in CardPrios /\ Nil \in CardPrios
      BY <1>1 DEF CardJobTypes, CardTextTypes, CardPrios
    <3> QED BY <2>5, <3>1, <3>2
  <2>7. v = [cardJobs[s] EXCEPT !.step = step, !.at = "sent", !.board = cardActive, !.prio = p]
    BY <2>2, <2>5 DEF Card!Sent
  <2>8. /\ v \in CardJobTypes /\ v.op = cardJobs[s].op /\ v.card = cardJobs[s].card /\ v.task = cardJobs[s].task /\ v.fresh = cardJobs[s].fresh
        /\ v.text = cardJobs[s].text /\ v.typed = cardJobs[s].typed /\ v.clean = cardJobs[s].clean /\ v.step = step /\ v.at = "sent"
        /\ v.board = cardActive /\ v.prio = p
    BY <1>1, <2>4, <2>6, <2>7 DEF CardJobTypes
  <2>9. CardJobOK(v)
    BY <1>1, <1>4, <2>1, <2>8 DEF CardJobOK, CardHasRow, Card!NextStep, CardJobTypes, Card!Steps
  <2>10. (CardOwesTitle(cardJobs[s]) => CardOwesTitle(v)) /\ (CardOwesPrio(cardJobs[s]) => CardOwesPrio(v))
    BY <1>1, <2>1, <2>8 DEF CardOwesTitle, CardOwesPrio, CardHalves, CardRelinked, Card!NextStep
  <2>11. ASSUME v.op = "save", CardCleanSave(cardJobs[s])
         PROVE  CardCleanSave(v)
    <3>1. /\ CardTitleSet(v) => CardTitleSet(cardJobs[s])
          /\ CardPrioSet(v) => CardPrioSet(cardJobs[s])
          /\ CardRowSaved(v) => CardRowSaved(cardJobs[s])
          /\ CardSaved(v) => CardSaved(cardJobs[s])
      <4>1. cardJobs[s].step # "complete" /\ cardJobs[s].step \in Card!Steps
        BY <1>1, <2>8, <2>11 DEF CardJobOK, CardJobTypes
      <4> QED BY <4>1, <1>1, <1>4, <2>1, <2>8 DEF CardTitleSet, CardPrioSet, CardRowSaved, CardSaved, Card!NextStep, Card!Steps
    <3>2. CardWanted(v) = CardWanted(cardJobs[s])
      BY <2>8 DEF CardWanted
    <3>3. v.board = cardActive /\ cardDialog.prio = v.typed /\ (v.step \in {"prio", "update"} => v.prio = CardWanted(v))
      BY <2>5, <2>8, <2>11 DEF CardCleanSave, CardWanted
    <3>4. CardTitleSet(v) => Card!OnBoard(v.card, cardActive) /\ (Card!Linked(v.card) => cardRows[cardCards[v.card].task].title = Card!Content(v.text.content))
      BY <2>8, <2>11, <3>1 DEF CardCleanSave
    <3>5. CardPrioSet(v) => (Card!Linked(v.card) => cardRows[cardCards[v.card].task].prio = CardWanted(v))
      BY <2>8, <2>11, <3>1, <3>2 DEF CardCleanSave
    <3>6. CardRowSaved(v) => cardRows[v.task].title = Card!Content(v.text.content) /\ cardRows[v.task].prio = CardWanted(v) /\ cardRows[v.task].board = cardActive
      BY <2>8, <2>11, <3>1, <3>2 DEF CardCleanSave
    <3>7. CardSaved(v) => cardCards[v.card].title = Card!Content(v.text.content) /\ cardCards[v.card].prio = CardWanted(v)
      BY <2>8, <2>11, <3>1, <3>2 DEF CardCleanSave
    <3> QED BY <3>3, <3>4, <3>5, <3>6, <3>7 DEF CardCleanSave
  <2> QED BY <1>1, <2>3, <2>8, <2>9, <2>10, <2>11, AdvanceKeeps
<1> QED BY <1>2, <1>3, <1>4

LEMMA BreakOffKeeps ==
  ASSUME CardsAssumption, CardsInv, NEW s \in Chains, cardJobs[s] # Nil, Card!BreakOff(s)
  PROVE  CardsInv'
<1>1. cardTorn' = cardTorn \cup {cardJobs[s].card} \/ (cardTorn' = cardTorn /\ ~CardOwesTitle(cardJobs[s]) /\ ~CardOwesPrio(cardJobs[s]))
  BY DEF Card!BreakOff, Card!TornBy, CardOwesTitle, CardOwesPrio, CardHalves, CardRelinked
<1> QED BY <1>1, EndKeeps DEF Card!BreakOff

LEMMA NextCards ==
  ASSUME CardsAssumption, CardsInv, [Card!Next]_cardVars
  PROVE  CardsInv'
<1>1. CASE UNCHANGED cardVars
  <2>1. UNCHANGED <<cardRows, cardCards, cardActive, cardShown, cardDialog, cardJobs, cardTorn>>
    BY <1>1 DEF cardVars
  <2> QED BY <2>1, Quiet DEF CardsInv, CardsTyped
<1>2. CASE Card!Gesture
  BY <1>2, CardOpenKeeps, CardCloseKeeps, TypeKeeps, PriorityKeeps, CardSaveKeeps, CompleteKeeps, SwitchKeeps, LoadKeeps DEF Card!Gesture
<1>3. CASE Card!Progress
  BY <1>3, ServeKeeps, ContinueKeeps, BreakOffKeeps DEF Card!Progress, Card!Refused, Card!Lost
<1> QED BY <1>1, <1>2, <1>3 DEF Card!Next

LEMMA InvMeansAgree ==
  ASSUME CardsAssumption, CardsInv
  PROVE  Card!TypeOK /\ Card!CardsAgree
<1>1. ASSUME NEW s \in Chains, cardJobs[s] # Nil
      PROVE  cardJobs[s].step \in Card!Steps /\ (cardJobs[s].step \in {"link", "title", "update", "sync"} => cardJobs[s].task # Nil)
  BY <1>1 DEF CardsInv, CardsTyped, CardJobsOK, CardJobOK, CardHasRow, CardJobTypes
<1>2. ASSUME NEW k \in Cards, Card!Linked(k)
      PROVE  cardRows[cardCards[k].task] # Nil
  BY <1>2, RowsOfCards DEF CardsAssumption
<1>3. Card!TypeOK
  BY <1>1, <1>2 DEF Card!TypeOK, CardsInv, CardsTyped
<1>4. Card!CardsAgree
  <2> SUFFICES ASSUME \A s \in Chains : cardJobs[s] = Nil, NEW k \in Cards, Card!Linked(k)
               PROVE  /\ k \in cardTorn \/ (CardTitleAgrees(k) /\ CardPrioAgrees(k))
                      /\ \A l \in Cards \ {k} : Card!Linked(l) => cardCards[l].task # cardCards[k].task
    BY DEF Card!CardsAgree, CardTitleAgrees, CardPrioAgrees
  <2>1. k \in cardTorn \/ (CardTitleAgrees(k) /\ CardPrioAgrees(k))
    BY DEF CardsInv, CardAgreeOrOwed
  <2> QED BY <2>1, RowsOfCards
<1> QED BY <1>3, <1>4

LEMMA StepKeepsForm ==
  ASSUME CardsAssumption, CardsInv, [Card!Next]_cardVars
  PROVE  Card!SaveKeepsForm
<1> SUFFICES ASSUME NEW s \in Chains, cardJobs[s] # Nil, cardJobs'[s] = Nil, cardJobs[s].step = "load", cardJobs[s].op = "save", cardJobs[s].clean
             PROVE  /\ cardRows[cardJobs[s].task].title = Card!Content(cardJobs[s].text.content) /\ cardRows[cardJobs[s].task].prio = CardWanted(cardJobs[s])
                    /\ cardRows[cardJobs[s].task].board = cardActive
                    /\ cardShown'[cardJobs[s].card] # Nil /\ cardShown'[cardJobs[s].card].title = cardRows[cardJobs[s].task].title
                    /\ cardShown'[cardJobs[s].card].prio = CardWanted(cardJobs[s])
  BY DEF Card!SaveKeepsForm, CardWanted
<1>1. cardJobs[s] \in CardJobTypes /\ CardCleanSave(cardJobs[s]) /\ CardJobOK(cardJobs[s])
  BY DEF CardsInv, CardsTyped, CardCleanSaves, CardJobsOK
<1>2. cardShown' = Card!CardsOf(cardActive)
  <2>2. cardJobs' # cardJobs
    OBVIOUS
  <2>3. ASSUME Card!Disturb PROVE FALSE
    <3>1. cardJobs'[s] = [cardJobs[s] EXCEPT !.clean = FALSE]
      BY <2>3 DEF Card!Disturb
    <3>2. cardJobs'[s] \in CardJobTypes
      BY <1>1, <3>1 DEF CardJobTypes
    <3> QED BY <3>2 DEF CardsAssumption
  <2>4. ASSUME NEW r \in Chains, Card!Serve(r) PROVE FALSE
    <3>1. CASE r = s
      <4>1. cardJobs' = [cardJobs EXCEPT ![s].at = "done"]
        BY <2>4, <3>1 DEF Card!Serve, Card!Stays
      <4>2. [cardJobs[s] EXCEPT !.at = "done"] \in CardJobTypes
        BY <1>1 DEF CardJobTypes
      <4> QED BY <4>1, <4>2 DEF CardsInv, CardsTyped, CardsAssumption
    <3>2. CASE r # s
      <4>1. cardJobs'[s] = cardJobs[s]
        BY <2>4, <3>2 DEF Card!Serve, Card!Stays, CardsInv, CardsTyped
      <4> QED BY <4>1
    <3> QED BY <3>1, <3>2
  <2>5. ASSUME NEW r \in Chains, Card!Continue(r) PROVE cardShown' = Card!CardsOf(cardActive)
    <3>1. CASE r = s
      BY <2>5, <3>1 DEF Card!Continue
    <3>2. CASE r # s
      BY <2>5, <3>2 DEF Card!Continue, CardsInv, CardsTyped
    <3> QED BY <3>1, <3>2
  <2>6. ASSUME NEW r \in Chains, Card!Refused(r) \/ Card!Lost(r) PROVE FALSE
    <3>1. CASE r = s
      BY <2>6, <3>1, <1>1 DEF Card!Refused, Card!Lost, CardJobOK
    <3>2. CASE r # s
      BY <2>6, <3>2 DEF Card!Refused, Card!Lost, Card!BreakOff, CardsInv, CardsTyped
    <3> QED BY <3>1, <3>2
  <2>7. ASSUME NEW v, Card!Start(v) PROVE FALSE
    <3>1. cardJobs[Card!FreeSlot] = Nil /\ Card!FreeSlot \in Chains
      BY <2>7 DEF Card!Start, Card!FreeSlot
    <3>2. s # Card!FreeSlot
      BY <3>1
    <3>3. cardJobs'[s] = [cardJobs[s] EXCEPT !.clean = FALSE]
      BY <2>7, <3>2 DEF Card!Start
    <3>4. cardJobs'[s] \in CardJobTypes
      BY <1>1, <3>3 DEF CardJobTypes
    <3> QED BY <3>4 DEF CardsAssumption
  <2>8. ASSUME Card!Gesture PROVE FALSE
    <3>1. CASE Card!saveDetail
      <4>1. \E v : Card!Start(v)
        BY <3>1 DEF Card!saveDetail
      <4> QED BY <4>1, <2>7
    <3>2. CASE Card!completeStack
      <4>1. \E v : Card!Start(v)
        BY <3>2 DEF Card!completeStack
      <4> QED BY <4>1, <2>7
    <3>3. CASE ~Card!saveDetail /\ ~Card!completeStack
      BY <2>2, <2>3, <2>8, <3>3 DEF Card!Gesture, Card!openDetail, Card!closeDetail, Card!onDetailTitleInput, Card!setDetailPriority, Card!SwitchBoard, Card!Load
    <3> QED BY <3>1, <3>2, <3>3
  <2> QED BY <2>2, <2>4, <2>5, <2>6, <2>8 DEF Card!Next, Card!Progress, cardVars
<1>3. Card!OnBoard(cardJobs[s].card, cardActive) /\ cardJobs[s].card \in Cards
  BY <1>1 DEF CardCleanSave, CardTitleSet, CardJobTypes
<1>4. cardShown'[cardJobs[s].card] = cardCards[cardJobs[s].card] /\ cardCards[cardJobs[s].card] # Nil
  BY <1>2, <1>3 DEF Card!CardsOf, Card!OnBoard
<1> QED BY <1>1, <1>4 DEF CardCleanSave, CardRowSaved, CardSaved

-----------------------------------------------------------------------------
(* Of the pages of the client. *)

LEMMA StepsCard ==
  ASSUME [PagesNext]_pagesvars, OnCards
  PROVE  [Card!Next]_cardVars /\ OnCards'
BY DEF PagesNext, pagesvars, OnlyCards, OnlyHome, OnlyTeam, OnlyProfile, OnlyShare, OnCards, OnHome, OnTeam, OnProfile, OnShare

LEMMA StaysCard ==
  ASSUME [PagesNext]_pagesvars
  PROVE  OnCards' <=> OnCards
BY DEF PagesNext, pagesvars, OnlyCards, OnlyHome, OnlyTeam, OnlyProfile, OnlyShare, OnCards

(* BoardCardsAgree: whatever saves and completions overlap, are lost or         *)
(* refused, with no chain under way a card holds what its row does unless the   *)
(* last chain for it broke off half-way, and no two cards share a row.          *)
THEOREM CardsHoldTheirRows == PagesSpec => []BoardCardsAgree
<1> DEFINE Inv == OnCards => CardsInv
<1>0. CardsAssumption
  BY PagesAssumption
<1>1. PagesInit => Inv
  BY <1>0, InitCards DEF PagesInit, OnCards, OnHome, OnTeam, OnProfile, OnShare
<1>2. Inv /\ [PagesNext]_pagesvars => Inv'
  BY <1>0, StepsCard, StaysCard, NextCards
<1>3. Inv => BoardCardsAgree
  BY <1>0, InvMeansAgree DEF BoardCardsAgree
<1> QED BY <1>1, <1>2, <1>3, PTL DEF PagesSpec

(* DialogsKeepWhatWasTyped: a save that nothing came between leaves in the row, *)
(* and on the card of a board, what the form said when the button was pressed,  *)
(* and a list of sections that arrives alone clears no section chosen.          *)
THEOREM SavedAsTyped == PagesSpec => DialogsKeepWhatWasTyped
<1> DEFINE Inv == (OnCards => CardsInv) /\ (OnHome => HomeInv)
           Kept == (OnCards => Card!SaveKeepsForm) /\ (OnHome => Home!SaveKeepsForm /\ Home!ListKeepsSection)
<1>0. CardsAssumption /\ HomeAssumption
  BY PagesAssumption
<1>1. PagesInit => Inv
  BY <1>0, InitCards, InitHome DEF PagesInit, OnCards, OnHome, OnTeam, OnProfile, OnShare
<1>2. Inv /\ [PagesNext]_pagesvars => Inv'
  BY <1>0, StepsCard, StaysCard, StepsHome, StaysHome, NextCards, NextHome
<1>3. Inv /\ [PagesNext]_pagesvars => Kept
  BY <1>0, StepsCard, StepsHome, StepKeepsForm, CleanSaveSaid, NextSection
<1>4. Inv /\ [PagesNext]_pagesvars => [Kept]_pagesvars
  BY <1>3
<1> QED BY <1>1, <1>2, <1>4, PTL DEF PagesSpec, DialogsKeepWhatWasTyped

-----------------------------------------------------------------------------
(* The list of the home page.  The invariant says what a page that has not    *)
(* gone stale still waits for: the calls of one drag, or one other call.      *)

Lists == [Tasks -> ListRow \cup {None}]

\* Calls as the handlers make them; a saved title comes back with its row.
ListCallOK(c) ==
  /\ DOMAIN c = {"op", "task", "value", "at", "doc"}
  /\ c.op \in {"mount", "add", "close", "reopen", "remove", "title", "order", "leftover", "activate"}
  /\ c.at \in {"sent", "waiting", "done", "refused"}
  /\ c.op \notin {"mount", "add"} => c.task \in Tasks
  /\ c.op = "mount" => c.at = "waiting"
  /\ c.op \in {"order", "leftover"} => c.value \in Nat
  /\ c.op = "title" => c.value \in {"old", "new"} /\ (c.at = "done" => c.doc \in ListRow)
  /\ c.op = "add" => c.value \in Projects \cup {"inbox"}

\* Somebody waits for a query under way; an answer nothing overtook is still the one.
FetchOK ==
  /\ fetch # None => /\ DOMAIN fetch = {"at", "doc"} /\ fetch.at \in {"sent", "done", "late"}
                     /\ fetch.at # "sent" => fetch.doc \in Lists
                     /\ fetch.at = "done" => fetch.doc = Answer
                     /\ \E c \in calls : c.at = "waiting"

ListTyped ==
  /\ stored \in Lists /\ tasks \in Lists /\ (cached # None => cached \in Lists)
  /\ \A c \in calls : ListCallOK(c)
  /\ editing # None => DOMAIN editing = {"task", "text"} /\ editing.task \in Tasks /\ editing.text \in {"", "old", "new"}

\* Whether the rows there ever were fit one answer; whether none is missing then.
Few == Cardinality({t \in Tasks : stored[t] # None}) <= PageLimit
Complete == Few => \A t \in ListedIn(stored) : tasks[t] # None
Matches(t) == tasks[t] = None \/ tasks[t] = stored[t]
\* The page shows what the service has.
Synced == (\A t \in Tasks : Matches(t)) /\ Complete
\* It will, once it has shown what a saved title or a removal changed.
ShowsAfter(c) ==
  c.op \in {"title", "remove"} =>
    /\ \A t \in Tasks \ {c.task} : Matches(t)
    /\ Complete
    /\ c.op = "title" => c.doc = stored[c.task]
    /\ c.op = "remove" => stored[c.task] # None /\ stored[c.task].status = "deleted"
\* What is known while one call is under way that is no part of a drag.
OnItsWay(c) ==
  \/ c.at \in {"sent", "refused"} /\ c.op \notin {"order", "leftover"} /\ Synced
  \/ c.at = "done" /\ c.op \notin {"order", "leftover"} /\ ShowsAfter(c)
  \/ c.at = "waiting" /\ (fetch # None => fetch.at # "late")
\* While rows are reordered a row is shown where its call is still to put it.
Owes(c) == c.at \in {"sent", "refused"}
Reordering ==
  /\ \A c \in calls : c.op = "order" /\ c.at # "waiting"
  /\ \A c, d \in calls : c.doc = d.doc /\ (c.task = d.task => c = d)
  /\ \A t \in Tasks : \/ tasks[t] = None
                      \/ tasks[t] = stored[t] /\ \A c \in calls : c.task = t => ~Owes(c)
                      \/ \E c \in calls : c.task = t /\ Owes(c) /\ stored[t] # None /\ tasks[t] = [stored[t] EXCEPT !.order = c.value]
  /\ Complete

Settles == ~stale => Reordering \/ \E c \in calls : calls = {c} /\ OnItsWay(c)
ListInv == ListTyped /\ FetchOK /\ Settles

-----------------------------------------------------------------------------
(* Orders *)

\* What comes before t, and what is strictly ordered so.
Below(S, R, t) == {u \in S : <<u, t>> \in R}
StrictOrder(S, R) ==
  /\ \A t \in S : <<t, t>> \notin R
  /\ \A t, u \in S : t # u => <<t, u>> \in R \/ <<u, t>> \in R
  /\ \A t, u, v \in S : <<t, u>> \in R /\ <<u, v>> \in R => <<t, v>> \in R

\* A finite set under a strict total order has one element of every rank.
LEMMA Ranked ==
  ASSUME NEW S, IsFiniteSet(S), NEW R, StrictOrder(S, R)
  PROVE  /\ Cardinality(S) \in Nat
         /\ \A t \in S : Cardinality(Below(S, R, t)) \in 0..Cardinality(S) - 1
         /\ \A t, u \in S : Cardinality(Below(S, R, t)) = Cardinality(Below(S, R, u)) => t = u
         /\ \A k \in 0..Cardinality(S) - 1 : \E t \in S : Cardinality(Below(S, R, t)) = k
<1>1. Cardinality(S) \in Nat
  BY FS_CardinalityType
<1>2. ASSUME NEW t \in S
      PROVE  IsFiniteSet(Below(S, R, t)) /\ Cardinality(Below(S, R, t)) \in Nat /\ Below(S, R, t) \in SUBSET S /\ t \notin Below(S, R, t)
  <2>1. Below(S, R, t) \in SUBSET S /\ t \notin Below(S, R, t)
    BY DEF Below, StrictOrder
  <2> QED BY <2>1, FS_Subset, FS_CardinalityType
<1>3. ASSUME NEW t \in S
      PROVE  Cardinality(Below(S, R, t)) \in 0..Cardinality(S) - 1
  <2>1. Cardinality(Below(S, R, t)) <= Cardinality(S) /\ (Cardinality(S) = Cardinality(Below(S, R, t)) => S = Below(S, R, t))
    BY <1>2, FS_Subset
  <2>2. S # Below(S, R, t)
    BY <1>2
  <2>3. PICK n, b \in Nat : n = Cardinality(S) /\ b = Cardinality(Below(S, R, t))
    BY <1>1, <1>2
  <2>4. b <= n /\ b # n
    BY <2>1, <2>2, <2>3
  <2>5. b \in 0..n - 1
    BY <2>4
  <2> QED BY <2>3, <2>5
<1>4. ASSUME NEW t \in S, NEW u \in S, <<t, u>> \in R
      PROVE  Cardinality(Below(S, R, t)) # Cardinality(Below(S, R, u))
  <2>1. Below(S, R, t) \in SUBSET Below(S, R, u) /\ t \in Below(S, R, u) /\ t \notin Below(S, R, t)
    BY <1>4 DEF Below, StrictOrder
  <2>2. Cardinality(Below(S, R, u)) = Cardinality(Below(S, R, t)) => Below(S, R, u) = Below(S, R, t)
    BY <1>2, <2>1, FS_Subset
  <2> QED BY <2>1, <2>2
<1>5. ASSUME NEW t \in S, NEW u \in S, Cardinality(Below(S, R, t)) = Cardinality(Below(S, R, u))
      PROVE  t = u
  <2>1. t # u => <<t, u>> \in R \/ <<u, t>> \in R
    BY DEF StrictOrder
  <2> QED BY <1>4, <1>5, <2>1
<1>6. PICK T : T = 0..Cardinality(S) - 1
  OBVIOUS
<1>7. IsFiniteSet(T) /\ Cardinality(T) = Cardinality(S)
  <2>1. PICK n \in Int : n = Cardinality(S) - 1
    BY <1>1
  <2>2. IsFiniteSet(0..n) /\ Cardinality(0..n) = IF 0 > n THEN 0 ELSE n - 0 + 1
    BY FS_Interval
  <2> QED BY <1>1, <1>6, <2>1, <2>2
<1>8. PICK f : f = [t \in S |-> Cardinality(Below(S, R, t))]
  OBVIOUS
<1>9. f \in Injection(S, T)
  <2>1. \A t \in S : f[t] = Cardinality(Below(S, R, t))
    BY <1>8
  <2>2. \A t \in S : f[t] \in T
    BY <1>3, <1>6, <2>1
  <2>3. f \in [S -> T]
    BY <1>8, <2>2
  <2>4. \A t, u \in S : f[t] = f[u] => t = u
    BY <1>5, <2>1
  <2> QED BY <2>3, <2>4 DEF Injection, IsInjective
<1>10. f \in Surjection(S, T)
  BY <1>7, <1>9, FS_Injection
<1>11. \A k \in T : \E t \in S : f[t] = k
  BY <1>10 DEF Surjection
<1>12. \A k \in T : \E t \in S : Cardinality(Below(S, R, t)) = k
  BY <1>8, <1>11
<1> QED BY <1>1, <1>3, <1>5, <1>6, <1>12

\* The rows in their order, each once.
LEMMA SortedIs ==
  ASSUME NEW list \in Lists, NEW S \in SUBSET Tasks, \A t \in S : list[t] # None
  PROVE  /\ Cardinality(S) \in Nat /\ Sorted(list, S) \in [1..Cardinality(S) -> S]
         /\ \A k, l \in 1..Cardinality(S) : Sorted(list, S)[k] = Sorted(list, S)[l] => k = l
         /\ \A t \in S : \E k \in 1..Cardinality(S) : Sorted(list, S)[k] = t
<1>1. IsFiniteSet(S)
  BY FS_Subset, TaskListAssumption DEF TaskListAssumption
<1>2. PICK R : R = {p \in S \X S : Before(list, p[1], p[2])}
  OBVIOUS
<1>3. \A t \in S : list[t].order \in Nat /\ t \in Nat
  BY TaskListAssumption DEF TaskListAssumption, Lists, ListRow
<1>4. \A t, u \in S : <<t, u>> \in R <=> Before(list, t, u)
  BY <1>2
<1>5. StrictOrder(S, R)
  BY <1>3, <1>4 DEF Before, StrictOrder
<1>6. \A t \in S : Below(S, R, t) = {u \in S : Before(list, u, t)}
  BY <1>4 DEF Below
<1>7. /\ Cardinality(S) \in Nat
      /\ \A t \in S : Cardinality(Below(S, R, t)) \in 0..Cardinality(S) - 1
      /\ \A t, u \in S : Cardinality(Below(S, R, t)) = Cardinality(Below(S, R, u)) => t = u
      /\ \A k \in 0..Cardinality(S) - 1 : \E t \in S : Cardinality(Below(S, R, t)) = k
  BY <1>1, <1>5, Ranked
<1>8. PICK n \in Nat : n = Cardinality(S)
  BY <1>7
<1>9. PICK s : s = Sorted(list, S)
  OBVIOUS
<1>10. s = [k \in 1..n |-> s[k]]
  <2>1. Sorted(list, S) = [k \in 1..Cardinality(S) |-> Sorted(list, S)[k]]
    BY SMT DEF Sorted
  <2> QED BY <1>8, <1>9, <2>1
<1>11. ASSUME NEW k \in 1..n
       PROVE  s[k] = CHOOSE t \in S : Cardinality(Below(S, R, t)) = k - 1
  <2>1. s[k] = CHOOSE t \in S : Cardinality({u \in S : Before(list, u, t)}) = k - 1
    BY <1>8, <1>9 DEF Sorted
  <2>2. \A t \in S : Cardinality({u \in S : Before(list, u, t)}) = k - 1 <=> Cardinality(Below(S, R, t)) = k - 1
    BY <1>6
  <2>3. (CHOOSE t \in S : Cardinality({u \in S : Before(list, u, t)}) = k - 1) = CHOOSE t \in S : Cardinality(Below(S, R, t)) = k - 1
    BY <2>2
  <2> QED BY <2>1, <2>3
<1>12. ASSUME NEW k \in 1..n
      PROVE  s[k] \in S /\ Cardinality(Below(S, R, s[k])) = k - 1
  <2>1. \E t \in S : Cardinality(Below(S, R, t)) = k - 1
    <3>1. k - 1 \in 0..Cardinality(S) - 1
      BY <1>8
    <3> QED BY <1>7, <3>1
  <2>2. s[k] = CHOOSE t \in S : Cardinality(Below(S, R, t)) = k - 1
    BY <1>11
  <2> QED BY <2>1, <2>2
<1>13. s \in [1..n -> S]
  BY <1>12, <1>10
<1>14. ASSUME NEW k \in 1..n, NEW l \in 1..n, s[k] = s[l]
       PROVE  k = l
  <2>1. k - 1 = l - 1
    BY <1>12, <1>14
  <2> QED BY <2>1
<1>15. ASSUME NEW t \in S
       PROVE  \E k \in 1..n : s[k] = t
  <2>1. PICK k \in 0..n - 1 : k = Cardinality(Below(S, R, t))
    BY <1>7, <1>8
  <2>2. k + 1 \in 1..n /\ (k + 1) - 1 = k
    BY <2>1, <1>8
  <2>3. s[k + 1] \in S /\ Cardinality(Below(S, R, s[k + 1])) = Cardinality(Below(S, R, t))
    BY <1>12, <2>1, <2>2
  <2>4. s[k + 1] = t
    BY <1>7, <2>3
  <2> QED BY <2>2, <2>4
<1> QED BY <1>7, <1>8, <1>13, <1>14, <1>15, <1>9

LEMMA Topmost ==
  ASSUME NEW S, IsFiniteSet(S), S # {}, NEW R, StrictOrder(S, R)
  PROVE  \E n \in S : \A k \in S : k = n \/ <<k, n>> \in R
<1>1. /\ Cardinality(S) \in Nat
      /\ \A k \in 0..Cardinality(S) - 1 : \E t \in S : Cardinality(Below(S, R, t)) = k
  BY Ranked
<1>2. Cardinality(S) > 0
  BY <1>1, FS_EmptySet
<1>3. PICK n \in S : Cardinality(Below(S, R, n)) = Cardinality(S) - 1
  <2>1. Cardinality(S) - 1 \in 0..Cardinality(S) - 1
    BY <1>1, <1>2
  <2> QED BY <1>1, <2>1
<1>4. IsFiniteSet(S \ {n}) /\ Cardinality(S \ {n}) = Cardinality(S) - 1
  BY FS_RemoveElement
<1>5. Below(S, R, n) \in SUBSET (S \ {n})
  BY DEF Below, StrictOrder
<1>6. S \ {n} = Below(S, R, n)
  BY <1>3, <1>4, <1>5, FS_Subset
<1> QED BY <1>6 DEF Below

\* A finite set of numbers has a greatest.
LEMMA Greatest ==
  ASSUME NEW S, IsFiniteSet(S), S # {}, \A n \in S : n \in Nat
  PROVE  \E n \in S : \A k \in S : k <= n
<1>1. PICK R : R = {p \in S \X S : p[1] < p[2]}
  OBVIOUS
<1>2. \A t, u \in S : <<t, u>> \in R <=> t < u
  BY <1>1
<1>3. StrictOrder(S, R)
  BY <1>2 DEF StrictOrder
<1>4. \E n \in S : \A k \in S : k = n \/ <<k, n>> \in R
  <2> HIDE DEF StrictOrder
  <2> QED BY <1>3, Topmost
<1>5. PICK n \in S : \A k \in S : k = n \/ <<k, n>> \in R
  BY <1>4
<1>6. ASSUME NEW k \in S
      PROVE  k <= n
  <2>1. k \in Nat /\ n \in Nat
    OBVIOUS
  <2>2. k = n \/ k < n
    BY <1>2, <1>5
  <2> QED BY <2>1, <2>2
<1> QED BY <1>6

LEMMA LastIs ==
  ASSUME ListTyped
  PROVE  Last \in Nat
<1>1. PICK S : S = {t \in Tasks : stored[t] # None}
  OBVIOUS
<1>2. IsFiniteSet(S)
  BY <1>1, FS_Subset, TaskListAssumption DEF TaskListAssumption
<1>3. PICK f : f = [t \in S |-> stored[t].order]
  OBVIOUS
<1>4. UsedOrders = {stored[t].order : t \in S}
  BY <1>1 DEF UsedOrders
<1>5. f \in Surjection(S, UsedOrders)
  <2>1. \A n \in UsedOrders : \E t \in S : f[t] = n
    BY <1>3, <1>4
  <2>2. f \in [S -> UsedOrders]
    BY <1>3, <1>4
  <2> QED BY <2>1, <2>2 DEF Surjection
<1>6. IsFiniteSet(UsedOrders)
  BY <1>2, <1>5, FS_Surjection
<1>7. UsedOrders \cup {0} \in SUBSET Nat
  <2>1. \A t \in S : stored[t] \in ListRow
    BY <1>1 DEF ListTyped, Lists
  <2>2. \A t \in S : stored[t].order \in Nat
    BY <2>1 DEF ListRow
  <2> QED BY <1>4, <2>2
<1>8. IsFiniteSet(UsedOrders \cup {0})
  BY <1>6, FS_AddElement
<1>9. \E n \in UsedOrders \cup {0} : \A k \in UsedOrders \cup {0} : k <= n
  BY <1>7, <1>8, Greatest
<1>10. \E n \in UsedOrders \cup {0} : \A k \in UsedOrders : k <= n
  BY <1>9
<1> QED BY <1>7, <1>10 DEF Last

-----------------------------------------------------------------------------
(* The rows shown, and those the service has *)

\* An answer holds rows as the service has them, and all of them when they are few.
LEMMA AnswerIs ==
  ASSUME ListTyped
  PROVE  /\ Answer \in Lists
         /\ \A t \in Tasks : Answer[t] = None \/ Answer[t] = stored[t]
         /\ Few => \A t \in ListedIn(stored) : Answer[t] # None
<1>1. stored \in Lists
  BY DEF ListTyped
<1>2. /\ Answer \in Lists
      /\ \A t \in Tasks : Answer[t] = None \/ Answer[t] = stored[t]
  BY <1>1 DEF Answer, Lists
<1>3. ASSUME Few, NEW t \in ListedIn(stored)
      PROVE  Answer[t] # None
  <2>1. PICK S : S = {u \in Tasks : stored[u] # None}
    OBVIOUS
  <2>2. PICK P : P = {u \in ListedIn(stored) : Before(stored, u, t)}
    OBVIOUS
  <2>3. t \in S /\ t \in Tasks /\ stored[t] # None /\ stored[t] \in ListRow /\ t \in Nat
    BY <1>1, <2>1, TaskListAssumption DEF ListedIn, Lists, TaskListAssumption
  <2>4. P \in SUBSET (S \ {t})
    <3>1. ~Before(stored, t, t)
      BY <2>3 DEF Before, ListRow
    <3>2. P \in SUBSET S
      BY <2>1, <2>2 DEF ListedIn
    <3> QED BY <2>2, <3>1, <3>2
  <2>5. IsFiniteSet(S)
    BY <2>1, FS_Subset, TaskListAssumption DEF TaskListAssumption
  <2>6. IsFiniteSet(S \ {t}) /\ Cardinality(S \ {t}) = Cardinality(S) - 1
    BY <2>3, <2>5, FS_RemoveElement
  <2>7. IsFiniteSet(P) /\ Cardinality(P) <= Cardinality(S \ {t})
    BY <2>4, <2>6, FS_Subset
  <2>8. Cardinality(P) \in Nat /\ Cardinality(S) \in Nat
    BY <2>5, <2>7, FS_CardinalityType
  <2>9. Cardinality(S) <= PageLimit /\ PageLimit \in Nat
    BY <1>3, <2>1, TaskListAssumption DEF Few, TaskListAssumption
  <2>10. Cardinality(P) < PageLimit
    <3>1. PICK p, s, m \in Nat : p = Cardinality(P) /\ s = Cardinality(S) /\ m = PageLimit
      BY <2>8, <2>9
    <3>2. p <= s - 1 /\ s <= m
      BY <2>6, <2>7, <2>9, <3>1
    <3>3. p < m
      BY <3>2
    <3> QED BY <3>1, <3>3
  <2>11. Answer[t] = stored[t]
    BY <2>2, <2>3, <2>10 DEF Answer
  <2> QED BY <2>3, <2>11
<1> QED BY <1>2, <1>3

LEMMA NoneIsNoRow == None \notin ListRow
BY TaskListAssumption DEF TaskListAssumption

\* What a step that leaves the rows alone keeps.
LEMMA SameRows ==
  ASSUME stored' = stored
  PROVE  Answer' = Answer /\ Few' = Few /\ ListedIn(stored)' = ListedIn(stored)
BY DEF Answer, Few, ListedIn, Before

\* A page that is in step with the service with no call under way.
LEMMA AtRest ==
  ASSUME Synced, calls = {}
  PROVE  Reordering
BY DEF Synced, Reordering, Matches

LEMMA AtRestAfter ==
  ASSUME Synced', calls' = {}
  PROVE  Settles'
BY DEF Synced, Reordering, Matches, Settles, Complete, ListedIn, Few

\* With no call under way and nothing overlapped, the page is in step.
LEMMA RestedShows ==
  ASSUME Settles, ~stale, calls = {}
  PROVE  Synced
BY DEF Settles, Reordering, Synced, Matches

\* While the query is under way there is one call, which waits for it.
LEMMA OneWaits ==
  ASSUME ListTyped, FetchOK, Settles, ~stale, fetch # None
  PROVE  \E c \in calls : calls = {c} /\ c.at = "waiting" /\ fetch.at # "late"
<1>1. PICK c \in calls : c.at = "waiting"
  BY DEF FetchOK
<1>2. ~Reordering
  BY <1>1 DEF Reordering
<1>3. PICK d \in calls : calls = {d} /\ OnItsWay(d)
  BY <1>2 DEF Settles
<1>4. d = c
  BY <1>1, <1>3
<1> QED BY <1>1, <1>3, <1>4 DEF OnItsWay

\* Calls that are there before and after are as they were.
LEMMA FetchServedKeeps ==
  ASSUME ListInv, FetchServed
  PROVE  ListInv'
<1>1. /\ fetch # None /\ fetch.at = "sent" /\ UNCHANGED <<stored, tasks, cached, calls, editing, stale>>
      /\ fetch' = [at |-> IF {c \in calls : c.at = "sent"} = {} THEN "done" ELSE "late", doc |-> Answer]
  BY DEF FetchServed, typed
<1>2. Answer' = Answer
  BY <1>1, SameRows
<1>3. ListTyped'
  BY <1>1 DEF ListInv, ListTyped, ListCallOK
<1>4. Answer \in Lists
  BY AnswerIs DEF ListInv
<1>5. DOMAIN fetch' = {"at", "doc"} /\ fetch'.at \in {"done", "late"} /\ fetch'.doc = Answer'
  BY <1>1, <1>2
<1>6. \E c \in calls' : c.at = "waiting"
  BY <1>1 DEF ListInv, FetchOK
<1>7. FetchOK'
  BY <1>2, <1>4, <1>5, <1>6 DEF FetchOK
<1>8. ASSUME ~stale'
      PROVE  \E c \in calls' : calls' = {c} /\ OnItsWay(c)'
  <2>1. PICK c \in calls : calls = {c} /\ c.at = "waiting"
    BY <1>1, <1>8, OneWaits DEF ListInv
  <2>2. {d \in calls : d.at = "sent"} = {}
    BY <2>1
  <2>3. fetch'.at # "late"
    BY <1>1, <2>2
  <2> QED BY <1>1, <2>1, <2>3 DEF OnItsWay
<1>9. Settles'
  BY <1>8 DEF Settles
<1> QED BY <1>3, <1>7, <1>9 DEF ListInv

LEMMA FetchEndsKeeps ==
  ASSUME ListInv, FetchEnds
  PROVE  ListInv'
<1>1. /\ fetch # None /\ fetch.at # "sent" /\ fetch' = None /\ calls' = InFlight
      /\ tasks' = fetch.doc /\ cached' = fetch.doc /\ UNCHANGED <<stored, editing>>
      /\ stale' = (stale /\ (InFlight # {} \/ fetch.at = "late"))
  BY DEF FetchEnds, GoOn, typed
<1>2. fetch.doc \in Lists /\ (fetch.at = "done" => fetch.doc = Answer) /\ fetch.at \in {"sent", "done", "late"}
  BY <1>1 DEF ListInv, FetchOK
<1>3. ListTyped'
  BY <1>1, <1>2 DEF ListInv, ListTyped, InFlight, ListCallOK
<1>4. FetchOK'
  BY <1>1 DEF FetchOK
<1>5. ASSUME ~stale'
      PROVE  fetch.at = "done" /\ calls' = {}
  <2>1. CASE stale
    BY <1>1, <1>2, <1>5, <2>1
  <2>2. CASE ~stale
    <3>1. PICK c \in calls : calls = {c} /\ c.at = "waiting" /\ fetch.at # "late"
      BY <1>1, <2>2, OneWaits DEF ListInv
    <3>2. InFlight = {}
      BY <3>1 DEF InFlight
    <3> QED BY <1>1, <1>2, <3>1, <3>2
  <2> QED BY <2>1, <2>2
<1>6. ASSUME ~stale'
      PROVE  Synced'
  <2>1. tasks' = Answer
    BY <1>1, <1>2, <1>5, <1>6
  <2>2. stored' = stored /\ Few' = Few /\ ListedIn(stored)' = ListedIn(stored)
    BY <1>1, SameRows
  <2>3. \A t \in Tasks : tasks'[t] = None \/ tasks'[t] = stored'[t]
    BY <2>1, <2>2, AnswerIs DEF ListInv
  <2>4. Few' => \A t \in ListedIn(stored)' : tasks'[t] # None
    BY <2>1, <2>2, AnswerIs DEF ListInv
  <2> QED BY <2>3, <2>4 DEF Synced, Matches, Complete
<1>7. Settles'
  BY <1>5, <1>6, AtRestAfter DEF Settles
<1> QED BY <1>3, <1>4, <1>7 DEF ListInv

LEMMA FetchFailsKeeps ==
  ASSUME ListInv, FetchFails
  PROVE  ListInv'
<1>1. /\ fetch' = None /\ calls' = InFlight /\ tasks' = (IF cached = None THEN tasks ELSE cached)
      /\ stale' = TRUE /\ UNCHANGED <<stored, cached, editing>>
  BY DEF FetchFails, GoOn, typed
<1>2. ListTyped'
  BY <1>1 DEF ListInv, ListTyped, InFlight, ListCallOK
<1> QED BY <1>1, <1>2 DEF ListInv, FetchOK, Settles

-----------------------------------------------------------------------------
(* Gestures that send nothing, and the handlers that send one call *)

\* What a gesture may do that touches neither the rows nor the calls.
Rests ==
  /\ UNCHANGED <<stored, tasks, cached, fetch, calls, stale>>
  /\ editing' # None => DOMAIN editing' = {"task", "text"} /\ editing'.task \in Tasks /\ editing'.text \in {"", "old", "new"}

LEMMA RestsKeeps ==
  ASSUME ListInv, Rests
  PROVE  ListInv'
<1>1. UNCHANGED <<stored, tasks, cached, fetch, calls, stale>>
  BY DEF Rests
<1>2. ListTyped'
  BY DEF Rests, ListInv, ListTyped, ListCallOK
<1>3. FetchOK'
  BY <1>1, SameRows DEF ListInv, FetchOK
<1>4. Reordering' = Reordering
  BY <1>1 DEF Reordering, Owes, Complete, Few, ListedIn
<1>5. \A c \in calls : OnItsWay(c)' = OnItsWay(c)
  BY <1>1 DEF OnItsWay, Synced, ShowsAfter, Matches, Complete, Few, ListedIn
<1>6. Settles'
  BY <1>1, <1>4, <1>5 DEF ListInv, Settles
<1> QED BY <1>2, <1>3, <1>6 DEF ListInv

\* A row that is offered is one the page shows.
LEMMA OfferedIsShown ==
  ASSUME ListTyped, NEW t, OffersRow(t) \/ OffersRestore(t) \/ OffersLive(t)
  PROVE  t \in Tasks /\ tasks[t] \in ListRow /\ t \in ListedIn(tasks)
BY DEF OffersRow, OffersRestore, OffersLive, visibleTasks, visibleCompletedTasks, OpenIn, ListedIn, ListTyped, Lists

LEMMA QuietGestures ==
  ASSUME ListInv,
         \/ onMainInput \/ cancelInlineEdit \/ openSearchModal \/ closeSearchModal \/ closeDetailModal \/ onDragEnd
         \/ \E v \in {"inbox", "today", "upcoming"} \cup Projects : navigate(v)
         \/ \E text \in {"", "old", "new"} : typeTitle(text) \/ typeSearch(text)
         \/ \E t \in Tasks : beginInlineEdit(t) \/ openDetailModal(t) \/ onDragStart(t) \/ onDragOver(t)
  PROVE  Rests
<1> USE DEF loads, typed, modes
<1>1. ListTyped
  BY DEF ListInv
<1>2. CASE onMainInput \/ openSearchModal \/ closeSearchModal \/ closeDetailModal \/ onDragEnd
  BY <1>1, <1>2 DEF ListTyped, Rests, onMainInput, openSearchModal, closeSearchModal, closeDetailModal, onDragEnd
<1>3. CASE cancelInlineEdit
  BY <1>3 DEF Rests, cancelInlineEdit
<1>4. ASSUME NEW v \in {"inbox", "today", "upcoming"} \cup Projects, navigate(v)
      PROVE  Rests
  BY <1>1, <1>4 DEF ListTyped, Rests, navigate
<1>5. ASSUME NEW text \in {"", "old", "new"}, typeTitle(text)
      PROVE  Rests
  <2>1. /\ editing # None /\ editing' = [editing EXCEPT !.text = text]
        /\ UNCHANGED <<stored, tasks, cached, fetch, calls, stale>>
    BY <1>5 DEF typeTitle
  <2>2. DOMAIN editing = {"task", "text"} /\ editing.task \in Tasks
    BY <1>1, <2>1 DEF ListTyped
  <2>3. DOMAIN editing' = {"task", "text"} /\ editing'.task = editing.task /\ editing'.text = text
    BY <2>1, <2>2
  <2> QED BY <2>1, <2>2, <2>3 DEF Rests
<1>6. ASSUME NEW text \in {"", "old", "new"}, typeSearch(text)
      PROVE  Rests
  BY <1>1, <1>6 DEF ListTyped, Rests, typeSearch
<1>7. ASSUME NEW t \in Tasks, beginInlineEdit(t)
      PROVE  Rests
  <2>1. OffersRow(t) /\ editing' = [task |-> t, text |-> tasks[t].title] /\ UNCHANGED <<stored, tasks, cached, fetch, calls, stale>>
    BY <1>7 DEF beginInlineEdit
  <2>2. tasks[t].title \in {"old", "new"}
    BY <1>1, <2>1, OfferedIsShown DEF ListRow
  <2> QED BY <2>1, <2>2 DEF Rests
<1>8. ASSUME NEW t \in Tasks, openDetailModal(t) \/ onDragStart(t) \/ onDragOver(t)
      PROVE  Rests
  BY <1>1, <1>8 DEF ListTyped, Rests, openDetailModal, onDragStart, onDragOver
<1> QED BY <1>2, <1>3, <1>4, <1>5, <1>6, <1>7, <1>8

\* The calls the handlers send.
Sendable(c) ==
  /\ DOMAIN c = {"op", "task", "value", "at", "doc"} /\ c.at = "sent"
  /\ c.op \in {"add", "close", "reopen", "remove", "title", "activate"}
  /\ ListCallOK(c)

LEMMA SendsKeeps ==
  ASSUME ListInv, NEW c, Sendable(c), Sends(c), editing' = editing
  PROVE  ListInv'
<1>1. /\ calls' = calls \cup {c} /\ stale' = (stale \/ calls # {})
      /\ UNCHANGED <<stored, tasks, cached, fetch, editing>>
  BY DEF Sends, loads
<1>2. c.at = "sent" /\ c.op \notin {"order", "leftover"} /\ ListCallOK(c)
  BY DEF Sendable
<1>3. ListTyped'
  BY <1>1, <1>2 DEF ListInv, ListTyped, ListCallOK
<1>4. FetchOK'
  BY <1>1, SameRows DEF ListInv, FetchOK
<1>5. ASSUME ~stale'
      PROVE  calls' = {c} /\ OnItsWay(c)'
  <2>1. Synced /\ calls = {}
    BY <1>1, <1>5, RestedShows DEF ListInv
  <2>2. Synced'
    BY <1>1, <2>1 DEF Synced, Matches, Complete, Few, ListedIn
  <2> QED BY <1>1, <1>2, <2>1, <2>2 DEF OnItsWay
<1>6. Settles'
  BY <1>5 DEF Settles
<1> QED BY <1>3, <1>4, <1>6 DEF ListInv

LEMMA HandlersSend ==
  ASSUME ListInv,
         addTask \/ saveInlineEdit \/ \E t \in Tasks : completeTask(t) \/ reopenTask(t) \/ removeTask(t) \/ makeRowTaskLive(t)
  PROVE  \E c : Sendable(c) /\ Sends(c) /\ editing' = editing
<1> USE DEF typed, modes
<1>1. ListTyped
  BY DEF ListInv
<1>2. ASSUME addTask
      PROVE  \E c : Sendable(c) /\ Sends(c) /\ editing' = editing
  <2>1. PICK p : p = IF view \in Projects THEN view ELSE "inbox"
    OBVIOUS
  <2>2. PICK c : c = Call("add", None, p)
    OBVIOUS
  <2>3. Sendable(c)
    BY <2>1, <2>2 DEF Sendable, ListCallOK, Call
  <2>4. Sends(c) /\ editing' = editing
    BY <1>2, <2>1, <2>2 DEF addTask
  <2> QED BY <2>3, <2>4
<1>3. ASSUME saveInlineEdit
      PROVE  \E c : Sendable(c) /\ Sends(c) /\ editing' = editing
  <2>1. editing # None /\ editing.text # "" /\ Sends(Call("title", editing.task, editing.text)) /\ editing' = editing
    BY <1>3 DEF saveInlineEdit
  <2>2. editing.task \in Tasks /\ editing.text \in {"old", "new"}
    BY <1>1, <2>1 DEF ListTyped
  <2>3. PICK c : c = Call("title", editing.task, editing.text)
    OBVIOUS
  <2>4. Sendable(c)
    BY <2>2, <2>3 DEF Sendable, ListCallOK, Call
  <2> QED BY <2>1, <2>3, <2>4
<1>4. ASSUME NEW t \in Tasks, completeTask(t) \/ reopenTask(t) \/ removeTask(t) \/ makeRowTaskLive(t)
      PROVE  \E c : Sendable(c) /\ Sends(c) /\ editing' = editing
  <2>1. PICK op \in {"close", "reopen", "remove", "activate"} : Sends(Call(op, t, None)) /\ editing' = editing
    BY <1>4 DEF completeTask, reopenTask, removeTask, makeRowTaskLive
  <2>2. PICK c : c = Call(op, t, None)
    OBVIOUS
  <2>3. Sendable(c)
    BY <2>1, <2>2 DEF Sendable, ListCallOK, Call
  <2> QED BY <2>1, <2>2, <2>3
<1> QED BY <1>2, <1>3, <1>4

-----------------------------------------------------------------------------
(* Reordering *)

\* A sequence of n members of S, none of them twice.
Once(s, n, S) ==
  /\ n \in Nat /\ s \in [1..n -> S]
  /\ \A k, l \in 1..n : s[k] = s[l] => k = l

\* Taking a row out and putting it in elsewhere keeps every row once.
LEMMA MovedIs ==
  ASSUME NEW n, NEW S, NEW s, Once(s, n, S), NEW i \in 1..n, NEW j \in 1..n
  PROVE  Once(MovedTo(s, i, j), n, S)
<1>1. n \in Nat /\ s \in [1..n -> S] /\ \A k, l \in 1..n : s[k] = s[l] => k = l
  BY DEF Once
<1>2. PICK p : p = [k \in 1..n |-> IF k = j THEN i ELSE IF i <= k /\ k < j THEN k + 1 ELSE IF j < k /\ k <= i THEN k - 1 ELSE k]
  OBVIOUS
<1>3. ASSUME NEW k \in 1..n
      PROVE  p[k] \in 1..n /\ p[k] = IF k = j THEN i ELSE IF i <= k /\ k < j THEN k + 1 ELSE IF j < k /\ k <= i THEN k - 1 ELSE k
  <2>1. p[k] = IF k = j THEN i ELSE IF i <= k /\ k < j THEN k + 1 ELSE IF j < k /\ k <= i THEN k - 1 ELSE k
    BY <1>2
  <2> QED BY <1>1, <2>1
<1>4. ASSUME NEW k \in 1..n
      PROVE  MovedTo(s, i, j)[k] = s[p[k]]
  BY <1>1, <1>3 DEF MovedTo
<1>5. MovedTo(s, i, j) = [k \in 1..n |-> MovedTo(s, i, j)[k]]
  BY <1>1 DEF MovedTo
<1>6. \A k \in 1..n : MovedTo(s, i, j)[k] \in S
  BY <1>1, <1>3, <1>4
<1>7. \A k, l \in 1..n : p[k] = p[l] => k = l
  BY <1>1, <1>3
<1>8. ASSUME NEW k \in 1..n, NEW l \in 1..n, MovedTo(s, i, j)[k] = MovedTo(s, i, j)[l]
      PROVE  k = l
  <2>1. s[p[k]] = s[p[l]]
    BY <1>4, <1>8
  <2>2. p[k] = p[l]
    BY <1>1, <1>3, <2>1
  <2> QED BY <1>7, <2>2
<1>9. MovedTo(s, i, j) \in [1..n -> S]
  BY <1>5, <1>6
<1> QED BY <1>1, <1>8, <1>9 DEF Once

\* The places a drag gives: each row its own, and the page shows them.
NewPlaces(new, n) ==
  /\ Once(new, n, OpenIn(tasks))
  /\ tasks' = [v \in Tasks |-> IF \E k \in 1..n : new[k] = v THEN [tasks[v] EXCEPT !.order = CHOOSE k \in 1..n : new[k] = v] ELSE tasks[v]]
  /\ calls' = calls \cup {[Call("order", new[k], k) EXCEPT !.doc = new] : k \in 1..n}
  /\ stale' = (stale \/ calls # {})

LEMMA ReorderingPlaces ==
  ASSUME ListTyped, NEW t, NEW u, reorderTasks(t, u)
  PROVE  UNCHANGED <<tasks, calls, stale>> \/ \E new, n : NewPlaces(new, n)
<1>1. SUFFICES ASSUME ~(t = u \/ {t, u} \cap OpenIn(tasks) # {t, u})
               PROVE  \E new, n : NewPlaces(new, n)
  BY DEF reorderTasks
<1>2. PICK open : open = OpenIn(tasks)
  OBVIOUS
<1>3. PICK s : s = Sorted(tasks, open)
  OBVIOUS
<1>4. t \in open /\ u \in open
  BY <1>1, <1>2
<1>5. open \in SUBSET Tasks /\ (\A v \in open : tasks[v] # None) /\ tasks \in Lists
  BY <1>2 DEF OpenIn, ListedIn, ListTyped
<1>6. /\ Cardinality(open) \in Nat /\ s \in [1..Cardinality(open) -> open]
      /\ \A k, l \in 1..Cardinality(open) : s[k] = s[l] => k = l
      /\ \A v \in open : \E k \in 1..Cardinality(open) : s[k] = v
  BY <1>3, <1>5, SortedIs
<1>7. PICK n \in Nat : n = Cardinality(open)
  BY <1>6
<1>8. DOMAIN s = 1..n
  BY <1>6, <1>7
<1>9. PICK i, j : i = (CHOOSE k \in 1..n : s[k] = t) /\ j = (CHOOSE k \in 1..n : s[k] = u)
  OBVIOUS
<1>10. i \in 1..n /\ j \in 1..n
  BY <1>4, <1>6, <1>7, <1>9
<1>11. PICK new : new = NewOrder(t, u)
  OBVIOUS
<1>12. Once(s, n, open)
  BY <1>6, <1>7 DEF Once
<1>13. new = MovedTo(s, i, j)
  BY <1>2, <1>3, <1>8, <1>9, <1>11 DEF NewOrder
<1>14. Once(new, n, open)
  BY <1>10, <1>12, <1>13, MovedIs
<1>15. DOMAIN NewOrder(t, u) = 1..n
  BY <1>11, <1>14 DEF Once
<1>16. /\ tasks' = [v \in Tasks |-> IF \E k \in 1..n : NewOrder(t, u)[k] = v
                                   THEN [tasks[v] EXCEPT !.order = CHOOSE k \in 1..n : NewOrder(t, u)[k] = v] ELSE tasks[v]]
       /\ calls' = calls \cup {[Call("order", NewOrder(t, u)[k], k) EXCEPT !.doc = NewOrder(t, u)] : k \in 1..n}
       /\ stale' = (stale \/ calls # {})
  BY <1>1, <1>15 DEF reorderTasks
<1>17. NewPlaces(new, n)
  BY <1>2, <1>11, <1>14, <1>16 DEF NewPlaces
<1> QED BY <1>17

LEMMA NewPlacesCalls ==
  ASSUME NEW n, NEW new, NewPlaces(new, n), NEW c \in calls', c \notin calls
  PROVE  \E k \in 1..n : /\ DOMAIN c = {"op", "task", "value", "at", "doc"}
                         /\ c.op = "order" /\ c.task = new[k] /\ c.value = k /\ c.at = "sent" /\ c.doc = new
                         /\ c = [op |-> "order", task |-> new[k], value |-> k, at |-> "sent", doc |-> new]
<1>1. PICK k \in 1..n : c = [Call("order", new[k], k) EXCEPT !.doc = new]
  BY DEF NewPlaces
<1>2. c = [op |-> "order", task |-> new[k], value |-> k, at |-> "sent", doc |-> new]
  BY <1>1 DEF Call
<1> QED BY <1>2

LEMMA NewPlacesRows ==
  ASSUME ListTyped, NEW n, NEW new, NewPlaces(new, n)
  PROVE  /\ tasks' \in Lists
         /\ \A t \in Tasks : \/ tasks'[t] = tasks[t] /\ \A k \in 1..n : new[k] # t
                             \/ /\ tasks[t] \in ListRow /\ tasks'[t] \in ListRow
                                /\ \E k \in 1..n : new[k] = t /\ tasks'[t] = [tasks[t] EXCEPT !.order = k]
<1>1. ASSUME NEW t \in Tasks
      PROVE  /\ tasks'[t] \in ListRow \cup {None}
             /\ \/ tasks'[t] = tasks[t] /\ \A k \in 1..n : new[k] # t
                \/ /\ tasks[t] \in ListRow /\ tasks'[t] \in ListRow
                   /\ \E k \in 1..n : new[k] = t /\ tasks'[t] = [tasks[t] EXCEPT !.order = k]
  <2>1. CASE \A k \in 1..n : new[k] # t
    BY <2>1 DEF NewPlaces, ListTyped, Lists
  <2>2. CASE \E k \in 1..n : new[k] = t
    <3>1. PICK k \in 1..n : new[k] = t /\ k = CHOOSE l \in 1..n : new[l] = t
      BY <2>2
    <3>2. tasks'[t] = [tasks[t] EXCEPT !.order = k]
      BY <3>1 DEF NewPlaces
    <3>3. t \in OpenIn(tasks) /\ k \in Nat
      BY <3>1 DEF NewPlaces, Once
    <3>4. tasks[t] \in ListRow
      BY <3>3 DEF OpenIn, ListedIn, ListTyped, Lists
    <3>5. tasks'[t] \in ListRow
      BY <3>2, <3>3, <3>4 DEF ListRow
    <3> QED BY <3>1, <3>2, <3>4, <3>5
  <2> QED BY <2>1, <2>2
<1>2. tasks' = [t \in Tasks |-> tasks'[t]]
  BY DEF NewPlaces
<1>3. tasks' \in Lists
  BY <1>1, <1>2 DEF Lists
<1> QED BY <1>1, <1>3

LEMMA NewPlacesKeep ==
  ASSUME ListInv, NEW n, NEW new, NewPlaces(new, n), UNCHANGED <<stored, cached, fetch, editing>>
  PROVE  ListInv'
<1>1. ListTyped /\ n \in Nat
  BY DEF ListInv, NewPlaces, Once
<1>2. calls \in SUBSET calls' /\ stale' = (stale \/ calls # {})
  BY DEF NewPlaces
<1>3. \A k \in 1..n : new[k] \in Tasks
  BY DEF NewPlaces, Once, OpenIn, ListedIn
<1>4. ASSUME NEW c \in calls'
      PROVE  ListCallOK(c)
  <2>1. CASE c \in calls
    BY <1>1, <2>1 DEF ListTyped
  <2>2. CASE c \notin calls
    <3>1. PICK k \in 1..n : DOMAIN c = {"op", "task", "value", "at", "doc"} /\ c.op = "order" /\ c.task = new[k] /\ c.value = k /\ c.at = "sent"
      BY <2>2, NewPlacesCalls
    <3> QED BY <1>1, <1>3, <3>1 DEF ListCallOK
  <2> QED BY <2>1, <2>2
<1>5. ListTyped'
  BY <1>1, <1>4, NewPlacesRows DEF ListTyped, ListCallOK
<1>6. FetchOK'
  BY <1>2, SameRows DEF ListInv, FetchOK
<1>7. ASSUME ~stale'
      PROVE  Reordering'
  <2>1. calls = {} /\ Synced
    BY <1>2, <1>7, RestedShows DEF ListInv
  <2>2. ASSUME NEW c \in calls'
        PROVE  \E k \in 1..n : /\ c.op = "order" /\ c.task = new[k] /\ c.value = k /\ c.at = "sent" /\ c.doc = new
                               /\ c = [op |-> "order", task |-> new[k], value |-> k, at |-> "sent", doc |-> new]
    BY <2>1, NewPlacesCalls
  <2>3. \A c \in calls' : c.op = "order" /\ c.at = "sent" /\ c.doc = new
    BY <2>2
  <2>4. ASSUME NEW c \in calls', NEW d \in calls', c.task = d.task
        PROVE  c = d
    <3>1. PICK k \in 1..n : c.task = new[k] /\ c = [op |-> "order", task |-> new[k], value |-> k, at |-> "sent", doc |-> new]
      BY <2>2
    <3>2. PICK l \in 1..n : d.task = new[l] /\ d = [op |-> "order", task |-> new[l], value |-> l, at |-> "sent", doc |-> new]
      BY <2>2
    <3>3. k = l
      BY <2>4, <3>1, <3>2 DEF NewPlaces, Once
    <3> QED BY <3>1, <3>2, <3>3
  <2>5. ASSUME NEW t \in Tasks
        PROVE  \/ tasks'[t] = None
               \/ tasks'[t] = stored'[t] /\ \A c \in calls' : c.task = t => ~Owes(c)
               \/ \E c \in calls' : c.task = t /\ Owes(c) /\ stored'[t] # None /\ tasks'[t] = [stored'[t] EXCEPT !.order = c.value]
    <3>1. tasks[t] = None \/ tasks[t] = stored[t]
      BY <2>1 DEF Synced, Matches
    <3>2. CASE tasks'[t] = tasks[t] /\ \A k \in 1..n : new[k] # t
      BY <2>2, <3>1, <3>2
    <3>3. CASE tasks[t] \in ListRow /\ \E k \in 1..n : new[k] = t /\ tasks'[t] = [tasks[t] EXCEPT !.order = k]
      <4>1. PICK k \in 1..n : new[k] = t /\ tasks'[t] = [tasks[t] EXCEPT !.order = k]
        BY <3>3
      <4>2. PICK c \in calls' : c = [Call("order", new[k], k) EXCEPT !.doc = new]
        BY <4>1 DEF NewPlaces
      <4>3. c.task = t /\ c.at = "sent" /\ c.value = k
        BY <4>1, <4>2 DEF Call
      <4>4. tasks[t] = stored[t] /\ stored[t] # None
        BY <3>1, <3>3, NoneIsNoRow
      <4> QED BY <4>1, <4>3, <4>4 DEF Owes
    <3>4. \/ tasks'[t] = tasks[t] /\ \A k \in 1..n : new[k] # t
          \/ tasks[t] \in ListRow /\ \E k \in 1..n : new[k] = t /\ tasks'[t] = [tasks[t] EXCEPT !.order = k]
      BY <1>1, NewPlacesRows
    <3> QED BY <3>2, <3>3, <3>4
  <2>6. Complete'
    <3>1. \A t \in Tasks : tasks[t] # None => tasks'[t] # None
      BY <1>1, NewPlacesRows, NoneIsNoRow
    <3>2. ListedIn(stored) \in SUBSET Tasks /\ Complete
      BY <2>1 DEF Synced, ListedIn
    <3>3. Few' = Few /\ ListedIn(stored)' = ListedIn(stored)
      BY SameRows
    <3> QED BY <3>1, <3>2, <3>3 DEF Complete
  <2>7. \A c, d \in calls' : c.doc = d.doc /\ (c.task = d.task => c = d)
    BY <2>3, <2>4
  <2>8. \A c \in calls' : c.op = "order" /\ c.at # "waiting"
    BY <2>3
  <2> QED BY <2>5, <2>6, <2>7, <2>8 DEF Reordering, Owes
<1>8. Settles'
  BY <1>7 DEF Settles
<1> QED BY <1>5, <1>6, <1>8 DEF ListInv

LEMMA DragsKeep ==
  ASSUME ListInv, \E t \in Tasks : onDrop(t) \/ \E u \in Tasks : Move(t, u)
  PROVE  ListInv'
<1>1. UNCHANGED <<stored, cached, fetch, editing>> /\ \E t, u : reorderTasks(t, u)
  BY DEF onDrop, Move, loads, typed
<1>2. UNCHANGED <<tasks, calls, stale>> \/ \E new, n : NewPlaces(new, n)
  BY <1>1, ReorderingPlaces DEF ListInv
<1>3. CASE UNCHANGED <<tasks, calls, stale>>
  <2>1. Rests
    BY <1>1, <1>3 DEF Rests, ListInv, ListTyped
  <2> QED BY <2>1, RestsKeeps
<1> QED BY <1>1, <1>2, <1>3, NewPlacesKeep

-----------------------------------------------------------------------------
(* The service serves a call, or turns it down *)

\* What the service writes is a row, listed unless the call removed it.
LEMMA AppliedIs ==
  ASSUME ListTyped, NEW c \in calls, NEW t \in Tasks, c.op # "mount", c.op = "add" \/ stored[t] \in ListRow
  PROVE  /\ Applied(c, t) \in ListRow
         /\ c.op \in {"order", "leftover"} => Applied(c, t) = [stored[t] EXCEPT !.order = c.value]
         /\ c.op = "remove" => Applied(c, t).status = "deleted"
         /\ c.op \in {"title", "order", "leftover"} => Applied(c, t).status = stored[t].status
<1>1. ListCallOK(c)
  BY DEF ListTyped
<1>2. CASE c.op = "add"
  <2>1. Applied(c, t) = [status |-> "open", order |-> Last + 1, title |-> "old", project |-> c.value, due |-> "none", live |-> FALSE]
    BY <1>2 DEF Applied
  <2>2. Last + 1 \in Nat /\ c.value \in Projects \cup {"inbox"} /\ "none" \in Days
    BY <1>1, <1>2, LastIs, TaskListAssumption DEF ListCallOK, TaskListAssumption
  <2> QED BY <1>2, <2>1, <2>2 DEF ListRow
<1>3. CASE c.op # "add"
  <2>1. c.op \in {"close", "reopen", "remove", "title", "order", "leftover", "activate"} /\ stored[t] \in ListRow
    BY <1>1, <1>3 DEF ListCallOK
  <2>2. CASE c.op \in {"close", "reopen", "remove", "activate"}
    BY <2>1, <2>2 DEF Applied, ListRow
  <2>3. CASE c.op = "title"
    <3>1. c.value \in {"old", "new"}
      BY <1>1, <2>3 DEF ListCallOK
    <3> QED BY <2>1, <2>3, <3>1 DEF Applied, ListRow
  <2>4. CASE c.op \in {"order", "leftover"}
    <3>1. c.value \in Nat
      BY <1>1, <2>4 DEF ListCallOK
    <3>2. Applied(c, t) = [stored[t] EXCEPT !.order = c.value]
      BY <2>4 DEF Applied
    <3> QED BY <2>1, <2>4, <3>1, <3>2 DEF ListRow
  <2> QED BY <2>1, <2>2, <2>3, <2>4
<1> QED BY <1>2, <1>3

\* The service refuses a call, or the call is lost on its way.
TurnsDown(c, d) ==
  /\ c \in calls /\ c.at # "waiting" /\ d = [c EXCEPT !.at = "refused"]
  /\ calls' = (calls \ {c}) \cup {d}

LEMMA TurnedDown ==
  ASSUME ListInv, NEW c, NEW d, TurnsDown(c, d)
  PROVE  /\ c.op # "mount" /\ ListCallOK(c) /\ ListCallOK(d)
         /\ d.op = c.op /\ d.task = c.task /\ d.value = c.value /\ d.doc = c.doc /\ d.at = "refused"
         /\ \A e \in calls : e.at = "waiting" => e \in calls'
BY DEF TurnsDown, ListInv, ListTyped, ListCallOK

LEMMA TurnsDownKeeps ==
  ASSUME ListInv, NEW c, NEW d, TurnsDown(c, d), UNCHANGED <<stored, tasks, cached, editing>>,
         fetch' = fetch \/ fetch' = Overtaken(fetch), ~stale' => c.at = "sent" /\ ~stale
  PROVE  ListInv'
<1>1. /\ c \in calls /\ calls' = (calls \ {c}) \cup {d}
      /\ d.op = c.op /\ d.task = c.task /\ d.value = c.value /\ d.doc = c.doc /\ d.at = "refused" /\ ListCallOK(d)
      /\ \A e \in calls : e.at = "waiting" => e \in calls'
  BY TurnedDown DEF TurnsDown
<1>2. ListTyped'
  BY <1>1 DEF ListInv, ListTyped, ListCallOK
<1>3. FetchOK'
  <2>1. Answer' = Answer
    BY SameRows
  <2>2. FetchOK
    BY DEF ListInv
  <2>3. CASE fetch' = fetch
    BY <1>1, <2>1, <2>2, <2>3 DEF FetchOK
  <2>4. CASE fetch' = Overtaken(fetch)
    BY <1>1, <2>1, <2>2, <2>4 DEF FetchOK, Overtaken
  <2> QED BY <2>3, <2>4
<1>4. ASSUME ~stale'
      PROVE  Reordering' \/ \E e \in calls' : calls' = {e} /\ OnItsWay(e)'
  <2>1. c.at = "sent" /\ ~stale
    BY <1>4
  <2>2. Complete' = Complete /\ Synced' = Synced
    BY DEF Complete, Synced, Matches, Few, ListedIn
  <2>3. CASE Reordering
    <3>1. \A e \in calls' : e.op = "order" /\ e.at # "waiting"
      BY <1>1, <2>3 DEF Reordering
    <3>2. \A e, g \in calls' : e.doc = g.doc /\ (e.task = g.task => e = g)
      BY <1>1, <2>3 DEF Reordering
    <3>3. ASSUME NEW t \in Tasks
          PROVE  \/ tasks'[t] = None
                 \/ tasks'[t] = stored'[t] /\ \A e \in calls' : e.task = t => ~Owes(e)
                 \/ \E e \in calls' : e.task = t /\ Owes(e) /\ stored'[t] # None /\ tasks'[t] = [stored'[t] EXCEPT !.order = e.value]
      <4>1. \/ tasks[t] = None
            \/ tasks[t] = stored[t] /\ \A e \in calls : e.task = t => ~Owes(e)
            \/ \E e \in calls : e.task = t /\ Owes(e) /\ stored[t] # None /\ tasks[t] = [stored[t] EXCEPT !.order = e.value]
        BY <2>3 DEF Reordering
      <4>2. Owes(c) /\ Owes(d)
        BY <1>1, <2>1 DEF Owes
      <4>3. CASE tasks[t] = stored[t] /\ \A e \in calls : e.task = t => ~Owes(e)
        BY <1>1, <4>2, <4>3
      <4>4. ASSUME NEW e \in calls, e.task = t, Owes(e), stored[t] # None, tasks[t] = [stored[t] EXCEPT !.order = e.value]
            PROVE  \E g \in calls' : g.task = t /\ Owes(g) /\ stored'[t] # None /\ tasks'[t] = [stored'[t] EXCEPT !.order = g.value]
        <5>1. CASE e = c
          BY <1>1, <4>2, <4>4, <5>1
        <5>2. CASE e # c
          BY <1>1, <4>4, <5>2
        <5> QED BY <5>1, <5>2
      <4> QED BY <4>1, <4>3, <4>4
    <3>4. Complete'
      BY <2>2, <2>3 DEF Reordering
    <3> QED BY <3>1, <3>2, <3>3, <3>4 DEF Reordering, Owes
  <2>4. CASE \E e \in calls : calls = {e} /\ OnItsWay(e)
    <3>1. calls = {c} /\ OnItsWay(c)
      BY <1>1, <2>4
    <3>2. calls' = {d} /\ c.op \notin {"order", "leftover"} /\ Synced
      BY <1>1, <2>1, <3>1 DEF OnItsWay
    <3>3. OnItsWay(d)'
      BY <1>1, <2>2, <3>2 DEF OnItsWay
    <3> QED BY <3>2, <3>3
  <2> QED BY <2>1, <2>3, <2>4 DEF ListInv, Settles
<1>5. Settles'
  BY <1>4 DEF Settles
<1> QED BY <1>2, <1>3, <1>5 DEF ListInv

LEMMA CallLostKeeps ==
  ASSUME ListInv, NEW c \in calls, CallLost(c)
  PROVE  ListInv'
<1>1. PICK d : d = [c EXCEPT !.at = "refused"]
  OBVIOUS
<1>2. /\ c.at # "waiting" /\ c.at # "refused" /\ calls' = (calls \ {c}) \cup {d}
      /\ stale' = (stale \/ c.at = "done") /\ UNCHANGED <<stored, tasks, cached, fetch, editing>>
  BY <1>1 DEF CallLost, InFlight, loads, typed
<1>3. TurnsDown(c, d)
  BY <1>1, <1>2 DEF TurnsDown
<1>4. ~stale' => c.at = "sent" /\ ~stale
  BY <1>2 DEF ListInv, ListTyped, ListCallOK
<1> QED BY <1>2, <1>3, <1>4, TurnsDownKeeps

\* The service does what a call asks for.
Does(c, t, d) ==
  /\ c \in calls /\ c.at = "sent" /\ t \in Tasks
  /\ c.op = "add" => stored[t] = None
  /\ c.op # "add" => t = c.task /\ t \in ListedIn(stored)
  /\ stored' = [stored EXCEPT ![t] = Applied(c, t)]
  /\ d = [c EXCEPT !.at = "done", !.doc = IF c.op = "title" THEN Applied(c, t) ELSE @]
  /\ calls' = (calls \ {c}) \cup {d}

LEMMA Done ==
  ASSUME ListInv, NEW c, NEW t, NEW d, Does(c, t, d)
  PROVE  /\ c.op # "mount" /\ ListCallOK(c) /\ ListCallOK(d)
         /\ d.op = c.op /\ d.task = c.task /\ d.value = c.value /\ d.at = "done"
         /\ c.op = "title" => d.doc = stored'[t]
         /\ c.op # "title" => d.doc = c.doc
         /\ \A e \in calls : e.at = "waiting" => e \in calls'
         /\ stored' \in Lists /\ stored'[t] = Applied(c, t) /\ stored'[t] \in ListRow
         /\ \A u \in Tasks \ {t} : stored'[u] = stored[u]
         /\ c.op # "add" => stored[t] \in ListRow
<1>1. c \in calls /\ c.at = "sent" /\ t \in Tasks /\ stored \in Lists /\ ListTyped
  BY DEF Does, ListInv, ListTyped
<1>2. c.op # "mount" /\ ListCallOK(c)
  BY <1>1 DEF ListTyped, ListCallOK
<1>3. c.op = "add" \/ stored[t] \in ListRow
  BY <1>1 DEF Does, ListedIn, Lists
<1>4. Applied(c, t) \in ListRow
  BY <1>1, <1>2, <1>3, AppliedIs
<1>5. stored' \in Lists /\ stored'[t] = Applied(c, t) /\ \A u \in Tasks \ {t} : stored'[u] = stored[u]
  BY <1>1, <1>4 DEF Does, Lists
<1>6. DOMAIN c = {"op", "task", "value", "at", "doc"}
  BY <1>2 DEF ListCallOK
<1>7. /\ DOMAIN d = {"op", "task", "value", "at", "doc"}
      /\ d.op = c.op /\ d.task = c.task /\ d.value = c.value /\ d.at = "done"
      /\ c.op = "title" => d.doc = Applied(c, t)
      /\ c.op # "title" => d.doc = c.doc
  BY <1>6 DEF Does
<1>8. ListCallOK(d)
  BY <1>2, <1>4, <1>7 DEF ListCallOK
<1>9. \A e \in calls : e.at = "waiting" => e \in calls'
  BY <1>1 DEF Does
<1> QED BY <1>2, <1>3, <1>4, <1>5, <1>7, <1>8, <1>9

\* A call on a row that is there leaves the rows that are listed, its own apart.
LEMMA DoneLists ==
  ASSUME ListInv, NEW c, NEW t, NEW d, Does(c, t, d), c.op # "add"
  PROVE  /\ Few' = Few
         /\ \A u \in ListedIn(stored)' : u # t => u \in ListedIn(stored)
         /\ c.op \in {"title", "order"} => ListedIn(stored)' = ListedIn(stored)
<1>1. /\ \A u \in Tasks \ {t} : stored'[u] = stored[u]
      /\ stored'[t] = Applied(c, t) /\ stored'[t] \in ListRow /\ stored[t] \in ListRow
      /\ t \in Tasks /\ c \in calls /\ c.op # "mount"
  BY Done DEF Does
<1>2. stored'[t] # None /\ stored[t] # None
  BY <1>1, NoneIsNoRow
<1>3. {u \in Tasks : stored'[u] # None} = {u \in Tasks : stored[u] # None}
  BY <1>1, <1>2
<1>4. Few' = Few
  BY <1>3 DEF Few
<1>5. \A u \in ListedIn(stored)' : u # t => u \in ListedIn(stored)
  BY <1>1 DEF ListedIn
<1>6. ASSUME c.op \in {"title", "order"}
      PROVE  ListedIn(stored)' = ListedIn(stored)
  <2>1. Applied(c, t).status = stored[t].status
    BY <1>1, <1>6, AppliedIs DEF ListInv
  <2> QED BY <1>1, <1>2, <2>1 DEF ListedIn
<1> QED BY <1>4, <1>5, <1>6

LEMMA DoesKeeps ==
  ASSUME ListInv, NEW c, NEW t, NEW d, Does(c, t, d), fetch' = Overtaken(fetch), UNCHANGED <<tasks, cached, editing, stale>>
  PROVE  ListInv'
<1>1. /\ c \in calls /\ c.at = "sent" /\ t \in Tasks /\ calls' = (calls \ {c}) \cup {d}
      /\ c.op # "add" => t = c.task /\ t \in ListedIn(stored)
  BY DEF Does
<1>2. /\ c.op # "mount" /\ ListCallOK(d)
      /\ d.op = c.op /\ d.task = c.task /\ d.value = c.value /\ d.at = "done"
      /\ c.op = "title" => d.doc = stored'[t]
      /\ c.op # "title" => d.doc = c.doc
      /\ \A e \in calls : e.at = "waiting" => e \in calls'
      /\ stored' \in Lists /\ stored'[t] = Applied(c, t) /\ stored'[t] \in ListRow
      /\ \A u \in Tasks \ {t} : stored'[u] = stored[u]
      /\ c.op # "add" => stored[t] \in ListRow
  BY Done
<1>3. ListTyped'
  BY <1>1, <1>2 DEF ListInv, ListTyped, ListCallOK
<1>4. FetchOK'
  <2>1. FetchOK
    BY DEF ListInv
  <2>2. CASE fetch = None
    BY <2>2 DEF FetchOK, Overtaken
  <2>3. CASE fetch # None
    <3>1. DOMAIN fetch = {"at", "doc"} /\ fetch.at \in {"sent", "done", "late"} /\ (fetch.at # "sent" => fetch.doc \in Lists)
      BY <2>1, <2>3 DEF FetchOK
    <3>2. \E e \in calls' : e.at = "waiting"
      BY <1>2, <2>1, <2>3 DEF FetchOK
    <3>3. /\ DOMAIN fetch' = {"at", "doc"} /\ fetch'.at \in {"sent", "late"}
          /\ fetch'.at # "sent" => fetch'.doc \in Lists
      BY <2>3, <3>1 DEF Overtaken
    <3> QED BY <3>2, <3>3 DEF FetchOK
  <2> QED BY <2>2, <2>3
<1>5. ASSUME Reordering
      PROVE  Reordering'
  <2>1. c.op = "order" /\ t = c.task
    BY <1>1, <1>5 DEF Reordering
  <2>2. stored'[t] = [stored[t] EXCEPT !.order = c.value]
    BY <1>1, <1>2, <2>1, AppliedIs DEF ListInv
  <2>3. \A e \in calls' : e.op = "order" /\ e.at # "waiting"
    BY <1>1, <1>2, <1>5 DEF Reordering
  <2>4. \A e, g \in calls' : e.doc = g.doc /\ (e.task = g.task => e = g)
    BY <1>1, <1>2, <1>5, <2>1 DEF Reordering
  <2>5. ASSUME NEW u \in Tasks
        PROVE  \/ tasks'[u] = None
               \/ tasks'[u] = stored'[u] /\ \A e \in calls' : e.task = u => ~Owes(e)
               \/ \E e \in calls' : e.task = u /\ Owes(e) /\ stored'[u] # None /\ tasks'[u] = [stored'[u] EXCEPT !.order = e.value]
    <3>1. \/ tasks[u] = None
          \/ tasks[u] = stored[u] /\ \A e \in calls : e.task = u => ~Owes(e)
          \/ \E e \in calls : e.task = u /\ Owes(e) /\ stored[u] # None /\ tasks[u] = [stored[u] EXCEPT !.order = e.value]
      BY <1>5 DEF Reordering
    <3>2. CASE u = t
      <4>1. Owes(c)
        BY <1>1 DEF Owes
      <4>2. tasks[u] = None \/ tasks[u] = [stored[u] EXCEPT !.order = c.value]
        BY <1>1, <1>5, <2>1, <3>1, <3>2, <4>1 DEF Reordering
      <4>3. \A e \in calls' : e.task = u => e = d
        BY <1>1, <1>2, <1>5, <2>1, <3>2 DEF Reordering
      <4>4. ~Owes(d)
        BY <1>2 DEF Owes
      <4> QED BY <2>2, <3>2, <4>2, <4>3, <4>4
    <3>3. CASE u # t
      <4>1. stored'[u] = stored[u] /\ tasks'[u] = tasks[u]
        BY <1>2, <3>3
      <4>2. \A e : e.task = u => (e \in calls' <=> e \in calls)
        BY <1>1, <1>2, <2>1, <3>3
      <4> QED BY <3>1, <4>1, <4>2
    <3> QED BY <3>2, <3>3
  <2>6. Complete'
    <3>1. Few' = Few /\ ListedIn(stored)' = ListedIn(stored)
      BY <2>1, DoneLists
    <3> QED BY <1>5, <3>1 DEF Reordering, Complete
  <2> QED BY <2>3, <2>4, <2>5, <2>6 DEF Reordering, Owes
<1>6. ASSUME NEW e \in calls, calls = {e}, OnItsWay(e)
      PROVE  calls' = {d} /\ OnItsWay(d)'
  <2>1. e = c /\ calls' = {d}
    BY <1>1, <1>6
  <2>2. c.op \notin {"order", "leftover"} /\ Synced
    BY <1>1, <1>6, <2>1 DEF OnItsWay
  <2>3. ASSUME c.op \in {"title", "remove"}
        PROVE  /\ \A u \in Tasks \ {c.task} : Matches(u)'
               /\ Complete'
    <3>1. t = c.task /\ c.op # "add"
      BY <1>1, <2>3
    <3>2. \A u \in Tasks \ {c.task} : Matches(u)'
      BY <1>2, <2>2, <3>1 DEF Synced, Matches
    <3>3. Few' = Few /\ \A u \in ListedIn(stored)' : u # t => u \in ListedIn(stored)
      BY <3>1, DoneLists
    <3>4. ListedIn(stored)' \in SUBSET ListedIn(stored)
      BY <1>1, <3>1, <3>3
    <3>5. Complete'
      BY <2>2, <3>3, <3>4 DEF Synced, Complete
    <3> QED BY <3>2, <3>5
  <2>4. c.op = "remove" => stored'[c.task] # None /\ stored'[c.task].status = "deleted"
    <3>1. c.op = "remove" => t = c.task /\ Applied(c, t).status = "deleted"
      BY <1>1, <1>2, AppliedIs DEF ListInv
    <3> QED BY <1>2, <3>1, NoneIsNoRow
  <2>5. ShowsAfter(d)'
    <3>1. ASSUME d.op \in {"title", "remove"}
          PROVE  /\ \A u \in Tasks \ {d.task} : Matches(u)'
                 /\ Complete'
                 /\ d.op = "title" => d.doc = stored'[d.task]
                 /\ d.op = "remove" => stored'[d.task] # None /\ stored'[d.task].status = "deleted"
      BY <1>1, <1>2, <2>3, <2>4, <3>1
    <3> QED BY <3>1 DEF ShowsAfter
  <2> QED BY <1>2, <2>1, <2>2, <2>5 DEF OnItsWay
<1>7. Settles'
  BY <1>5, <1>6 DEF ListInv, Settles
<1> QED BY <1>3, <1>4, <1>7 DEF ListInv

LEMMA ServeRowKeeps ==
  ASSUME ListInv, NEW c \in calls, NEW t \in Tasks, Serve(c, t)
  PROVE  ListInv'
<1>1. /\ c.at = "sent" /\ fetch' = Overtaken(fetch) /\ UNCHANGED <<tasks, cached, editing, stale>>
      /\ IF c.op = "add" THEN stored[t] = None ELSE t = c.task
  BY DEF Serve, typed
<1>2. CASE c.op # "add" /\ t \notin ListedIn(stored)
  <2>1. PICK d : d = [c EXCEPT !.at = "refused"]
    OBVIOUS
  <2>2. TurnsDown(c, d) /\ stored' = stored
    BY <1>1, <1>2, <2>1 DEF Serve, TurnsDown
  <2> QED BY <1>1, <2>2, TurnsDownKeeps
<1>3. CASE ~(c.op # "add" /\ t \notin ListedIn(stored))
  <2>1. PICK d : d = [c EXCEPT !.at = "done", !.doc = IF c.op = "title" THEN Applied(c, t) ELSE @]
    OBVIOUS
  <2>2. stored' = [stored EXCEPT ![t] = Applied(c, t)] /\ calls' = (calls \ {c}) \cup {d}
    BY <1>3, <2>1 DEF Serve
  <2>3. Does(c, t, d)
    BY <1>1, <1>3, <2>1, <2>2 DEF Does
  <2> QED BY <1>1, <2>3, DoesKeeps
<1> QED BY <1>2, <1>3

-----------------------------------------------------------------------------
(* The page hears of a call *)

LEMMA AnsweredKeeps ==
  ASSUME ListInv, NEW c \in calls, Answered(c)
  PROVE  ListInv'
<1>1. /\ c.at = "done" /\ tasks' = ShowSaved(c) /\ UNCHANGED <<stored, stale>>
      /\ editing' = IF c.op = "title" THEN None ELSE editing
  BY DEF Answered
<1>2. ListTyped /\ ListCallOK(c)
  BY DEF ListInv, ListTyped
<1>3. c.op \in {"add", "close", "reopen", "remove", "title", "order", "leftover", "activate"}
  BY <1>1, <1>2 DEF ListCallOK
<1>4. ASSUME NEW t \in Tasks
      PROVE  /\ t # c.task \/ tasks[t] = None \/ c.op \notin {"remove", "title"} => tasks'[t] = tasks[t]
             /\ t = c.task /\ tasks[t] # None /\ c.op = "remove" => tasks'[t] = None
             /\ t = c.task /\ tasks[t] # None /\ c.op = "title" => tasks'[t] = c.doc
  BY <1>1, <1>3 DEF ShowSaved
<1>5. c.op = "title" => c.doc \in ListRow
  BY <1>1, <1>2 DEF ListCallOK
<1>6. tasks' \in Lists
  <2>1. \A t \in Tasks : tasks'[t] \in ListRow \cup {None}
    BY <1>2, <1>3, <1>4, <1>5 DEF ListTyped, Lists
  <2>2. tasks' = [t \in Tasks |-> tasks'[t]]
    BY <1>1 DEF ShowSaved
  <2> QED BY <2>1, <2>2 DEF Lists
<1>7. CASE c.op \in {"add", "close", "reopen", "activate"}
  <2>1. PICK w : w = Waiting(c)
    OBVIOUS
  <2>2. calls' = (calls \ {c}) \cup {w} /\ fetch' = Query /\ cached' = cached
    BY <1>7, <2>1 DEF Answered, refreshData
  <2>3. /\ DOMAIN w = {"op", "task", "value", "at", "doc"}
        /\ w.op = c.op /\ w.task = c.task /\ w.value = c.value /\ w.doc = c.doc /\ w.at = "waiting"
    BY <1>2, <2>1 DEF Waiting, ListCallOK
  <2>4. ListCallOK(w)
    BY <1>2, <1>7, <2>3 DEF ListCallOK
  <2>5. ListTyped'
    BY <1>1, <1>2, <1>6, <1>7, <2>2, <2>4 DEF ListTyped, ListCallOK
  <2>6. FetchOK'
    BY <2>2, <2>3 DEF FetchOK, Query
  <2>7. ASSUME ~stale'
        PROVE  \E e \in calls' : calls' = {e} /\ OnItsWay(e)'
    <3>1. ~Reordering
      BY <1>7 DEF Reordering
    <3>2. calls = {c}
      BY <1>1, <2>7, <3>1 DEF ListInv, Settles
    <3>3. calls' = {w}
      BY <2>2, <3>2
    <3>4. fetch'.at # "late"
      BY <2>2 DEF Query
    <3> QED BY <2>3, <3>3, <3>4 DEF OnItsWay
  <2> QED BY <2>5, <2>6, <2>7 DEF ListInv, Settles
<1>8. CASE c.op \in {"remove", "title", "order", "leftover"}
  <2>1. calls' = calls \ {c} /\ cached' = cached /\ fetch' = fetch
    BY <1>8 DEF Answered, loads
  <2>2. ListTyped'
    BY <1>1, <1>2, <1>6, <2>1 DEF ListTyped, ListCallOK
  <2>3. \A e \in calls : e.at = "waiting" => e \in calls'
    BY <1>1, <2>1
  <2>4. FetchOK'
    BY <1>1, <2>1, <2>3, SameRows DEF ListInv, FetchOK
  <2>5. Few' = Few /\ ListedIn(stored)' = ListedIn(stored) /\ ListedIn(stored) \in SUBSET Tasks
    BY <1>1, SameRows DEF ListedIn
  <2>6. ASSUME Reordering
        PROVE  Reordering'
    <3>1. c.op = "order"
      BY <2>6 DEF Reordering
    <3>2. \A t \in Tasks : tasks'[t] = tasks[t]
      BY <1>4, <3>1
    <3>3. ~Owes(c)
      BY <1>1 DEF Owes
    <3>4. \A e \in calls' : e.op = "order" /\ e.at # "waiting"
      BY <2>1, <2>6 DEF Reordering
    <3>5. \A e, g \in calls' : e.doc = g.doc /\ (e.task = g.task => e = g)
      BY <2>1, <2>6 DEF Reordering
    <3>6. ASSUME NEW t \in Tasks
          PROVE  \/ tasks'[t] = None
                 \/ tasks'[t] = stored'[t] /\ \A e \in calls' : e.task = t => ~Owes(e)
                 \/ \E e \in calls' : e.task = t /\ Owes(e) /\ stored'[t] # None /\ tasks'[t] = [stored'[t] EXCEPT !.order = e.value]
      <4>1. \/ tasks[t] = None
            \/ tasks[t] = stored[t] /\ \A e \in calls : e.task = t => ~Owes(e)
            \/ \E e \in calls : e.task = t /\ Owes(e) /\ stored[t] # None /\ tasks[t] = [stored[t] EXCEPT !.order = e.value]
        BY <2>6 DEF Reordering
      <4>2. tasks'[t] = tasks[t] /\ stored'[t] = stored[t]
        BY <1>1, <3>2
      <4> QED BY <2>1, <3>3, <4>1, <4>2
    <3>7. Complete'
      BY <2>5, <2>6, <3>2 DEF Reordering, Complete
    <3> QED BY <3>4, <3>5, <3>6, <3>7 DEF Reordering, Owes
  <2>7. ASSUME NEW e \in calls, calls = {e}, OnItsWay(e)
        PROVE  Settles'
    <3>1. e = c /\ calls' = {}
      BY <2>1, <2>7
    <3>2. c.op \in {"title", "remove"} /\ ShowsAfter(c)
      BY <1>1, <1>8, <2>7, <3>1 DEF OnItsWay
    <3>3. /\ \A t \in Tasks \ {c.task} : Matches(t)
          /\ Complete
          /\ c.op = "title" => c.doc = stored[c.task]
          /\ c.op = "remove" => stored[c.task] # None /\ stored[c.task].status = "deleted"
      BY <3>2 DEF ShowsAfter
    <3>4. \A t \in Tasks : Matches(t)'
      BY <1>1, <1>4, <3>2, <3>3 DEF Matches
    <3>5. \A t \in ListedIn(stored) : tasks[t] # None => tasks'[t] # None
      <4>1. \A t \in ListedIn(stored) : t \in Tasks /\ stored[t].status # "deleted"
        BY DEF ListedIn
      <4> QED BY <1>4, <1>5, <3>2, <3>3, <4>1, NoneIsNoRow
    <3>6. Complete'
      BY <2>5, <3>3, <3>5 DEF Complete
    <3>7. Synced'
      BY <3>4, <3>6 DEF Synced
    <3> QED BY <3>1, <3>7, AtRestAfter
  <2>8. Settles'
    BY <1>1, <2>6, <2>7 DEF ListInv, Settles
  <2> QED BY <2>2, <2>4, <2>8 DEF ListInv
<1> QED BY <1>3, <1>7, <1>8

LEMMA RefusedKeeps ==
  ASSUME ListInv, NEW c \in calls, Refused(c)
  PROVE  ListInv'
<1>1. c.at = "refused" /\ UNCHANGED <<stored, tasks, editing>>
  BY DEF Refused, typed
<1>2. ListTyped /\ ListCallOK(c)
  BY DEF ListInv, ListTyped
<1>3. CASE c.op = "order"
  <2>1. PICK w : w = Waiting(c)
    OBVIOUS
  <2>2. PICK L : L = {[d EXCEPT !.op = "leftover"] : d \in Others(c)}
    OBVIOUS
  <2>3. /\ calls' = ((calls \ ({c} \cup Others(c))) \cup L) \cup {w} /\ fetch' = Query /\ cached' = cached
        /\ stale' = (stale \/ Others(c) # {})
    BY <1>3, <2>1, <2>2 DEF Refused, refreshData
  <2>4. /\ DOMAIN w = {"op", "task", "value", "at", "doc"}
        /\ w.op = c.op /\ w.task = c.task /\ w.value = c.value /\ w.doc = c.doc /\ w.at = "waiting"
    BY <1>2, <2>1 DEF Waiting, ListCallOK
  <2>5. ListCallOK(w)
    BY <1>2, <1>3, <2>4 DEF ListCallOK
  <2>6. \A e \in L : ListCallOK(e)
    <3>1. ASSUME NEW d \in Others(c)
          PROVE  ListCallOK([d EXCEPT !.op = "leftover"])
      <4>1. d.op = "order" /\ ListCallOK(d)
        BY <1>2 DEF Others, ListTyped
      <4>2. PICK e : e = [d EXCEPT !.op = "leftover"]
        OBVIOUS
      <4>3. /\ DOMAIN e = {"op", "task", "value", "at", "doc"}
            /\ e.op = "leftover" /\ e.task = d.task /\ e.value = d.value /\ e.at = d.at /\ e.doc = d.doc
        BY <4>1, <4>2 DEF ListCallOK
      <4>4. ListCallOK(e)
        BY <4>1, <4>3 DEF ListCallOK
      <4> QED BY <4>2, <4>4
    <3> QED BY <2>2, <3>1
  <2>7. ListTyped'
    BY <1>1, <1>2, <2>3, <2>5, <2>6 DEF ListTyped, ListCallOK
  <2>8. FetchOK'
    BY <2>3, <2>4 DEF FetchOK, Query
  <2>9. ASSUME ~stale'
        PROVE  \E e \in calls' : calls' = {e} /\ OnItsWay(e)'
    <3>1. ~stale /\ Others(c) = {}
      BY <2>3, <2>9
    <3>2. ASSUME Reordering
          PROVE  calls = {c}
      BY <1>3, <3>1, <3>2 DEF Others, Reordering
    <3>3. ASSUME NEW e \in calls, calls = {e}, OnItsWay(e)
          PROVE  calls = {c}
      BY <3>3
    <3>4. calls = {c}
      BY <3>1, <3>2, <3>3 DEF ListInv, Settles
    <3>5. L = {}
      BY <2>2, <3>1
    <3>6. calls' = {w}
      BY <2>3, <3>4, <3>5
    <3>7. fetch'.at # "late"
      BY <2>3 DEF Query
    <3> QED BY <2>4, <3>6, <3>7 DEF OnItsWay
  <2> QED BY <2>7, <2>8, <2>9 DEF ListInv, Settles
<1>4. CASE c.op # "order"
  <2>1. calls' = calls \ {c} /\ UNCHANGED <<cached, fetch, stale>>
    BY <1>4 DEF Refused, loads
  <2>2. ListTyped'
    BY <1>1, <1>2, <2>1 DEF ListTyped, ListCallOK
  <2>3. \A e \in calls : e.at = "waiting" => e \in calls'
    BY <1>1, <2>1
  <2>4. FetchOK'
    BY <1>1, <2>1, <2>3, SameRows DEF ListInv, FetchOK
  <2>5. ASSUME ~stale'
        PROVE  Settles'
    <3>1. ~Reordering
      BY <1>4 DEF Reordering
    <3>2. calls = {c} /\ OnItsWay(c)
      BY <2>1, <2>5, <3>1 DEF ListInv, Settles
    <3>3. calls' = {} /\ Synced
      BY <1>1, <2>1, <3>2 DEF OnItsWay
    <3>4. Synced'
      BY <1>1, <3>3 DEF Synced, Matches, Complete, Few, ListedIn
    <3> QED BY <3>3, <3>4, AtRestAfter
  <2>6. Settles'
    BY <2>5 DEF Settles
  <2> QED BY <2>2, <2>4, <2>6 DEF ListInv
<1> QED BY <1>3, <1>4

-----------------------------------------------------------------------------
LEMMA ListStarts == ListInit => ListInv
<1>1. SUFFICES ASSUME ListInit
               PROVE  ListInv
  OBVIOUS
<1>2. stored \in Lists
  BY <1>1, TaskListAssumption DEF ListInit, Lists, ListRow, TaskListAssumption
<1>3. tasks \in Lists /\ cached = None /\ editing = None
  BY <1>1 DEF ListInit, Lists
<1>4. PICK c : c = Waiting(Call("mount", None, None))
  OBVIOUS
<1>5. calls = {c} /\ c.at = "waiting" /\ ListCallOK(c)
  BY <1>1, <1>4 DEF ListInit, Waiting, Call, ListCallOK
<1>6. fetch = Query /\ stale = TRUE
  BY <1>1 DEF ListInit
<1>7. ListTyped
  BY <1>2, <1>3, <1>5 DEF ListTyped
<1>8. FetchOK
  BY <1>5, <1>6 DEF FetchOK, Query
<1> QED BY <1>6, <1>7, <1>8 DEF ListInv, Settles

LEMMA ListSteps == ListInv /\ [ListNext]_listvars => ListInv'
<1> SUFFICES ASSUME ListInv, [ListNext]_listvars
             PROVE  ListInv'
  OBVIOUS
<1>1. CASE Gesture
  <2>1. CASE addTask \/ saveInlineEdit \/ \E t \in Tasks : completeTask(t) \/ reopenTask(t) \/ removeTask(t) \/ makeRowTaskLive(t)
    BY <2>1, HandlersSend, SendsKeeps
  <2>2. CASE \E t \in Tasks : onDrop(t) \/ \E u \in Tasks : Move(t, u)
    BY <2>2, DragsKeep
  <2>3. CASE \/ onMainInput \/ cancelInlineEdit \/ openSearchModal \/ closeSearchModal \/ closeDetailModal \/ onDragEnd
             \/ \E v \in {"inbox", "today", "upcoming"} \cup Projects : navigate(v)
             \/ \E text \in {"", "old", "new"} : typeTitle(text) \/ typeSearch(text)
             \/ \E t \in Tasks : beginInlineEdit(t) \/ openDetailModal(t) \/ onDragStart(t) \/ onDragOver(t)
    BY <2>3, QuietGestures, RestsKeeps
  <2> QED BY <1>1, <2>1, <2>2, <2>3 DEF Gesture
<1>2. CASE Progress
  BY <1>2, FetchServedKeeps, FetchEndsKeeps, FetchFailsKeeps, ServeRowKeeps, CallLostKeeps, AnsweredKeeps, RefusedKeeps DEF Progress
<1>3. CASE UNCHANGED listvars
  <2>1. Rests
    BY <1>3 DEF listvars, Rests, ListInv, ListTyped
  <2> QED BY <2>1, RestsKeeps
<1> QED BY <1>1, <1>2, <1>3 DEF ListNext

LEMMA ListInvShows == ListInv => ShowsRows
<1> SUFFICES ASSUME ListInv, calls = {}, fetch = None, ~stale
             PROVE  /\ \A t \in ListedIn(tasks) : tasks[t] = stored[t]
                    /\ Cardinality({t \in Tasks : stored[t] # None}) <= PageLimit => ListedIn(tasks) = ListedIn(stored)
  BY DEF ShowsRows
<1>1. Synced
  BY RestedShows DEF ListInv
<1>2. \A t \in ListedIn(tasks) : t \in Tasks /\ tasks[t] # None /\ tasks[t] = stored[t]
  BY <1>1 DEF ListedIn, Synced, Matches
<1>3. ASSUME Few
      PROVE  ListedIn(tasks) = ListedIn(stored)
  <2>1. \A t \in ListedIn(stored) : t \in Tasks /\ tasks[t] = stored[t]
    BY <1>1, <1>3 DEF Synced, Complete, Matches, ListedIn
  <2> QED BY <1>2, <2>1 DEF ListedIn
<1> QED BY <1>2, <1>3 DEF Few

(* When nothing is under way on the home page, and nothing overlapped since it  *)
(* loaded, its list shows every row as the service has it, with the order a     *)
(* drag gave it, and misses none when those there are fit one answer.           *)
THEOREM ListShowsItsRows == ListSpec => []ShowsRows
<1>1. ListSpec => []ListInv
  BY ListStarts, ListSteps, PTL DEF ListSpec
<1> QED BY <1>1, ListInvShows, PTL

=============================================================================
