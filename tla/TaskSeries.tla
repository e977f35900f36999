---------------------------- MODULE TaskSeries -----------------------------
(***************************************************************************)
(* Repeating tasks: the rows of internal/task under concurrent requests,   *)
(* and the day end of internal/board, which reopens closed repeating rows  *)
(* on its own.  A request that closes a task reads the row, works out the  *)
(* next occurrence and only then writes, in a second statement; the day    *)
(* end lists all rows and then reopens them one statement at a time.       *)
(* Task handlers hold no lock, so these steps interleave.                  *)
(*                                                                         *)
(* Abstractions.  Of a row: whether it repeats, the COUNT left of its rule *)
(* (0 when the rule has none), whether the rule's end leaves no occurrence *)
(* after this one, its processed count, and one state for its checked and   *)
(* deleted columns.  The rows of one user and workspace; the pages of a     *)
(* listing are read at once.                                               *)
(***************************************************************************)
EXTENDS Integers, FiniteSets

CONSTANTS Clients,      \* concurrent requests
          Ops,          \* the operations a run exercises
          MaxCount,     \* bound: the largest COUNT a client asks for
          MaxSeries,    \* bound: rows clients create
          MaxRows,      \* bound: rows ever inserted
          MaxProcessed  \* bound: closings of one row

ASSUME SeriesAssumption ==
  /\ MaxCount \in Nat /\ MaxSeries \in Nat /\ MaxRows \in Nat
  /\ MaxProcessed \in Nat

VARIABLES rows,         \* the tasks table
          reqs,         \* closing requests between their read and their write
          tick,         \* rows the running day end has listed and not yet reopened
          series,       \* history: per row, the first row of its series and its number in it
          touched       \* history: whether a row was "reopened", or a rule "edited"
history == <<series, touched>>
vars == <<rows, reqs, tick, history>>

Ids == 1..MaxRows
Rules == {rule \in [repeats : BOOLEAN, left : 0..MaxCount, last : BOOLEAN] :
            ~rule.repeats => rule.left = 0 /\ ~rule.last}

\* from is kept for the properties: the row that was closed when this one was
\* inserted as its next occurrence, or 0.
Row == [rule : Rules, state : {"open", "checked", "deleted"},
        processed : Nat, from : {0} \cup Ids]
NewRow(rule, from) ==
  [rule |-> rule, state |-> "open", processed |-> 0, from |-> from]

Requests == [step : {"idle"}] \cup [step : {"close"}, id : Ids]
            \cup [step : {"renew"}, id : Ids, rule : Rules]
IdleRequest == [step |-> "idle"]

Stored(r) == r \in DOMAIN rows /\ rows[r].state # "deleted"
Open(r)   == r \in DOMAIN rows /\ rows[r].state = "open"

Init ==
  /\ rows = <<>>
  /\ reqs = [c \in Clients |-> IdleRequest]
  /\ tick = {} /\ series = <<>> /\ touched = {}

-----------------------------------------------------------------------------
Create ==
  /\ "create" \in Ops
  /\ Cardinality({r \in DOMAIN rows : rows[r].from = 0}) < MaxSeries
  /\ \E new \in Ids \ DOMAIN rows, rule \in Rules :
       /\ \A r \in Ids \ DOMAIN rows : new <= r
       /\ rows' = [r \in DOMAIN rows \cup {new} |->
                     IF r = new THEN NewRow(rule, 0) ELSE rows[r]]
       /\ series' = [r \in DOMAIN rows' |-> IF r = new THEN [first |-> new, nth |-> 1] ELSE series[r]]
  /\ UNCHANGED <<reqs, tick, touched>>

\* Fault: a COUNT of one is counted down like any other.
NextLeftPastOne(left) == IF left = 0 THEN {0} ELSE {left - 1}

\* Fault: the COUNT is taken down even where the rule has none.
NextLeftAlways(left) == IF left = 1 THEN {} ELSE {left - 1}

\* recurrenceForNextOccurrence: no value when the rule ends with this occurrence.
NextLeft(left) ==
  CASE left = 0 -> {0}
    [] left = 1 -> {}
    [] OTHER    -> {left - 1}

\* Service.Close up to its write.  An unknown row is an error and a checked one
\* is already closed: neither goes on.
CloseRead(c, r) ==
  /\ "close" \in Ops
  /\ reqs[c] = IdleRequest
  /\ Open(r) /\ rows[r].processed < MaxProcessed
  /\ LET rule == rows[r].rule
     IN  IF ~rule.repeats \/ rule.last \/ NextLeft(rule.left) = {}
         THEN reqs' = [reqs EXCEPT ![c] = [step |-> "close", id |-> r]]
         ELSE \E left \in NextLeft(rule.left), last \in BOOLEAN :
                reqs' = [reqs EXCEPT ![c] =
                  [step |-> "renew", id |-> r,
                   rule |-> [repeats |-> TRUE, left |-> left, last |-> last]]]
  /\ UNCHANGED <<rows, tick, history>>

Closed(row) ==
  [rule |-> row.rule, state |-> "checked", processed |-> row.processed + 1,
   from |-> row.from]

\* Fault: processed_count goes up whatever the row's state.
TaskCloseCountingAlways(r) == [rows EXCEPT ![r] = Closed(@)]

\* task_close.sql: idempotent, and counts only the change from open to checked.
TaskClose(r) == [rows EXCEPT ![r] = IF @.state = "open" THEN Closed(@) ELSE @]

\* Repository.Close
CloseWrite(c) ==
  /\ reqs[c].step = "close"
  /\ rows' = IF Stored(reqs[c].id) THEN TaskClose(reqs[c].id) ELSE rows
  /\ reqs' = [reqs EXCEPT ![c] = IdleRequest]
  /\ UNCHANGED <<tick, history>>

\* Fault: the update of CloseRecurringAndCreateNext matches checked rows too.
RenewableStored(r) == Stored(r)

\* task_close_open.sql matches a row.
Renewable(r) == Open(r)

\* Fault: the next occurrence is inserted and the closing is lost.
RenewedUnclosed(r, new, rule) ==
  [x \in DOMAIN rows \cup {new} |-> IF x = new THEN NewRow(rule, r) ELSE rows[x]]

\* The two statements of the transaction.
Renewed(r, new, rule) ==
  [x \in DOMAIN rows \cup {new} |->
     IF x = new THEN NewRow(rule, r)
     ELSE IF x = r THEN Closed(rows[r]) ELSE rows[x]]

\* CloseRecurringAndCreateNext: one transaction, which commits without an
\* insert when another request has closed or deleted the row meanwhile.
RenewWrite(c) ==
  /\ reqs[c].step = "renew"
  /\ IF Renewable(reqs[c].id)
     THEN \E new \in Ids \ DOMAIN rows :
            /\ \A r \in Ids \ DOMAIN rows : new <= r
            /\ rows' = Renewed(reqs[c].id, new, reqs[c].rule)
            /\ series' = [r \in DOMAIN rows' |->
                            IF r = new THEN [series[reqs[c].id] EXCEPT !.nth = @ + 1] ELSE series[r]]
     ELSE UNCHANGED <<rows, series>>
  /\ reqs' = [reqs EXCEPT ![c] = IdleRequest]
  /\ UNCHANGED <<tick, touched>>

\* The request ends between its read and its write, or its transaction rolls back.
CloseFails(c) ==
  /\ reqs[c] # IdleRequest
  /\ reqs' = [reqs EXCEPT ![c] = IdleRequest]
  /\ UNCHANGED <<rows, tick, history>>

\* Service.Update, of the rule: the write matches checked rows too.
Update(r) ==
  /\ "update" \in Ops
  /\ Stored(r)
  /\ \E rule \in Rules : rows' = [rows EXCEPT ![r].rule = rule]
  /\ touched' = touched \cup {"edited"}
  /\ UNCHANGED <<reqs, tick, series>>

TaskReopen(r) == [rows EXCEPT ![r].state = "open"]

Reopen(r) ==
  /\ "reopen" \in Ops
  /\ Stored(r)
  /\ rows' = TaskReopen(r) /\ touched' = touched \cup {"reopened"}
  /\ UNCHANGED <<reqs, tick, series>>

Delete(r) ==
  /\ "delete" \in Ops
  /\ Stored(r)
  /\ rows' = [rows EXCEPT ![r].state = "deleted"]
  /\ UNCHANGED <<reqs, tick, history>>

-----------------------------------------------------------------------------
(* world.end_day, recurrence_rules.spawn_if_due *)

DayEndList ==
  /\ "end_day" \in Ops
  /\ tick = {}
  /\ tick' = {r \in DOMAIN rows : rows[r].state = "checked" /\ rows[r].rule.repeats}
  /\ UNCHANGED <<rows, reqs, history>>

\* A new deadline (left out here) and Reopen; a row deleted since the listing
\* fails the command, and the rows already reopened stay open.
DayEndReopen(r) ==
  /\ r \in tick
  /\ IF Stored(r) THEN rows' = TaskReopen(r) /\ tick' = tick \ {r} /\ touched' = touched \cup {"reopened"}
                  ELSE rows' = rows /\ tick' = {} /\ UNCHANGED touched
  /\ UNCHANGED <<reqs, series>>

Next ==
  \/ Create
  \/ \E c \in Clients : \/ \E r \in DOMAIN rows : CloseRead(c, r)
                        \/ CloseWrite(c) \/ RenewWrite(c) \/ CloseFails(c)
  \/ \E r \in DOMAIN rows : Update(r) \/ Reopen(r) \/ Delete(r) \/ DayEndReopen(r)
  \/ DayEndList

Spec == Init /\ [][Next]_vars

-----------------------------------------------------------------------------
TypeOK ==
  /\ DOMAIN rows \subseteq Ids /\ rows \in [DOMAIN rows -> Row]
  /\ reqs \in [Clients -> Requests]
  /\ tick \subseteq DOMAIN rows

NextOf(r) == {s \in DOMAIN rows : rows[s].from = r}

\* Every inserted next occurrence was paid for by a closing of the row before
\* it, which counts it in processed: two requests that close one row at once,
\* reopenings and the day end never make it spawn twice for one closing.
PaidFor == \A r \in DOMAIN rows : Cardinality(NextOf(r)) <= rows[r].processed

\* The rows, as the requests interleave, are the task list of Occurrences.
StatusOf == [open |-> "open", checked |-> "finished", deleted |-> "dropped"]
Listed ==
  [r \in DOMAIN rows |->
     [status |-> StatusOf[rows[r].state], done |-> rows[r].processed,
      from |-> rows[r].from]]
O == INSTANCE Occurrences WITH Places <- Ids, tasks <- Listed
Implements == O!Spec

\* No series has two open rows.
OneOpenPerSeries ==
  \A r, s \in DOMAIN rows : r # s /\ Open(r) /\ Open(s) => series[r].first # series[s].first

\* A rule with a COUNT is spent one occurrence at a time, never past it.
WithinCount ==
  \A s \in DOMAIN rows :
    LET left  == rows[s].rule.left
        count == rows[series[s].first].rule.left
    IN  /\ count = 0 <=> left = 0
        /\ left > 0 => series[s].nth + left = count + 1

\* A series does not die: a checked row whose rule goes on has its next occurrence.
SeriesGoesOn ==
  \A r \in DOMAIN rows :
    LET rule == rows[r].rule
    IN  rows[r].state = "checked" /\ rule.repeats /\ ~rule.last /\ rule.left # 1
          => NextOf(r) # {}

\* While nobody reopens a row (no client, no day end), closing a repeating task
\* closes it and opens exactly the next one, however many requests close it.
ClosingOpensOne == "reopened" \notin touched => OneOpenPerSeries

\* While nobody edits a rule, a series never runs past its COUNT and does not
\* die before it, however its rows are closed, reopened and deleted meanwhile.
ClosingKeepsCount == "edited" \notin touched => WithinCount /\ SeriesGoesOn
=============================================================================
