--------------------------- MODULE BoardTaskDialog ---------------------------
(* The task dialog of the board page of one browser tab (BoardControllerTasks *)
(* and BoardTaskDetailModal): a save is a chain of calls, each addressed to   *)
(* the board that is active when it is sent, and a card and the row it is     *)
(* linked to hold the same task only when the chain has gone through.  The    *)
(* description goes the way of the title and is left out, as is the schedule. *)
EXTENDS Naturals, FiniteSets

CONSTANTS
  Boards, Cards, Tasks,
  Texts,          \* what is typed as a title: its content and the priority it names, or None
  Priorities,
  Slots,          \* bound: chains at a time
  MaxFailures,    \* bound: lost calls
  None

Untitled == "untitled"

VARIABLES
  rows,        \* the rows of the service: board (None for the inbox), title, prio, done; or None
  cards,       \* the task cards of the boards: board, task (None for a blank one), title, prio; or None
  active,      \* the board the tab shows
  shown,       \* the cards the tab has of it
  dialog,      \* whether it is open, its card and what the form says
  jobs,        \* the chain in each slot, or None
  torn,        \* the cards a chain broke off for, half-way
  failures

vars == <<rows, cards, active, shown, dialog, jobs, torn, failures>>

---------------------------------------------------------------------------
(* The service *)

Content(title) == IF title = "" THEN Untitled ELSE title
Linked(k) == cards[k] # None /\ cards[k].task # None
OnBoard(k, b) == cards[k] # None /\ cards[k].board = b

\* task.set_title and task.set_priority change the card and the row it is linked to.
SetBoth(k, field, value) ==
  /\ cards' = [cards EXCEPT ![k] = IF field = "title" THEN [@ EXCEPT !.title = value] ELSE [@ EXCEPT !.prio = value]]
  /\ rows' = IF ~Linked(k) THEN rows
             ELSE [rows EXCEPT ![cards[k].task] =
                     IF field = "title" THEN [@ EXCEPT !.title = Content(value)] ELSE [@ EXCEPT !.prio = value]]

\* task.sync_from_task
SyncFromTask(k) ==
  /\ cards' = [cards EXCEPT ![k].title = rows[cards[k].task].title, ![k].prio = rows[cards[k].task].prio]
  /\ UNCHANGED rows

\* task.complete_stack takes the card off the board and closes its row.
CompleteStack(k) ==
  /\ cards' = [cards EXCEPT ![k] = None]
  /\ rows' = IF Linked(k) THEN [rows EXCEPT ![cards[k].task].done = TRUE] ELSE rows

---------------------------------------------------------------------------
(* The page *)

CardsOf(b) == [k \in Cards |-> IF OnBoard(k, b) THEN cards[k] ELSE None]
selectedTaskCard == IF dialog.card = None THEN None ELSE shown[dialog.card]
DialogShown == dialog.open /\ selectedTaskCard # None

Steps == {"parse", "create", "link", "title", "prio", "update", "sync", "load", "complete"}

\* A step of a chain is sent to the board that is active now; the priority is
\* the one the form has now, unless the title names one.
Sent(j, step) ==
  [j EXCEPT !.step = step, !.at = "sent", !.board = active,
            !.prio = IF step \notin {"prio", "update"} THEN None ELSE IF j.text.prio # None THEN j.text.prio ELSE dialog.prio]

FreeSlot == CHOOSE s \in Slots : jobs[s] = None
Start(j) ==
  /\ \E s \in Slots : jobs[s] = None
  /\ LET alone == \A s \in Slots : jobs[s] = None IN
     jobs' = [s \in Slots |-> IF s = FreeSlot THEN [j EXCEPT !.clean = alone]
                              ELSE IF jobs[s] # None THEN [jobs[s] EXCEPT !.clean = FALSE] ELSE None]
Disturb == jobs' = [s \in Slots |-> IF jobs[s] # None THEN [jobs[s] EXCEPT !.clean = FALSE] ELSE None]

Init ==
  /\ rows \in [Tasks -> [board : Boards, title : {"old"}, prio : Priorities, done : {FALSE}] \cup {None}]
  /\ cards \in [Cards -> [board : Boards, task : Tasks \cup {None}, title : {"old"}, prio : Priorities] \cup {None}]
  /\ \A k \in Cards : Linked(k) => rows[cards[k].task] = [board |-> cards[k].board, title |-> "old", prio |-> cards[k].prio, done |-> FALSE]
  /\ \A k, l \in Cards : Linked(k) /\ Linked(l) /\ k # l => cards[k].task # cards[l].task
  /\ active \in Boards /\ shown = CardsOf(active)
  /\ dialog = [open |-> FALSE, card |-> None, text |-> None, prio |-> None]
  /\ jobs = [s \in Slots |-> None] /\ torn = {} /\ failures = 0

openDetail(k) ==
  /\ ~DialogShown /\ shown[k] # None
  /\ dialog' = [open |-> TRUE, card |-> k, text |-> [content |-> shown[k].title, prio |-> None], prio |-> shown[k].prio]
  /\ Disturb /\ UNCHANGED <<rows, cards, active, shown, torn, failures>>

closeDetail ==
  /\ DialogShown /\ dialog' = [dialog EXCEPT !.open = FALSE]
  /\ UNCHANGED <<rows, cards, active, shown, jobs, torn, failures>>

onDetailTitleInput(text) ==
  /\ DialogShown /\ dialog' = [dialog EXCEPT !.text = text]
  /\ UNCHANGED <<rows, cards, active, shown, jobs, torn, failures>>

setDetailPriority(p) ==
  /\ DialogShown /\ dialog' = [dialog EXCEPT !.prio = p]
  /\ Disturb /\ UNCHANGED <<rows, cards, active, shown, torn, failures>>

\* The title is read when the button is pressed and the card as the page has it; a
\* plain title is not parsed.  Nothing keeps a second save from starting.
saveDetail ==
  /\ DialogShown
  /\ LET task == selectedTaskCard.task
         first == IF dialog.text.prio # None THEN "parse" ELSE IF task = None THEN "create" ELSE "title"
         j == [op |-> "save", card |-> dialog.card, task |-> task, fresh |-> task = None, text |-> dialog.text,
               typed |-> dialog.prio, clean |-> TRUE, step |-> first, at |-> "sent", board |-> None, prio |-> None] IN
     Start(Sent(j, first))
  /\ UNCHANGED <<rows, cards, active, shown, dialog, torn, failures>>

completeStack ==
  /\ DialogShown
  /\ LET j == [op |-> "complete", card |-> dialog.card, task |-> None, fresh |-> FALSE, text |-> dialog.text,
               typed |-> dialog.prio, clean |-> TRUE, step |-> "complete", at |-> "sent", board |-> None, prio |-> None] IN
     Start(Sent(j, "complete"))
  /\ UNCHANGED <<rows, cards, active, shown, dialog, torn, failures>>

\* The address names another board: the dialog and the selection are reset.
SwitchBoard(b) ==
  /\ b # active /\ ~DialogShown /\ active' = b
  /\ shown' = [k \in Cards |-> None]
  /\ dialog' = [dialog EXCEPT !.open = FALSE, !.card = None]
  /\ Disturb /\ UNCHANGED <<rows, cards, torn, failures>>

\* The timer, the switch and every command load the board.
Load ==
  /\ shown # CardsOf(active) /\ shown' = CardsOf(active)
  /\ UNCHANGED <<rows, cards, active, dialog, jobs, torn, failures>>

---------------------------------------------------------------------------
(* The chains *)

Stays(j) == j.step \in {"parse", "load"}
Serve(s) ==
  /\ jobs[s] # None /\ jobs[s].at = "sent"
  /\ LET j == jobs[s] IN
     IF Stays(j) THEN jobs' = [jobs EXCEPT ![s].at = "done"] /\ UNCHANGED <<rows, cards>>
     ELSE IF j.step = "create" THEN
       \E t \in Tasks :
         /\ rows[t] = None /\ jobs' = [jobs EXCEPT ![s].at = "done", ![s].task = t]
         /\ rows' = [rows EXCEPT ![t] = [board |-> None, title |-> Content(j.text.content), prio |-> 4, done |-> FALSE]]
         /\ UNCHANGED cards
     ELSE IF j.step = "update" THEN
       /\ jobs' = [jobs EXCEPT ![s].at = "done"] /\ UNCHANGED cards
       /\ rows' = [rows EXCEPT ![j.task] = [@ EXCEPT !.board = j.board, !.title = Content(j.text.content), !.prio = j.prio]]
     ELSE IF ~OnBoard(j.card, j.board) \/ (j.step = "sync" /\ ~Linked(j.card)) THEN
       jobs' = [jobs EXCEPT ![s].at = "refused"] /\ UNCHANGED <<rows, cards>>
     ELSE
       /\ jobs' = [jobs EXCEPT ![s].at = "done"]
       /\ CASE j.step = "link"  -> cards' = [cards EXCEPT ![j.card].task = j.task] /\ UNCHANGED rows
            [] j.step = "title" -> SetBoth(j.card, "title", j.text.content)
            [] j.step = "prio"  -> SetBoth(j.card, "prio", j.prio)
            [] j.step = "sync"  -> SyncFromTask(j.card)
            [] j.step = "complete" -> CompleteStack(j.card)
  /\ torn' = IF jobs[s].step = "sync" /\ jobs'[s].at = "done" THEN torn \ {jobs[s].card} ELSE torn
  /\ UNCHANGED <<active, shown, dialog, failures>>

\* Fault: the card is not read from its row again once that is saved.
NextStepSkipsSync(j) ==
  CASE j.step = "parse"  -> IF j.fresh THEN "create" ELSE "title"
    [] j.step = "create" -> "link"   [] j.step = "link" -> "title"
    [] j.step = "title"  -> "prio"   [] j.step = "prio" -> "update"
    [] j.step = "update" -> "load"   [] j.step \in {"sync", "complete"} -> "load"
NextStep(j) ==
  CASE j.step = "parse"  -> IF j.fresh THEN "create" ELSE "title"
    [] j.step = "create" -> "link"   [] j.step = "link" -> "title"
    [] j.step = "title"  -> "prio"   [] j.step = "prio" -> "update"
    [] j.step = "update" -> "sync"   [] j.step \in {"sync", "complete"} -> "load"

\* A title of nothing but a priority ends the save; the end of a save closes
\* whichever dialog is open, that of a completion only the dialog of its card.
Continue(s) ==
  /\ jobs[s] # None /\ jobs[s].at = "done"
  /\ LET j == jobs[s] IN
     IF j.step = "load" THEN
       /\ shown' = CardsOf(active) /\ jobs' = [jobs EXCEPT ![s] = None]
       /\ dialog' = IF j.op = "save" \/ dialog.card = j.card THEN [dialog EXCEPT !.open = FALSE] ELSE dialog
     ELSE IF j.step = "parse" /\ j.text.content = "" THEN jobs' = [jobs EXCEPT ![s] = None] /\ UNCHANGED <<shown, dialog>>
     ELSE jobs' = [jobs EXCEPT ![s] = Sent(j, NextStep(j))] /\ UNCHANGED <<shown, dialog>>
  /\ UNCHANGED <<rows, cards, active, torn, failures>>

\* A chain that is refused a step stops there, and so does one whose answer is lost:
\* between the link of a new row and the priority, and between the row and the card
\* that is read from it, half of the work is done.
TornBy(j) ==
  \/ j.fresh /\ (j.step = "title" \/ (j.step = "link" /\ j.at = "done") \/ (j.step = "prio" /\ j.at # "done"))
  \/ (j.step = "update" /\ j.at = "done") \/ (j.step = "sync" /\ j.at # "done")
BreakOff(s) ==
  /\ jobs' = [jobs EXCEPT ![s] = None]
  /\ torn' = IF TornBy(jobs[s]) THEN torn \cup {jobs[s].card} ELSE torn
  /\ UNCHANGED <<rows, cards, active, shown, dialog>>
Refused(s) == jobs[s] # None /\ jobs[s].at = "refused" /\ BreakOff(s) /\ UNCHANGED failures
Lost(s) ==
  /\ jobs[s] # None /\ jobs[s].at # "refused" /\ jobs[s].step # "load"
  /\ failures < MaxFailures /\ failures' = failures + 1 /\ BreakOff(s)

Gesture ==
  \/ closeDetail \/ saveDetail \/ completeStack \/ Load
  \/ \E k \in Cards : openDetail(k)
  \/ \E text \in Texts : onDetailTitleInput(text)
  \/ \E p \in Priorities : setDetailPriority(p)
  \/ \E b \in Boards : SwitchBoard(b)
Progress == \E s \in Slots : Serve(s) \/ Continue(s) \/ Refused(s) \/ Lost(s)
Next == Gesture \/ Progress

Spec == Init /\ [][Next]_vars

---------------------------------------------------------------------------
(* A chain has a step, and a row once it is past creating it.                 *)
TypeOK ==
  /\ \A s \in Slots : jobs[s] # None => jobs[s].step \in Steps /\ (jobs[s].step \in {"link", "title", "update", "sync"} => jobs[s].task # None)
  /\ \A k \in Cards : Linked(k) => rows[cards[k].task] # None
  /\ active \in Boards /\ torn \subseteq Cards

(* However saves and completions overlap, boards are switched and the form is *)
(* changed meanwhile: when no chain is under way, a card and the row it is    *)
(* linked to hold the same title and priority, unless the last chain for the  *)
(* card broke off half-way; and no two cards are linked to one row.           *)
CardsAgree ==
  (\A s \in Slots : jobs[s] = None) =>
    \A k \in Cards : Linked(k) =>
      /\ k \in torn \/ (Content(cards[k].title) = rows[cards[k].task].title /\ cards[k].prio = rows[cards[k].task].prio)
      /\ \A l \in Cards \ {k} : Linked(l) => cards[l].task # cards[k].task

(* A save that nothing came between leaves in the row, and on its card, what  *)
(* the form said when the button was pressed, on the board of the tab.        *)
SaveKeepsForm ==
  \A s \in Slots : jobs[s] # None /\ jobs'[s] = None /\ jobs[s].step = "load" /\ jobs[s].op = "save" /\ jobs[s].clean =>
       LET j == jobs[s]
           p == IF j.text.prio # None THEN j.text.prio ELSE j.typed IN
       /\ rows[j.task].title = Content(j.text.content) /\ rows[j.task].prio = p /\ rows[j.task].board = active
       /\ shown'[j.card] # None /\ shown'[j.card].title = rows[j.task].title /\ shown'[j.card].prio = p
SavesWhatWasTyped == [][SaveKeepsForm]_vars
=============================================================================
