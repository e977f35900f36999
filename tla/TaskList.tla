------------------------------ MODULE TaskList ------------------------------
(* The task list of the home page of one browser tab (HomeController and      *)
(* HomeControllerState, with the rows, the composer, the search and the       *)
(* sidebar views): the rows it shows, the query that loads them, and the      *)
(* calls it has under way.  A refresh ends for all that wait for it, and one  *)
(* that starts while another runs replaces it.                                *)
EXTENDS Naturals, FiniteSets

CONSTANTS
  Tasks,          \* the numbers of the rows; titles compare as the numbers do
  Projects,       \* the projects beside the inbox; the rows of Boards can go live
  Boards,
  Days,           \* when rows are due: overdue, today, later, none
  PageLimit,      \* the rows one answer of the service holds
  MaxCalls, MaxFailures,   \* bounds: calls at a time, lost calls
  None

ListRow ==
  [status : {"open", "done", "deleted"}, order : Nat, title : {"old", "new"}, project : Projects \cup {"inbox"}, due : Days, live : BOOLEAN]
ASSUME TaskListAssumption == /\ Tasks \subseteq Nat /\ IsFiniteSet(Tasks) /\ Boards \subseteq Projects /\ "none" \in Days
                             /\ {PageLimit, MaxCalls, MaxFailures} \subseteq Nat /\ None \notin ListRow

VARIABLES
  stored,      \* the rows of the service, None for one not yet created
  tasks,       \* the rows the page shows
  cached,      \* the rows the last answer of the query held, or None
  fetch,       \* the query under way, or None
  calls,       \* the other calls, those that wait for the query included
  view,        \* "inbox", "today", "upcoming" or a project
  content,     \* whether something is typed in the composer
  editing,     \* the row whose title is edited in place and the text, or None
  drag,        \* the row dragged and the row below, or None
  search,      \* None, "", or the title searched for
  detail,      \* the row whose dialog is open, or None
  activating,  \* the row shown as being activated, or None
  stale,       \* whether calls overlapped, an answer was lost or a refresh failed
  failures

listvars == <<stored, tasks, cached, fetch, calls, view, content, editing, drag, search, detail, activating, stale, failures>>
loads == <<cached, fetch>>
typed == <<content, editing, search>>
modes == <<view, drag, detail, activating>>

---------------------------------------------------------------------------
(* Rows and their order *)

ListedIn(list) == {t \in Tasks : list[t] # None /\ list[t].status # "deleted"}
OpenIn(list) == {t \in ListedIn(list) : list[t].status = "open"}
Before(list, t, u) == list[t].order < list[u].order \/ (list[t].order = list[u].order /\ t < u)
Sorted(list, S) ==
  [k \in 1..Cardinality(S) |-> CHOOSE t \in S : Cardinality({u \in S : Before(list, u, t)}) = k - 1]

\* The answer to the query: the first rows by order, closed ones included.
Answer == [t \in Tasks |-> IF stored[t] # None /\ Cardinality({u \in ListedIn(stored) : Before(stored, u, t)}) < PageLimit
                           THEN stored[t] ELSE None]

\* Open rows that are overdue count as due today; a row without a project is in the inbox.
DueBucket(day) == IF day = "overdue" THEN "today" ELSE day
InView(t) ==
  CASE view = "today"    -> DueBucket(tasks[t].due) = "today"
    [] view = "upcoming" -> DueBucket(tasks[t].due) = "later"
    [] view = "inbox"    -> tasks[t].project = "inbox"
    [] OTHER             -> tasks[t].project = view

visibleTasks == {t \in OpenIn(tasks) : InView(t)}
visibleCompletedTasks == {t \in ListedIn(tasks) \ OpenIn(tasks) : InView(t)}
searchResults == IF search \in {None, ""} THEN {} ELSE {t \in OpenIn(tasks) : tasks[t].title = search}

---------------------------------------------------------------------------
(* What the page offers: nothing behind a dialog *)

Dialog == detail # None /\ detail \in ListedIn(tasks)
Uncovered == ~Dialog /\ search = None
OffersRow(t) == Uncovered /\ t \in visibleTasks
Neighbours(t, u) ==
  LET s == Sorted(tasks, visibleTasks) IN \E k \in 1..Cardinality(visibleTasks) - 1 : {s[k], s[k+1]} = {t, u}
OffersMove(t, u) == OffersRow(t) /\ t # u /\ u \in visibleTasks /\ Neighbours(t, u)
OffersLive(t) == OffersRow(t) /\ tasks[t].project \in Boards /\ ~tasks[t].live /\ activating # t
OffersRestore(t) == Uncovered /\ t \in visibleCompletedTasks
OffersDetails(t) ==
  /\ ~Dialog
  /\ \/ search = None /\ t \in visibleTasks \cup visibleCompletedTasks
     \/ t \in searchResults

---------------------------------------------------------------------------
(* Calls and the query *)

Call(op, t, value) == [op |-> op, task |-> t, value |-> value, at |-> "sent", doc |-> None]
Waiting(c) == [c EXCEPT !.at = "waiting"]
InFlight == {c \in calls : c.at # "waiting"}
Overtaken(f) == IF f # None /\ f.at # "sent" THEN [f EXCEPT !.at = "late"] ELSE f
Query == [at |-> "sent", doc |-> None]

ListInit ==
  /\ stored \in [Tasks -> [status : {"open", "done"}, order : Tasks, title : {"old"}, project : Projects \cup {"inbox"}, due : Days, live : {FALSE}] \cup {None}]
  /\ tasks = [t \in Tasks |-> None] /\ cached = None
  /\ fetch = Query /\ calls = {Waiting(Call("mount", None, None))}
  /\ view = "inbox" /\ content = FALSE /\ editing = None /\ drag = None /\ search = None
  /\ detail = None /\ activating = None /\ stale = TRUE /\ failures = 0

\* refreshData: the call goes on when the query that is then under way has ended.
refreshData(others, c) == calls' = others \cup {Waiting(c)} /\ fetch' = Query /\ UNCHANGED cached

FetchServed ==
  /\ fetch # None /\ fetch.at = "sent"
  /\ fetch' = [at |-> IF {c \in calls : c.at = "sent"} = {} THEN "done" ELSE "late", doc |-> Answer]
  /\ UNCHANGED <<stored, tasks, cached, calls, typed, modes, stale, failures>>

\* Those that waited go on: a closed or reopened row takes its dialog with it.
GoOn ==
  LET waited == calls \ InFlight IN
  /\ calls' = InFlight /\ fetch' = None
  /\ detail' = IF \E c \in waited : c.op \in {"close", "reopen"} /\ c.task = detail THEN None ELSE detail
  /\ activating' = IF \E c \in waited : c.op = "activate" THEN None ELSE activating

FetchEnds ==
  /\ fetch # None /\ fetch.at # "sent" /\ GoOn
  /\ tasks' = fetch.doc /\ cached' = fetch.doc
  /\ stale' = (stale /\ (InFlight # {} \/ fetch.at = "late"))
  /\ UNCHANGED <<stored, typed, view, drag, failures>>

\* A query that fails keeps its last answer, and the refresh shows that again.
FetchFails ==
  /\ failures < MaxFailures /\ failures' = failures + 1
  /\ fetch # None /\ GoOn
  /\ tasks' = IF cached = None THEN tasks ELSE cached
  /\ stale' = TRUE /\ UNCHANGED <<stored, cached, typed, view, drag>>

---------------------------------------------------------------------------
(* Gestures that send nothing *)

navigate(v) ==
  /\ Uncovered /\ v # view /\ view' = v
  /\ UNCHANGED <<stored, tasks, loads, calls, typed, drag, detail, activating, stale, failures>>
onMainInput ==
  /\ Uncovered /\ content' = ~content
  /\ UNCHANGED <<stored, tasks, loads, calls, editing, search, modes, stale, failures>>
beginInlineEdit(t) ==
  /\ OffersRow(t) /\ editing' = [task |-> t, text |-> tasks[t].title]
  /\ UNCHANGED <<stored, tasks, loads, calls, content, search, modes, stale, failures>>
cancelInlineEdit ==
  /\ editing # None /\ OffersRow(editing.task) /\ editing' = None
  /\ UNCHANGED <<stored, tasks, loads, calls, content, search, modes, stale, failures>>
typeTitle(text) ==
  /\ editing # None /\ OffersRow(editing.task) /\ editing' = [editing EXCEPT !.text = text]
  /\ UNCHANGED <<stored, tasks, loads, calls, content, search, modes, stale, failures>>
\* The shortcut opens the search over whatever is there.
openSearchModal ==
  /\ search = None /\ search' = ""
  /\ UNCHANGED <<stored, tasks, loads, calls, content, editing, modes, stale, failures>>
typeSearch(text) ==
  /\ search # None /\ ~Dialog /\ search' = text
  /\ UNCHANGED <<stored, tasks, loads, calls, content, editing, modes, stale, failures>>
closeSearchModal ==
  /\ search # None /\ search' = None
  /\ UNCHANGED <<stored, tasks, loads, calls, content, editing, modes, stale, failures>>
openDetailModal(t) ==
  /\ OffersDetails(t)
  /\ detail' = t /\ search' = None
  /\ UNCHANGED <<stored, tasks, loads, calls, content, editing, view, drag, activating, stale, failures>>
closeDetailModal ==
  /\ Dialog /\ detail' = None
  /\ UNCHANGED <<stored, tasks, loads, calls, typed, view, drag, activating, stale, failures>>

---------------------------------------------------------------------------
(* Reordering: the page shows the new order and every row of it is saved by a *)
(* call of its own.                                                           *)

onDragStart(t) ==
  /\ (OffersRow(t) \/ OffersRestore(t)) /\ drag = None /\ drag' = [from |-> t, over |-> t]
  /\ UNCHANGED <<stored, tasks, loads, calls, typed, view, detail, activating, stale, failures>>
onDragOver(t) ==
  /\ drag # None /\ (OffersRow(t) \/ OffersRestore(t)) /\ drag' = [drag EXCEPT !.over = t]
  /\ UNCHANGED <<stored, tasks, loads, calls, typed, view, detail, activating, stale, failures>>
onDragEnd ==
  /\ drag # None /\ drag' = None
  /\ UNCHANGED <<stored, tasks, loads, calls, typed, view, detail, activating, stale, failures>>

\* The i-th is taken out and put in at place j.
MovedTo(s, i, j) ==
  [k \in DOMAIN s |->
    IF k = j THEN s[i] ELSE IF i <= k /\ k < j THEN s[k+1] ELSE IF j < k /\ k <= i THEN s[k-1] ELSE s[k]]

NewOrder(t, u) ==
  LET s == Sorted(tasks, OpenIn(tasks)) IN
  MovedTo(s, CHOOSE k \in DOMAIN s : s[k] = t, CHOOSE k \in DOMAIN s : s[k] = u)

reorderTasks(t, u) ==
  LET new == NewOrder(t, u)
      places == DOMAIN new IN
  IF t = u \/ {t, u} \cap OpenIn(tasks) # {t, u} THEN UNCHANGED <<tasks, calls, stale>>
  ELSE /\ Cardinality(calls) < MaxCalls
       /\ tasks' = [v \in Tasks |-> IF \E k \in places : new[k] = v THEN [tasks[v] EXCEPT !.order = CHOOSE k \in places : new[k] = v] ELSE tasks[v]]
       /\ calls' = calls \cup {[Call("order", new[k], k) EXCEPT !.doc = new] : k \in places}
       /\ stale' = (stale \/ calls # {})

onDrop(u) ==
  /\ drag # None /\ drag.over = u /\ (OffersRow(u) \/ OffersRestore(u)) /\ drag' = None
  /\ reorderTasks(drag.from, u)
  /\ UNCHANGED <<stored, loads, typed, view, detail, activating, failures>>
Move(t, u) ==
  /\ OffersMove(t, u) /\ reorderTasks(t, u)
  /\ UNCHANGED <<stored, loads, typed, modes, failures>>

---------------------------------------------------------------------------
(* The handlers that send one call *)

Sends(c) ==
  /\ Cardinality(calls) < MaxCalls /\ c \notin calls
  /\ calls' = calls \cup {c} /\ stale' = (stale \/ calls # {})
  /\ UNCHANGED <<stored, tasks, loads, failures>>

\* In a project the text is added to that project.
addTask == Uncovered /\ content /\ Sends(Call("add", None, IF view \in Projects THEN view ELSE "inbox")) /\ UNCHANGED <<typed, modes>>
completeTask(t) == (OffersRow(t) \/ (Dialog /\ detail = t /\ t \in OpenIn(tasks))) /\ Sends(Call("close", t, None)) /\ UNCHANGED <<typed, modes>>
reopenTask(t) == (OffersRestore(t) \/ (Dialog /\ detail = t /\ t \notin OpenIn(tasks))) /\ Sends(Call("reopen", t, None)) /\ UNCHANGED <<typed, modes>>
removeTask(t) == OffersRow(t) /\ Sends(Call("remove", t, None)) /\ UNCHANGED <<typed, modes>>
saveInlineEdit ==
  /\ editing # None /\ OffersRow(editing.task) /\ editing.text # ""
  /\ Sends(Call("title", editing.task, editing.text)) /\ UNCHANGED <<typed, modes>>
makeRowTaskLive(t) ==
  /\ OffersLive(t) /\ activating' = t
  /\ Sends(Call("activate", t, None)) /\ UNCHANGED <<typed, view, drag, detail>>

\* What the service does; it knows no row that is not there.
UsedOrders == {stored[t].order : t \in {u \in Tasks : stored[u] # None}}
Last == CHOOSE n \in UsedOrders \cup {0} : \A k \in UsedOrders : k <= n
Applied(c, t) ==
  CASE c.op = "add"      -> [status |-> "open", order |-> Last + 1, title |-> "old", project |-> c.value, due |-> "none", live |-> FALSE]
    [] c.op = "close"    -> [stored[t] EXCEPT !.status = "done"]
    [] c.op = "reopen"   -> [stored[t] EXCEPT !.status = "open"]
    [] c.op = "remove"   -> [stored[t] EXCEPT !.status = "deleted"]
    [] c.op = "title"    -> [stored[t] EXCEPT !.title = c.value]
    [] c.op \in {"order", "leftover"} -> [stored[t] EXCEPT !.order = c.value]
    [] c.op = "activate" -> [stored[t] EXCEPT !.live = TRUE]

Serve(c, t) ==
  /\ c \in calls /\ c.at = "sent" /\ fetch' = Overtaken(fetch)
  /\ IF c.op = "add" THEN stored[t] = None /\ ~\E d \in calls : d.task = t ELSE t = c.task
  /\ IF c.op # "add" /\ t \notin ListedIn(stored)
     THEN calls' = (calls \ {c}) \cup {[c EXCEPT !.at = "refused"]} /\ UNCHANGED stored
     ELSE /\ stored' = [stored EXCEPT ![t] = Applied(c, t)]
          /\ calls' = (calls \ {c}) \cup {[c EXCEPT !.at = "done", !.doc = IF c.op = "title" THEN Applied(c, t) ELSE @]}
  /\ UNCHANGED <<tasks, cached, typed, modes, stale, failures>>

CallLost(c) ==
  /\ failures < MaxFailures /\ failures' = failures + 1
  /\ c \in InFlight /\ c.at # "refused"
  /\ calls' = (calls \ {c}) \cup {[c EXCEPT !.at = "refused"]}
  /\ stale' = (stale \/ c.at = "done") /\ UNCHANGED <<stored, tasks, loads, typed, modes>>

\* Fault: a title that was saved stays as it was on the page.
ShowSavedNot(c) == tasks
ShowSaved(c) ==
  [t \in Tasks |-> IF t # c.task \/ tasks[t] = None THEN tasks[t]
                   ELSE CASE c.op = "remove" -> None [] c.op = "title" -> c.doc [] OTHER -> tasks[t]]

Answered(c) ==
  /\ c \in calls /\ c.at = "done"
  /\ tasks' = ShowSaved(c)
  /\ IF c.op \in {"add", "close", "reopen", "activate"} THEN refreshData(calls \ {c}, c) ELSE calls' = calls \ {c} /\ UNCHANGED loads
  /\ content' = (content /\ c.op # "add")
  /\ editing' = IF c.op = "title" THEN None ELSE editing
  /\ detail' = IF c.op = "remove" /\ detail = c.task THEN None ELSE detail
  /\ UNCHANGED <<stored, search, view, drag, activating, stale, failures>>

\* Of the calls of one drag the first that fails is waited for: the page loads the
\* list again, whatever the others still change.
Others(c) == {d \in calls \ {c} : d.op = "order" /\ d.doc = c.doc}
Refused(c) ==
  /\ c \in calls /\ c.at = "refused"
  /\ IF c.op = "order"
     THEN /\ refreshData((calls \ ({c} \cup Others(c))) \cup {[d EXCEPT !.op = "leftover"] : d \in Others(c)}, c)
          /\ stale' = (stale \/ Others(c) # {})
     ELSE calls' = calls \ {c} /\ UNCHANGED <<loads, stale>>
  /\ activating' = IF c.op = "activate" THEN None ELSE activating
  /\ UNCHANGED <<stored, tasks, typed, view, drag, detail, failures>>

Gesture ==
  \/ onMainInput \/ cancelInlineEdit \/ openSearchModal \/ closeSearchModal \/ closeDetailModal \/ onDragEnd \/ addTask \/ saveInlineEdit
  \/ \E v \in {"inbox", "today", "upcoming"} \cup Projects : navigate(v)
  \/ \E text \in {"", "old", "new"} : typeTitle(text) \/ typeSearch(text)
  \/ \E t \in Tasks :
       \/ beginInlineEdit(t) \/ openDetailModal(t) \/ onDragStart(t) \/ onDragOver(t) \/ onDrop(t)
       \/ completeTask(t) \/ reopenTask(t) \/ removeTask(t) \/ makeRowTaskLive(t)
       \/ \E u \in Tasks : Move(t, u)
Progress ==
  \/ FetchServed \/ FetchEnds \/ FetchFails
  \/ \E c \in calls : (\E t \in Tasks : Serve(c, t)) \/ CallLost(c) \/ Answered(c) \/ Refused(c)
ListNext == Gesture \/ Progress

ListSpec == ListInit /\ [][ListNext]_listvars

---------------------------------------------------------------------------
(* The page shows rows, knows the row it shows as being activated, and waits  *)
(* for the query only while one is under way.                                 *)
ListTypeOK ==
  /\ \A t \in ListedIn(tasks) : tasks[t].status \in {"open", "done"} /\ tasks[t].order \in Nat \ {0}
  /\ detail \in Tasks \cup {None} /\ activating \in Tasks \cup {None}
  /\ \A c \in calls : c.at = "waiting" => fetch # None
  /\ drag # None => {drag.from, drag.over} \subseteq Tasks

(* When nothing is under way, and nothing overlapped since the page last      *)
(* loaded, every row it shows is as the service has it, with the order a drag *)
(* gave it; and none is missing when those there ever were fit one answer.    *)
ShowsRows ==
  calls = {} /\ fetch = None /\ ~stale =>
    /\ \A t \in ListedIn(tasks) : tasks[t] = stored[t]
    /\ Cardinality({t \in Tasks : stored[t] # None}) <= PageLimit => ListedIn(tasks) = ListedIn(stored)
=============================================================================
