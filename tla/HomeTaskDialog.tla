---------------------------- MODULE HomeTaskDialog ----------------------------
(* The task dialog of the home page of one browser tab (HomeController,       *)
(* HomeTaskDetailModal and SectionPicker): a save is two calls in a row, of   *)
(* which the second reads the dialog again; the board's preview, activations  *)
(* and the lists of sections answer whenever they do.  Every task is in a     *)
(* project; dates, labels and texts go the way of the priority.               *)
EXTENDS Naturals, FiniteSets

CONSTANTS
  Tasks,
  Projects, Boards,   \* the tasks of Boards can go live
  Names,              \* the sections of a project
  Priorities,
  Slots, MaxFailures, \* bounds: saves at a time, lost calls
  None

Sections == [project : Projects, name : Names]

VARIABLES
  rows,        \* the rows of the service: project, section, prio, live
  exists,      \* the sections there are
  tasks,       \* the rows the page has
  detail,      \* the task of the dialog, or None
  form,        \* the project, the section, the priority, and the project the title names
  preview,     \* what the board said of the task: which and whether it is live; or None
  sections,    \* the sections the picker offers
  loading,     \* whether it says that it loads them
  asks,        \* the previews and activations under way
  lists,       \* the calls of the picker under way
  saves,       \* the save in each slot, or None
  activated,   \* the tasks that were activated
  crossed,     \* whether an answer reached the dialog of another task
  mixed,       \* whether two lists of sections were under way at a time
  failures

vars == <<rows, exists, tasks, detail, form, preview, sections, loading, asks, lists, saves, activated, crossed, mixed, failures>>
service == <<rows, exists>>
dialog == <<detail, form, preview>>
picker == <<sections, loading>>
history == <<activated, crossed, mixed>>

---------------------------------------------------------------------------
(* What is under way *)

Ask(op, t) == [op |-> op, task |-> t, at |-> "sent", live |-> FALSE]
List(p, new) == [project |-> p, new |-> new, at |-> "sent", items |-> {}, shown |-> TRUE]
Disturbed == [s \in Slots |-> IF saves[s] # None THEN [saves[s] EXCEPT !.clean = FALSE] ELSE None]

Sends(list) == lists' = lists \cup {list} /\ mixed' = (mixed \/ lists # {})

\* A picker that is no longer shown still answers to the dialog.
Hidden == {[l EXCEPT !.shown = FALSE] : l \in lists}

Init ==
  /\ rows \in [Tasks -> [project : Projects, section : Sections \cup {None}, prio : Priorities, live : {FALSE}]]
  /\ exists \in SUBSET Sections
  /\ \A t \in Tasks : rows[t].section # None => rows[t].section \in exists /\ rows[t].section.project = rows[t].project
  /\ tasks = rows /\ detail = None
  /\ form = [project |-> None, section |-> None, prio |-> None, title |-> None]
  /\ preview = None /\ sections = {} /\ loading = FALSE /\ asks = {} /\ lists = {} /\ saves = [s \in Slots |-> None]
  /\ activated = {} /\ crossed = FALSE /\ mixed = FALSE /\ failures = 0

---------------------------------------------------------------------------
(* Gestures *)

openDetailModal(t) ==
  /\ detail = None /\ detail' = t
  /\ form' = [project |-> tasks[t].project, section |-> tasks[t].section, prio |-> tasks[t].prio, title |-> None]
  /\ preview' = None
  /\ asks' = IF tasks[t].project \in Boards THEN asks \cup {Ask("preview", t)} ELSE asks
  /\ Sends(List(tasks[t].project, None)) /\ sections' = {} /\ loading' = TRUE /\ saves' = Disturbed
  /\ UNCHANGED <<service, tasks, activated, crossed, failures>>

closeDetailModal ==
  /\ detail # None /\ detail' = None /\ preview' = None
  /\ lists' = Hidden /\ saves' = Disturbed
  /\ UNCHANGED <<service, tasks, form, picker, asks, history, failures>>

\* Another project has sections of its own, which are loaded.
selectProject(p) ==
  /\ detail # None /\ p # form.project
  /\ form' = [form EXCEPT !.project = p, !.section = None]
  /\ Sends(List(p, None)) /\ loading' = TRUE /\ saves' = Disturbed
  /\ UNCHANGED <<service, tasks, detail, preview, sections, asks, activated, crossed, failures>>

Edit(f) ==
  /\ detail # None /\ form' = f /\ form' # form /\ saves' = Disturbed
  /\ UNCHANGED <<service, tasks, detail, preview, picker, asks, lists, history, failures>>
setDetailSectionId(s) == ~loading /\ (s = None \/ s \in sections) /\ Edit([form EXCEPT !.section = s])
setDetailPriority(p) == Edit([form EXCEPT !.prio = p])
setDetailContent(p) == Edit([form EXCEPT !.title = p])

createSection(n) ==
  /\ detail # None /\ ~loading /\ ~\E l \in lists : l.new # None /\ l.shown
  /\ Sends(List(form.project, [project |-> form.project, name |-> n])) /\ saves' = Disturbed
  /\ UNCHANGED <<service, tasks, dialog, picker, asks, activated, crossed, failures>>

makeDetailTaskLive ==
  /\ detail # None /\ tasks[detail].project \in Boards /\ preview # None /\ ~preview.live
  /\ ~\E a \in asks : a.op = "activate" /\ a.task = detail
  /\ asks' = asks \cup {Ask("activate", detail)} /\ saves' = Disturbed
  /\ UNCHANGED <<service, tasks, dialog, picker, lists, history, failures>>

\* Nothing keeps a second save from starting while one is under way.
saveWithSection ==
  /\ detail # None /\ \E s \in Slots : saves[s] = None
  /\ LET free == CHOOSE s \in Slots : saves[s] = None
         clean == /\ \A s \in Slots : saves[s] = None
                  /\ tasks[detail] = rows[detail] /\ ~\E a \in asks : a.op = "activate"
         save == [task |-> detail, step |-> "place", at |-> "sent", row |-> None,
                  project |-> form.project, section |-> form.section, prio |-> None, title |-> None, live |-> FALSE,
                  typed |-> form, was |-> rows[detail].live, clean |-> clean] IN
     saves' = [Disturbed EXCEPT ![free] = save]
  /\ UNCHANGED <<service, tasks, dialog, picker, asks, lists, history, failures>>

---------------------------------------------------------------------------
(* Previews and activations: task.activate *)

ServeAsk(a) ==
  /\ a \in asks /\ a.at = "sent"
  /\ rows' = IF a.op = "activate" THEN [rows EXCEPT ![a.task].live = TRUE] ELSE rows
  /\ activated' = IF a.op = "activate" THEN activated \cup {a.task} ELSE activated
  /\ asks' = (asks \ {a}) \cup {[a EXCEPT !.at = "done", !.live = rows'[a.task].live]}
  /\ UNCHANGED <<exists, tasks, dialog, picker, lists, saves, crossed, mixed, failures>>

\* Fault: the answer to an earlier dialog is shown in this one.
PreviewedUnguarded(a) ==
  /\ a \in asks /\ a.op = "preview" /\ a.at = "done" /\ asks' = asks \ {a}
  /\ preview' = [task |-> a.task, live |-> a.live]
  /\ UNCHANGED <<service, tasks, detail, form, picker, lists, saves, history, failures>>
Previewed(a) ==
  /\ a \in asks /\ a.op = "preview" /\ a.at = "done" /\ asks' = asks \ {a}
  /\ preview' = IF detail = a.task THEN [task |-> a.task, live |-> a.live] ELSE preview
  /\ UNCHANGED <<service, tasks, detail, form, picker, lists, saves, history, failures>>

\* The preview is shown in whatever dialog is open, and the page loads its rows.
Activated(a) ==
  /\ a \in asks /\ a.op = "activate" /\ a.at = "done" /\ asks' = asks \ {a}
  /\ preview' = [task |-> a.task, live |-> a.live]
  /\ tasks' = rows /\ crossed' = (crossed \/ detail # a.task)
  /\ UNCHANGED <<service, detail, form, picker, lists, saves, activated, mixed, failures>>

---------------------------------------------------------------------------
(* The picker of sections *)

\* The new section is made, then the sections of its project are read.
ServeList(l) ==
  /\ l \in lists /\ l.at = "sent"
  /\ exists' = IF l.new = None THEN exists ELSE exists \cup {l.new}
  /\ lists' = (lists \ {l}) \cup {[l EXCEPT !.at = "done", !.items = {s \in exists' : s.project = l.project}]}
  /\ UNCHANGED <<rows, tasks, dialog, picker, asks, saves, history, failures>>

Listed(l) ==
  /\ l \in lists /\ l.at = "done" /\ lists' = lists \ {l}
  /\ sections' = IF l.shown THEN l.items ELSE sections
  /\ form' = [form EXCEPT !.section = IF l.new # None THEN l.new ELSE IF @ \in l.items THEN @ ELSE None]
  /\ loading' = (loading /\ ~l.shown)
  /\ UNCHANGED <<service, tasks, detail, preview, asks, saves, history, failures>>

---------------------------------------------------------------------------
(* A save: the placement, which the service refuses when the section is not   *)
(* one of the project, then the rest of the form.                             *)

Set(s, v) == [saves EXCEPT ![s] = v]
Sending(s) == saves[s] # None /\ saves[s].at = "sent"

ServePlace(s) ==
  LET j == saves[s] IN
  /\ Sending(s) /\ j.step = "place"
  /\ IF j.section # None /\ (j.section \notin exists \/ j.section.project # j.project)
     THEN saves' = Set(s, [j EXCEPT !.at = "refused"]) /\ UNCHANGED rows
     ELSE /\ rows' = [rows EXCEPT ![j.task].project = j.project, ![j.task].section = j.section]
          /\ saves' = Set(s, [j EXCEPT !.at = "done", !.row = rows'[j.task]])
  /\ UNCHANGED <<exists, tasks, dialog, picker, asks, lists, history, failures>>

\* A task of a board stays live when the dialog shows it as live.
KeepsLive(list, project) == project \in Boards /\ ((detail # None /\ list[detail].live) \/ (preview # None /\ preview.live))
\* Fault: the project the title names is not used.
PatchOfForm(list, j) ==
  [j EXCEPT !.step = "patch", !.at = "sent", !.project = form.project, !.prio = form.prio, !.live = KeepsLive(list, form.project)]
Patch(list, j) ==
  LET project == IF j.title # None THEN j.title ELSE form.project IN
  [j EXCEPT !.step = "patch", !.at = "sent", !.project = project, !.prio = form.prio, !.live = KeepsLive(list, project)]

\* The second half saves the task the dialog has then, and none when it is closed; a
\* title that names a project is parsed first.
Placed(s) ==
  LET j == saves[s] IN
  /\ saves[s] # None /\ j.step = "place" /\ j.at = "done"
  /\ tasks' = [tasks EXCEPT ![j.task] = j.row]
  /\ saves' = Set(s, IF detail = None THEN None
                     ELSE LET k == [j EXCEPT !.task = detail, !.title = form.title] IN
                          IF form.title # None THEN [k EXCEPT !.step = "parse"] ELSE Patch(tasks', k))
  /\ UNCHANGED <<service, dialog, picker, asks, lists, history, failures>>

Parsed(s) ==
  LET j == saves[s] IN
  /\ saves[s] # None /\ j.step = "parse" /\ saves' = Set(s, Patch(tasks, j))
  /\ crossed' = (crossed \/ detail # j.task)
  /\ UNCHANGED <<service, tasks, dialog, picker, asks, lists, activated, mixed, failures>>

\* The labels are replaced, the section stays.
ServePatch(s) ==
  LET j == saves[s] IN
  /\ Sending(s) /\ j.step = "patch"
  /\ rows' = [rows EXCEPT ![j.task].project = j.project, ![j.task].prio = j.prio, ![j.task].live = j.live]
  /\ saves' = Set(s, [j EXCEPT !.at = "done"])
  /\ UNCHANGED <<exists, tasks, dialog, picker, asks, lists, history, failures>>

\* The page loads its rows, and closes whichever dialog is open.
Saved(s) ==
  /\ saves[s] # None /\ saves[s].step = "patch" /\ saves[s].at = "done"
  /\ saves' = Set(s, None) /\ tasks' = rows /\ detail' = None /\ preview' = None /\ lists' = Hidden
  /\ UNCHANGED <<service, form, picker, asks, history, failures>>

Refused(s) ==
  /\ saves[s] # None /\ saves[s].at = "refused" /\ saves' = Set(s, None)
  /\ UNCHANGED <<service, tasks, dialog, picker, asks, lists, history, failures>>

\* A call that is lost changes nothing on the page but its error.
Lost ==
  /\ failures < MaxFailures /\ failures' = failures + 1
  /\ \/ \E a \in asks : asks' = asks \ {a} /\ UNCHANGED <<picker, lists, saves>>
     \/ \E l \in lists : /\ lists' = lists \ {l} /\ UNCHANGED <<asks, saves>>
                          /\ IF l.shown THEN sections' = {} /\ loading' = FALSE ELSE UNCHANGED picker
     \/ \E s \in Slots : saves[s] # None /\ saves' = Set(s, None) /\ UNCHANGED <<asks, picker, lists>>
  /\ UNCHANGED <<service, tasks, dialog, history>>

Gesture ==
  \/ closeDetailModal \/ makeDetailTaskLive \/ saveWithSection
  \/ \E t \in Tasks : openDetailModal(t)
  \/ \E p \in Projects : selectProject(p)
  \/ \E p \in Projects \cup {None} : setDetailContent(p)
  \/ \E s \in Sections \cup {None} : setDetailSectionId(s)
  \/ \E p \in Priorities : setDetailPriority(p)
  \/ \E n \in Names : createSection(n)
Progress ==
  \/ Lost
  \/ \E a \in asks : ServeAsk(a) \/ Previewed(a) \/ Activated(a)
  \/ \E l \in lists : ServeList(l) \/ Listed(l)
  \/ \E s \in Slots : ServePlace(s) \/ Placed(s) \/ Parsed(s) \/ ServePatch(s) \/ Saved(s) \/ Refused(s)
Next == Gesture \/ Progress

Spec == Init /\ [][Next]_vars

---------------------------------------------------------------------------
(* The dialog has a form for its task, and sections that exist.               *)
TypeOK ==
  /\ detail \in Tasks \cup {None} /\ sections \subseteq exists
  /\ detail # None => form.project \in Projects /\ form.section \in Sections \cup {None} /\ form.prio \in Priorities

(* The board's answer that the dialog shows is about the task of the dialog,  *)
(* unless an activation was left for another task before it was answered.     *)
PreviewOfShownTask == detail # None /\ preview # None /\ ~crossed => preview.task = detail

(* Only a task that was activated is live: saving the dialog keeps the mark   *)
(* of a live task and gives it to no other, as long as no answer reached the  *)
(* dialog of another task.                                                    *)
LiveOnlyWhenActivated == ~crossed => {t \in Tasks : rows[t].live} \subseteq activated

(* A save that nothing came between leaves in the row what the form said when *)
(* the button was pressed: its project or the one the title names, its        *)
(* section, its priority, and a live task of a board stays live.              *)
SaveKeepsForm ==
  \A s \in Slots : saves[s] # None /\ saves'[s] = None /\ saves[s].step = "patch" /\ saves[s].at = "done" /\ saves[s].clean =>
       LET typed == saves[s].typed
           row == rows[saves[s].task] IN
       /\ row.project = IF typed.title # None THEN typed.title ELSE typed.project
       /\ row.section = typed.section /\ row.prio = typed.prio
       /\ saves[s].was /\ row.project \in Boards => row.live
SavesWhatWasTyped == [][SaveKeepsForm]_vars

(* A list of sections never takes a section of the project away from the      *)
(* dialog, as long as no two lists were under way at a time.                  *)
ListKeepsSection ==
  detail # None /\ detail' = detail /\ lists' # lists /\ ~mixed /\ form.section # None /\ form'.project = form.project
       => (form.section.project = form.project => form'.section # None)
SectionStays == [][ListKeepsSection]_vars
=============================================================================
