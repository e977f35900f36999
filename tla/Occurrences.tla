---------------------------- MODULE Occurrences ----------------------------
(***************************************************************************)
(* What the task list promises of repeating tasks, without requests,       *)
(* transactions or rules: finishing an open task may open one next         *)
(* occurrence in the same step, and nothing else opens one.                *)
(***************************************************************************)
EXTENDS Integers, FiniteSets

CONSTANT Places         \* the places a task can be written at

VARIABLE tasks          \* place |-> what stands there

Statuses == {"open", "finished", "dropped"}

\* done counts finishings, from is the task this one is the next occurrence of.
Item == [status : Statuses, done : Nat, from : Places \cup {0}]
NewItem(r) == [status |-> "open", done |-> 0, from |-> r]

Init == tasks = <<>>

Write(new, item) ==
  [p \in DOMAIN tasks \cup {new} |-> IF p = new THEN item ELSE tasks[p]]

As(r, status, done) == [status |-> status, done |-> done, from |-> tasks[r].from]
Finished(r) == As(r, "finished", tasks[r].done + 1)

Add == \E new \in Places \ DOMAIN tasks : tasks' = Write(new, NewItem(0))

Finish(r) ==
  /\ tasks[r].status = "open"
  /\ tasks' = [tasks EXCEPT ![r] = Finished(r)]

FinishAndRenew(r) ==
  /\ tasks[r].status = "open"
  /\ \E new \in Places \ DOMAIN tasks :
       tasks' = [p \in DOMAIN tasks \cup {new} |->
                   IF p = new THEN NewItem(r)
                   ELSE IF p = r THEN Finished(r) ELSE tasks[p]]

Reopen(r) ==
  /\ tasks[r].status = "finished"
  /\ tasks' = [tasks EXCEPT ![r] = As(r, "open", tasks[r].done)]

Drop(r) ==
  /\ tasks[r].status # "dropped"
  /\ tasks' = [tasks EXCEPT ![r] = As(r, "dropped", tasks[r].done)]

Next ==
  \/ Add
  \/ \E r \in DOMAIN tasks :
       Finish(r) \/ FinishAndRenew(r) \/ Reopen(r) \/ Drop(r)

Spec == Init /\ [][Next]_tasks

-----------------------------------------------------------------------------
TypeOK ==
  /\ DOMAIN tasks \subseteq Places
  /\ tasks \in [DOMAIN tasks -> Item]

Renewals(r) == {s \in DOMAIN tasks : tasks[s].from = r}

\* Every next occurrence was paid for by a finishing of the task before it:
\* however often a task is reopened, it never has more of them than finishings.
PaidFor ==
  \A r \in DOMAIN tasks : Cardinality(Renewals(r)) <= tasks[r].done
=============================================================================
