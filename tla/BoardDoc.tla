------------------------------ MODULE BoardDoc ------------------------------
(***************************************************************************)
(* The board document as requests see it: its version, the gestures it has *)
(* taken in, the tasks that have a card on it, and the store receipts.     *)
(* What cards and stacks a command moves is in BoardStacks.                *)
(***************************************************************************)
EXTENDS Integers

CONSTANTS Gestures,   \* one user gesture in one browser tab: one command
          KindOf,       \* gesture |-> what its command does
          Target,       \* gesture that completes a task |-> the task
          Tasks,        \* tasks on the board at the start
          Sessions      \* paid checkout sessions

\* place: creates or raises a stack, which counts nextZ up (stack.merge, ...).
\* edit: leaves nextZ alone (stack.move, stack.remove, task.set_title, ...).
\* create: task.create_blank.  complete: task.complete_stack.
Kinds == {"place", "edit", "create", "complete"}

ASSUME GesturesAssumption ==
  /\ KindOf \in [Gestures -> Kinds]
  /\ Target \in [Gestures -> Tasks]
  /\ Gestures \cap Tasks = {}

\* A gesture that creates a task names the row it creates.
Rows == Tasks \cup Gestures

Doc == [version : Nat, times : [Gestures -> Nat], cards : SUBSET Rows,
        receipts : SUBSET Sessions, goods : [Sessions -> Nat]]

FirstDoc == [version |-> 10, times |-> [g \in Gestures |-> 0], cards |-> Tasks,
             receipts |-> {}, goods |-> [s \in Sessions |-> 0]]

\* Fault: the command raises no stack to a new Z.
BumpsOfNothing(g) == {0}

\* How far the command counts nextZ up.  Completing a stack makes new stacks of
\* the cards that stay and of the rewards, if there are any.
Bumps(g) ==
  CASE KindOf[g] \in {"place", "create"} -> {1}
    [] KindOf[g] = "edit"     -> {0}
    [] KindOf[g] = "complete" -> {0, 1}

\* The gesture's cards: stack not found is an error.
Possible(doc, g) == KindOf[g] = "complete" => Target[g] \in doc.cards

Effect(doc, g, bump) ==
  [version  |-> doc.version + bump,
   times    |-> [doc.times EXCEPT ![g] = @ + 1],
   cards    |-> CASE KindOf[g] = "create"   -> doc.cards \cup {g}
                  [] KindOf[g] = "complete" -> doc.cards \ {Target[g]}
                  [] OTHER -> doc.cards,
   receipts |-> doc.receipts,
   goods    |-> doc.goods]

\* The stacks an item brings: a coin stash none, a pack or a contract one, the
\* modifier bundle four.
Delivered == {0, 1, 4}

\* applyStoreItemGrant and the receipt.
Granted(doc, s, bump) ==
  [version  |-> doc.version + bump,
   times    |-> doc.times,
   cards    |-> doc.cards,
   receipts |-> doc.receipts \cup {s},
   goods    |-> [doc.goods EXCEPT ![s] = @ + 1]]
=============================================================================
