---------------------------- MODULE BoardGesture ----------------------------
(* Pointer gestures on the board (BoardControllerPointer, -Lifecycle and     *)
(* -Spatial): pressing, dragging and dropping stacks, what the client lets   *)
(* merge, the stacks it moves before the server answers, and the commands it *)
(* sends to a server that is BoardStacks.  Of the geometry a move keeps what *)
(* it decides: whether the press became a drag and which stack is hinted at. *)
EXTENDS Naturals, Sequences, FiniteSets

CONSTANTS None,            \* no stack, no pointer
          FirstStacks,     \* the first board: a sequence of stacks of definitions
          Pointers,        \* fingers and mice
          MaxRefusals,     \* bound: commands the server refuses for other reasons
          MaxForeign,      \* bound: commands of other users
          MaxZ             \* bound: the last Z handed out

VARIABLES board,           \* the server's document
          shown,           \* the client's document: state()
          drag, hint, moved, pan,
          positions,       \* stacks drawn where the pointer left them: localPositions
          call,            \* the gesture's command under way; busy() while there is one
          poll,            \* a load under way: its document
          refusals, foreign,
           astray           \* history: "late" when the document shown answers a load that was
                           \* overtaken, "ghost" when it holds a merge the server refused,
                           \* "quiet" when another user's command left the version alone since

vars == <<board, shown, drag, hint, moved, pan, positions, call, poll, refusals, foreign, astray>>

Server == INSTANCE BoardStacks WITH
  Cmds <- {"stack.merge", "stack.split", "loot.collect_stack"}, SpawnDefs <- {}, DrawDefs <- {},
  RowMods <- {}, ProgressionDecks <- <<>>, MaxLeft <- 1, MaxDraws <- 0, MaxZombies <- 0, MaxCards <- 8

---------------------------------------------------------------------------
(* What the client lets merge: canMergeDraggedCardsIntoTarget over card ids. *)

\* A card the document does not have any more has no definition.
Def(c)    == IF c \in DOMAIN shown.cards THEN shown.cards[c].def ELSE "unknown"
KindOf(c) == IF c \in DOMAIN shown.cards THEN Server!KindOf(shown, c) ELSE "unknown"
Cards(s)  == shown.stacks[s].cards
IDs(cs)   == {cs[i] : i \in DOMAIN cs}
TopDef(cs) == Def(cs[Len(cs)])

isDeckLike(def) == def \in Server!DeckDefs
isCollectDeck(t) == TopDef(Cards(t)) = "deck.collect"
HaveKind(ids, kind) == \E c \in ids : KindOf(c) = kind
HaveDefID(ids, def) == \E c \in ids : Def(c) = def
HaveUnlinkedBlankTask(ids) == \E c \in ids : Def(c) = "task.blank" /\ ~shown.cards[c].linked

PutsVillagerOnLootParts(ids) == HaveKind(ids, "villager") /\ HaveDefID(ids, "loot.parts")
CombinesResourceAndBlankTask(ids) == HaveKind(ids, "resource") /\ HaveUnlinkedBlankTask(ids)
PutsModifierOnVillagerWithoutTask(ids) ==
  HaveKind(ids, "modifier") /\ HaveKind(ids, "villager") /\ ~HaveKind(ids, "task")

canMerge(t, cs) ==
  LET ids == IDs(Cards(t)) \cup IDs(cs) IN
  /\ ~PutsVillagerOnLootParts(ids) /\ ~CombinesResourceAndBlankTask(ids)
  /\ ~PutsModifierOnVillagerWithoutTask(ids)
  /\ "unknown" \notin {TopDef(cs), TopDef(Cards(t))} /\ ~isDeckLike(TopDef(cs))
  /\ isCollectDeck(t) \/ ~isDeckLike(TopDef(Cards(t)))

Clamp(cs, i) == IF i < Len(cs) THEN i ELSE Len(cs) - 1
CutAt(cs, i) == [remaining |-> SubSeq(cs, 1, i), dragged |-> SubSeq(cs, i + 1, Len(cs))]

\* Fault: index 0 takes the whole stack.
SplitEverything(cs, i) == CutAt(cs, Clamp(cs, i))

\* splitCardIDs: index 0 takes the bottom card alone.
splitCardIDs(cs, i) ==
  IF Clamp(cs, i) = 0 THEN [remaining |-> Tail(cs), dragged |-> <<cs[1]>>] ELSE CutAt(cs, Clamp(cs, i))

\* resolveMergeTarget judges by the cards on top, as many as are dragged.
trailingCardIDs(cs, count) == SubSeq(cs, IF count < Len(cs) THEN Len(cs) + 1 - count ELSE 1, Len(cs))
Targets ==
  IF drag.stack \notin DOMAIN shown.stacks THEN {}
  ELSE {t \in DOMAIN shown.stacks \ {drag.stack} :
          canMerge(t, trailingCardIDs(Cards(drag.stack), drag.count))}

---------------------------------------------------------------------------
(* The client's document *)

Placed(doc, s, stack) ==
  [doc EXCEPT !.stacks = [x \in DOMAIN doc.stacks \cup {s} |-> IF x = s THEN stack ELSE doc.stacks[x]]]
Removed(doc, s) == [doc EXCEPT !.stacks = [x \in DOMAIN doc.stacks \ {s} |-> doc.stacks[x]]]

\* Fault: the source stays where it was until the board is loaded.
Copied(doc, s, t) ==
  IF {s, t} \subseteq DOMAIN doc.stacks
  THEN Placed(doc, t, [doc.stacks[t] EXCEPT !.cards = @ \o doc.stacks[s].cards]) ELSE doc

\* The optimistic merge.
Moved(doc, s, t) ==
  IF {s, t} \subseteq DOMAIN doc.stacks
  THEN Removed(Placed(doc, t, [doc.stacks[t] EXCEPT !.cards = @ \o doc.stacks[s].cards]), s) ELSE doc

\* A command of the gesture on stack s; `lifts` is drawn apart until it has ended.  Its own
\* `astray` is history too: that of the document it was made on, and what came since.
Command(cmd, s, t, i, cards, lifts, doc) ==
  [cmd |-> cmd, at |-> "sent", stack |-> s, target |-> t, index |-> i, cards |-> cards,
   lifts |-> lifts, ver |-> doc.nextZ, retried |-> FALSE, astray |-> astray, doc |-> None, new |-> None]
NoCall == [cmd |-> "none"]
busy == call # NoCall

---------------------------------------------------------------------------
FirstBoard ==
  LET cards == [i \in 1..Len(FirstStacks) |-> Len(FirstStacks[i])]
      Before[i \in 0..Len(FirstStacks)] == IF i = 0 THEN 0 ELSE Before[i - 1] + cards[i]
      all == [c \in 1..Before[Len(FirstStacks)] |->
                LET i == CHOOSE i \in 1..Len(FirstStacks) : Before[i - 1] < c /\ c <= Before[i]
                IN  Server!New(FirstStacks[i][c - Before[i - 1]])]
  IN  Server!CreateStacks(Server!CreateCards(Server!NewState, all),
                          [i \in 1..Len(FirstStacks) |-> [k \in 1..cards[i] |-> Before[i - 1] + k]])

Press == [stack : Nat, pointer : Pointers, split : BOOLEAN, index : Nat, count : Nat]

ASSUME GestureAssumption ==
  /\ Server!WellFormed(FirstBoard) /\ Server!Ordered(FirstBoard) /\ Server!Placed(FirstBoard)
  /\ MaxZ \in Nat /\ FirstBoard.nextZ <= MaxZ /\ None \notin Pointers \cup Press

Init ==
  /\ board = FirstBoard /\ shown = board
  /\ drag = None /\ hint = None /\ moved = FALSE /\ pan = None /\ positions = {}
  /\ call = NoCall /\ poll = None /\ refusals = 0 /\ foreign = 0 /\ astray = {}

others == <<poll, refusals, foreign, astray>>

\* A pointer that is down presses nothing else.
Holder == IF drag = None THEN None ELSE drag.pointer
Up(p) == p \notin {pan, Holder}

onStackPointerDown(p, s, i) ==
  /\ ~busy /\ Up(p) /\ s \in DOMAIN shown.stacks /\ i \in DOMAIN Cards(s)
  /\ pan' = None
  /\ IF isDeckLike(TopDef(Cards(s)))
     THEN drag' = None /\ moved' = FALSE /\ UNCHANGED <<hint, positions>>
     ELSE LET split == i < Len(Cards(s)) IN
          /\ moved' = FALSE /\ hint' = None /\ positions' = positions \cup {s}
          /\ drag' = [stack |-> s, pointer |-> p, split |-> split, index |-> i - 1,
                      count |-> IF split THEN Len(splitCardIDs(Cards(s), i - 1).dragged) ELSE Len(Cards(s))]
  /\ UNCHANGED <<board, shown, call, others>>

onBoardPointerDown(p) ==
  /\ ~busy /\ Up(p) /\ pan' = p
  /\ UNCHANGED <<board, shown, drag, hint, moved, positions, call, others>>

Dragging(p) == pan # p /\ Holder = p

onPointerMove(p) ==
  /\ Dragging(p)
  /\ positions' = positions \cup {drag.stack}
  /\ moved' \in {moved, TRUE} /\ hint' \in Targets \cup {None}
  /\ UNCHANGED <<board, shown, drag, pan, call, others>>

EndPan(p) ==
  /\ pan = p /\ pan' = None
  /\ UNCHANGED <<board, shown, drag, hint, moved, positions, call, others>>

onPointerCancel(p) ==
  /\ Holder = p /\ drag' = None /\ hint' = None /\ moved' = FALSE
  /\ positions' = positions \ {drag.stack} /\ pan' = IF pan = p THEN None ELSE pan
  /\ UNCHANGED <<board, shown, call, others>>

---------------------------------------------------------------------------
(* onPointerUp, by how the press ended *)

Released(p) == Dragging(p) /\ drag' = None /\ hint' = None /\ UNCHANGED <<board, moved, pan, others>>
Source == IF drag.stack \in DOMAIN shown.stacks THEN Cards(drag.stack) ELSE <<>>

\* Fault: a press on a card inside a stack keeps its drawn position.
LiftedForEver(p) ==
  Released(p) /\ drag.split /\ ~moved /\ UNCHANGED <<positions, shown, call>>

\* A press that did not move opens the detail or the pack.
ClickInside(p) ==
  Released(p) /\ drag.split /\ ~moved /\ positions' = positions \ {drag.stack} /\ UNCHANGED <<shown, call>>

DropSplit(p) ==
  /\ Released(p) /\ drag.split /\ moved /\ UNCHANGED <<shown, positions>>
  /\ call' = Command("split", drag.stack, IF hint = drag.stack THEN None ELSE hint, drag.index,
                     IF Source = <<>> THEN {} ELSE IDs(splitCardIDs(Source, drag.index).dragged),
                     drag.stack, shown)

Takes(t, cs) == t \in DOMAIN shown.stacks /\ cs # <<>> /\ canMerge(t, cs)

\* hint is judged again, with the document shown by now.
DropOnStack(p) ==
  /\ Released(p) /\ ~drag.split /\ hint # None /\ Takes(hint, Source)
  /\ positions' = positions \ {drag.stack}
  /\ IF isCollectDeck(hint)
     THEN /\ shown' = Removed(shown, drag.stack)
          /\ call' = Command("collect", drag.stack, None, 0, IDs(Source), None, shown)
     ELSE /\ shown' = Moved(shown, drag.stack, hint)
          /\ call' = Command("merge", drag.stack, hint, 0, IDs(Source), None, shown)

DropOnBoard(p) ==
  /\ Released(p) /\ ~drag.split /\ (hint = None \/ ~Takes(hint, Source))
  /\ UNCHANGED shown
  /\ IF moved
     THEN call' = Command("move", drag.stack, None, 0, {}, drag.stack, shown) /\ UNCHANGED positions
     ELSE positions' = positions \ {drag.stack} /\ UNCHANGED call

onPointerUp(p) == ClickInside(p) \/ DropSplit(p) \/ DropOnStack(p) \/ DropOnBoard(p)

---------------------------------------------------------------------------
(* The server, and what the client does with its answers *)

gesturing == <<drag, hint, moved, pan, foreign>>

Runs ==
  CASE call.cmd = "split"   -> Server!StackSplit(call.stack, call.index)
    [] call.cmd = "merge"   -> call.target \in DOMAIN board.stacks /\ Server!StackMerge(call.target, call.stack)
    [] call.cmd = "collect" -> Server!LootCollectStack(call.stack)
    [] call.cmd = "move"    -> Server!StackBringToFront(call.stack)

Serve ==
  /\ busy /\ call.at = "sent" /\ UNCHANGED <<shown, positions, poll, astray, gesturing>>
  /\ \/ /\ call.ver # board.nextZ /\ UNCHANGED <<board, refusals>>
        /\ call' = [call EXCEPT !.at = "conflict"]
     \/ /\ call.ver = board.nextZ /\ call.stack \in DOMAIN board.stacks /\ Runs /\ UNCHANGED refusals
        /\ LET new == DOMAIN board'.stacks \ DOMAIN board.stacks IN
           call' = [call EXCEPT !.at = "ok", !.doc = board', !.new = IF new = {} THEN None ELSE CHOOSE n \in new : TRUE]
     \/ /\ call.stack \notin DOMAIN board.stacks \/ refusals < MaxRefusals
        /\ refusals' = IF call.stack \notin DOMAIN board.stacks THEN refusals ELSE refusals + 1
        /\ call' = [call EXCEPT !.at = "refused"] /\ UNCHANGED board

Ends == call' = NoCall /\ positions' = positions \ {call.lifts}
Answered(at) == busy /\ call.at = at /\ UNCHANGED <<board, poll, refusals, gesturing>>

\* The patch of a split, and the second command of a split that was dropped on a stack.
SplitAnswered ==
  /\ Answered("ok") /\ call.cmd = "split" /\ astray' = astray \cup (call.astray \cap {"quiet"})
  /\ LET kept == IF call.stack \in DOMAIN call.doc.stacks
                 THEN Placed(shown, call.stack, call.doc.stacks[call.stack]) ELSE Removed(shown, call.stack)
         patched == [Placed(kept, call.new, call.doc.stacks[call.new]) EXCEPT !.nextZ = call.doc.nextZ]
         cs == call.doc.stacks[call.new].cards
         t  == call.target IN
     IF t \in DOMAIN shown.stacks /\ canMerge(t, cs)
     THEN /\ UNCHANGED positions
          /\ IF isCollectDeck(t)
             THEN /\ shown' = Removed(patched, call.new)
                  /\ call' = Command("collect", call.new, None, 0, IDs(cs), call.lifts, patched)
             ELSE /\ shown' = Moved(patched, call.new, t)
                  /\ call' = Command("merge", call.new, t, 0, IDs(cs), call.lifts, patched)
     ELSE shown' = patched /\ Ends

MoveAnswered == Answered("ok") /\ call.cmd = "move" /\ Ends /\ UNCHANGED astray
                /\ shown' = [shown EXCEPT !.nextZ = call.doc.nextZ]

\* After a merge or a collect, and before the one retry, the board is loaded.
LoadStarts ==
  \/ /\ Answered("ok") /\ call.cmd \in {"merge", "collect"} /\ UNCHANGED <<positions, astray>>
     /\ shown' = [shown EXCEPT !.nextZ = call.doc.nextZ]
     /\ call' = [call EXCEPT !.at = "refreshing", !.doc = board, !.astray = {}]
  \/ /\ Answered("conflict") /\ ~call.retried /\ UNCHANGED <<positions, shown, astray>>
     /\ call' = [call EXCEPT !.at = "reloading", !.doc = board, !.astray = {}]

Refreshed == Answered("refreshing") /\ shown' = call.doc /\ astray' = call.astray /\ Ends
Reloaded ==
  /\ Answered("reloading") /\ shown' = call.doc /\ astray' = call.astray /\ UNCHANGED positions
  /\ call' = [call EXCEPT !.at = "sent", !.ver = call.doc.nextZ, !.retried = TRUE]
Throws == (Answered("refused") \/ (Answered("conflict") /\ call.retried)) /\ Ends /\ UNCHANGED shown
          /\ astray' = IF call.cmd \in {"merge", "collect"} THEN astray \cup {"ghost"} ELSE astray

PollServed ==
  /\ poll = None /\ poll' = board
  /\ UNCHANGED <<board, shown, positions, call, refusals, astray, gesturing>>

PollShown ==
  /\ poll # None /\ poll' = None /\ shown' = poll
  /\ astray' = IF poll = board THEN {} ELSE {"late"}
  /\ UNCHANGED <<board, positions, call, refusals, gesturing>>

OtherUser ==
  /\ foreign < MaxForeign /\ foreign' = foreign + 1
  /\ \/ \E s, t \in DOMAIN board.stacks : s # t /\ Server!StackMerge(t, s)
     \/ \E s \in DOMAIN board.stacks, i \in 0..8 : Server!StackSplit(s, i)
  /\ LET quiet == IF board'.nextZ = board.nextZ THEN {"quiet"} ELSE {} IN
     /\ astray' = astray \cup quiet
     /\ call' = IF busy THEN [call EXCEPT !.astray = @ \cup quiet] ELSE call
  /\ UNCHANGED <<shown, drag, hint, moved, pan, positions, poll, refusals>>

Next ==
  \/ \E p \in Pointers, s \in DOMAIN shown.stacks, i \in 1..8 : onStackPointerDown(p, s, i)
  \/ \E p \in Pointers : onBoardPointerDown(p) \/ onPointerMove(p) \/ onPointerUp(p) \/ EndPan(p) \/ onPointerCancel(p)
  \/ Serve \/ SplitAnswered \/ MoveAnswered \/ LoadStarts \/ Refreshed \/ Reloaded \/ Throws
  \/ PollServed \/ PollShown \/ OtherUser

Spec == Init /\ [][Next]_vars

---------------------------------------------------------------------------
(* Both documents are documents, and a press, a hint and a command name      *)
(* stacks of one of them or ones that have gone (Core:171-175).              *)
TypeOK ==
  /\ \A doc \in {board, shown} :
       \A s \in DOMAIN doc.stacks : doc.stacks[s].cards # <<>> /\ IDs(doc.stacks[s].cards) \subseteq DOMAIN FirstBoard.cards
  /\ moved \in BOOLEAN /\ pan \in Pointers \cup {None} /\ positions \subseteq 0..MaxZ /\ hint \in 0..MaxZ \cup {None}

(* Nothing stays drawn away from its place: with no press and no command     *)
(* under way no stack has a position of its own, whichever way the gesture   *)
(* ended (Spatial:212, Lifecycle:386, 486).                                  *)
NothingLeftLifted == drag = None /\ ~busy => positions = {}

(* With one user a card is never shown in two places, whatever is refused,   *)
(* retried or split, unless the answer of a load was overtaken by a command  *)
(* (Data:613 shows it all the same) and a split's patch lands on it.         *)
CardsShownOnce ==
  /\ TypeOK
  /\ foreign = 0 /\ "late" \notin astray => \A s, t \in DOMAIN shown.stacks :
       /\ Cardinality(IDs(Cards(s))) = Len(Cards(s))
       /\ s # t => IDs(Cards(s)) \cap IDs(Cards(t)) = {}

(* A split accepted at the first attempt moves the cards the user dragged:   *)
(* splitCardIDs and the server's split agree, and the version check keeps    *)
(* the index from meaning other cards after another user's command, unless   *)
(* the gesture was made on a document that had gone astray or that command   *)
(* leaves nextZ alone (food.consume).                                        *)
SplitTakesWhatWasDragged ==
  busy /\ call.cmd = "split" /\ call.at = "ok" /\ ~call.retried /\ call.astray = {}
    => IDs(call.doc.stacks[call.new].cards) = call.cards
=============================================================================
