---------------------------- MODULE BoardStacks ----------------------------
(***************************************************************************)
(* The structure of a board: internal/board/state.go (the document and its *)
(* stack operations), validate.go (which stacks may meet) and, of every    *)
(* command of service.go and service_0*.go, what it does to cards and      *)
(* stacks.  One action is one successful command; a command that returns   *)
(* an error is not saved, so it changes nothing and has no action.         *)
(*                                                                         *)
(* Abstractions.  A card is its definition, whether it is linked to a row  *)
(* of the task list, and how many charges or portions it has left.         *)
(* Positions are left out: stack.move changes nothing here, and which      *)
(* stacks lie where a reward lands is a free choice.  Stamina, currency    *)
(* and deck locks can make a command fail; here they never do, which only  *)
(* adds behaviours.  Identifiers are uuids in the code; here a card's is   *)
(* its serial number and a stack's is the Z it is born with, both fresh.   *)
(***************************************************************************)
EXTENDS Integers, Sequences, FiniteSets, Functions

CONSTANTS Cmds,              \* the commands a run exercises
          SpawnDefs,         \* definitions clients ask card.spawn for
          DrawDefs,          \* definitions in draw pools, rewards and bundles
          RowMods,           \* modifiers task rows and clients call for
          ProgressionDecks,  \* gameplay config: decks that appear after day one
          MaxLeft,           \* bound: charges or portions of a new card
          MaxDraws,          \* bound: cards created at once by a pack or a bundle
          MaxZombies,        \* world.day_tick.max_zombies_spawn_per_day
          MaxZ,              \* bound: the last Z handed out
          MaxCards           \* bound: cards ever created

TaskDefs == {"task.blank", "task.instance"}
ModDefs  == {"mod.next_action", "mod.deadline_pin", "mod.recurring"}
LootDefs == {"loot.coin", "loot.parts"}
PackDefs == {"deck.first_day_pack", "deck.organization_pack"}
DeckDefs == PackDefs \cup {"deck.first_day", "deck.collect", "deck.organization"}
Defs == TaskDefs \cup ModDefs \cup LootDefs \cup DeckDefs \cup
        {"villager.basic", "resource.tree", "food.apple", "zombie.default_zombie"}

ASSUME BoundsAssumption ==
  /\ SpawnDefs \subseteq Defs /\ DrawDefs \subseteq Defs
  /\ RowMods \subseteq ModDefs
  /\ ProgressionDecks \in Seq(DeckDefs)
  /\ MaxLeft \in Nat \ {0}
  /\ MaxDraws \in Nat
  /\ MaxZombies \in Nat
  /\ MaxZ \in Nat
  /\ MaxCards \in Nat

\* cardKind and validationKind: the part of a definition before its dot.
Kind == [d \in Defs |->
           CASE d \in TaskDefs -> "task"
             [] d \in ModDefs  -> "modifier"
             [] d \in LootDefs -> "loot"
             [] d \in DeckDefs -> "deck"
             [] d = "villager.basic" -> "villager"
             [] d = "resource.tree"  -> "resource"
             [] d = "food.apple"     -> "food"
             [] d = "zombie.default_zombie" -> "zombie"]

Card == [def : Defs, linked : BOOLEAN, left : 1..MaxLeft]

New(d) == [def |-> d, linked |-> FALSE, left |-> 1]

\* The cards a command may create from a definition.
Fresh(d) ==
  IF Kind[d] \in {"resource", "food"}
    THEN {[New(d) EXCEPT !.left = n] : n \in 1..MaxLeft}
    ELSE {New(d)}

VARIABLE board

-----------------------------------------------------------------------------
(* The State document, internal/board/state.go *)

NewState == [cards |-> <<>>, stacks |-> <<>>, nextZ |-> 10, nextCard |-> 0]

CardsOf(b, s)  == Range(b.stacks[s].cards)
KindOf(b, c)   == Kind[b.cards[c].def]
Top(b, s)      == b.cards[b.stacks[s].cards[Len(b.stacks[s].cards)]]
Has(b, s, k)   == \E c \in CardsOf(b, s) : KindOf(b, c) = k
HasDef(b, s, d) == \E c \in CardsOf(b, s) : b.cards[c].def = d
Pure(b, s, k)  == \A c \in CardsOf(b, s) : KindOf(b, c) = k

\* The cards of cs at the positions I, in their order: the filter loops.
Keep(cs, I) ==
  [k \in 1..Cardinality(I) |->
     cs[CHOOSE i \in I : Cardinality({j \in I : j <= i}) = k]]

\* Fault: CreateStack reads the next Z without counting it up between stacks.
CreateStacksAtOneZ(b, css) ==
  [cards  |-> b.cards,
   stacks |-> [s \in DOMAIN b.stacks \cup (b.nextZ + 1)..(b.nextZ + Len(css)) |->
                 IF s > b.nextZ THEN [cards |-> css[s - b.nextZ], z |-> b.nextZ + 1]
                                ELSE b.stacks[s]],
   nextZ  |-> b.nextZ + Len(css),
   nextCard |-> b.nextCard]

\* CreateStack for each sequence of card ids in css, in turn.
CreateStacks(b, css) ==
  [cards  |-> b.cards,
   stacks |-> [s \in DOMAIN b.stacks \cup (b.nextZ + 1)..(b.nextZ + Len(css)) |->
                 IF s > b.nextZ THEN [cards |-> css[s - b.nextZ], z |-> s]
                                ELSE b.stacks[s]],
   nextZ  |-> b.nextZ + Len(css),
   nextCard |-> b.nextCard]

\* CreateCard for each card of ds, in turn: ids b.nextCard + 1 and up.
CreateCards(b, ds) ==
  [cards  |-> [c \in DOMAIN b.cards \cup (b.nextCard + 1)..(b.nextCard + Len(ds)) |->
                 IF c > b.nextCard THEN ds[c - b.nextCard] ELSE b.cards[c]],
   stacks |-> b.stacks,
   nextZ  |-> b.nextZ,
   nextCard |-> b.nextCard + Len(ds)]

\* createSingleCardStack for each card of ds, in turn.
SpawnSingles(b, ds) ==
  CreateStacks(CreateCards(b, ds), [i \in 1..Len(ds) |-> <<b.nextCard + i>>])

SetStack(b, s, cs, z) ==
  [b EXCEPT !.stacks = [@ EXCEPT ![s] = [cards |-> cs, z |-> z]]]

SetCard(b, c, card) == [b EXCEPT !.cards = [@ EXCEPT ![c] = card]]

BringToFront(b, s) ==
  [SetStack(b, s, b.stacks[s].cards, b.nextZ + 1) EXCEPT !.nextZ = @ + 1]

\* Fault: the source stack is not deleted.
MergeKeepingSource(b, t, s) ==
  IF t = s THEN b
  ELSE [SetStack(b, t, b.stacks[t].cards \o b.stacks[s].cards, b.nextZ + 1)
          EXCEPT !.nextZ = @ + 1]

MergeStacks(b, t, s) ==
  IF t = s THEN b
  ELSE [cards  |-> b.cards,
        stacks |-> [x \in DOMAIN b.stacks \ {s} |->
                      IF x = t THEN [cards |-> b.stacks[t].cards \o b.stacks[s].cards,
                                     z |-> b.nextZ + 1]
                               ELSE b.stacks[x]],
        nextZ  |-> b.nextZ + 1,
        nextCard |-> b.nextCard]

\* Takes the cards of gone out of every stack and drops the stacks it empties.
Detach(b, gone) ==
  LET Left(s) == {i \in DOMAIN b.stacks[s].cards : b.stacks[s].cards[i] \notin gone}
  IN  [cards  |-> b.cards,
       stacks |-> [s \in {x \in DOMAIN b.stacks : Left(x) # {}} |->
                     [cards |-> Keep(b.stacks[s].cards, Left(s)), z |-> b.stacks[s].z]],
       nextZ  |-> b.nextZ,
       nextCard |-> b.nextCard]

\* Fault: the cards are deleted, the stacks that hold them are not.
RemoveFromTable(b, gone) ==
  [b EXCEPT !.cards = [c \in DOMAIN b.cards \ gone |-> b.cards[c]]]

\* Detach, and delete the cards from the card table too.
Remove(b, gone) ==
  LET d == Detach(b, gone)
  IN  [cards |-> [c \in DOMAIN b.cards \ gone |-> b.cards[c]],
       stacks |-> d.stacks, nextZ |-> d.nextZ, nextCard |-> d.nextCard]

\* ensurePriorityFaceCard: the last task, or else resource, or else food, goes on top.
FaceKinds == <<"task", "resource", "food">>
PriorityFace(b, cs) ==
  LET At(p) == {i \in DOMAIN cs : KindOf(b, cs[i]) = FaceKinds[p]}
      present == {p \in 1..3 : At(p) # {}}
      p == CHOOSE x \in present : \A y \in present : x <= y
      i == CHOOSE x \in At(p) : \A y \in At(p) : y <= x
  IN  IF present = {} THEN cs ELSE Keep(cs, DOMAIN cs \ {i}) \o <<cs[i]>>

\* ensureVillagerLeadsResourceStack: villagers first, the last resource on top.
VillagerLeads(b, cs) ==
  LET At(k) == {i \in DOMAIN cs : KindOf(b, cs[i]) = k}
      face  == CHOOSE x \in At("resource") : \A y \in At("resource") : y <= x
      middle == DOMAIN cs \ (At("villager") \cup {face})
  IN  IF At("villager") = {} \/ At("resource") = {} THEN cs
      ELSE Keep(cs, At("villager")) \o Keep(cs, middle) \o <<cs[face]>>

FacePriority(b, s) ==
  IF s \in DOMAIN b.stacks
    THEN SetStack(b, s, PriorityFace(b, b.stacks[s].cards), b.stacks[s].z) ELSE b
LeadVillager(b, s) ==
  SetStack(b, s, VillagerLeads(b, b.stacks[s].cards), b.stacks[s].z)

-----------------------------------------------------------------------------
(* The validator, internal/board/validate.go, with its default rules *)

MaxModifiersPerTask == 6
DuplicateAllowed == {"mod.next_action"}
GlobalUnique     == {"mod.deadline_pin"}
DisallowedPairs  == {<<"task", "zombie">>, <<"villager", "zombie">>,
                     <<"resource", "zombie">>, <<"food", "zombie">>}

Modifiers(b, s) == {c \in CardsOf(b, s) : KindOf(b, c) = "modifier"}

ValidModifierAdd(b, s, d) ==
  /\ Cardinality(Modifiers(b, s)) < MaxModifiersPerTask
  /\ d \in DuplicateAllowed \/ ~HasDef(b, s, d)
  /\ d \in GlobalUnique => \A c \in DOMAIN b.cards : b.cards[c].def # d

Either(b, t, s, k) == Has(b, t, k) \/ Has(b, s, k)

\* resourceMergeWouldCreateMultipleVillagers
CrowdsResource(b, t, s) ==
  LET all == CardsOf(b, t) \cup CardsOf(b, s)
  IN  /\ Either(b, t, s, "resource")
      /\ Cardinality({c \in all : KindOf(b, c) = "villager"}) > 1

\* stackHasUnlinkedBlankTask
HasUnlinkedBlank(b, s) ==
  \E c \in CardsOf(b, s) : b.cards[c].def = "task.blank" /\ ~b.cards[c].linked

\* Fault: a forbidden pair is looked up in one direction only.
PairMatchesOneWay(b, t, s, pair) == Has(b, t, pair[1]) /\ Has(b, s, pair[2])

PairMatches(b, t, s, pair) ==
  \/ Has(b, t, pair[1]) /\ Has(b, s, pair[2])
  \/ Has(b, t, pair[2]) /\ Has(b, s, pair[1])

\* singleModifierDefID of both stacks, equal.
SameModifier(b, t, s) ==
  /\ Pure(b, t, "modifier") /\ Pure(b, s, "modifier")
  /\ \A c, d \in CardsOf(b, t) \cup CardsOf(b, s) : b.cards[c].def = b.cards[d].def

ValidStackMerge(b, t, s) ==
  /\ ~Either(b, t, s, "deck")
  /\ \/ Pure(b, t, "loot") /\ Pure(b, s, "loot")
     \/ SameModifier(b, t, s)
     \/ /\ ~CrowdsResource(b, t, s)
        /\ ~(Either(b, t, s, "villager")
             /\ (HasDef(b, t, "loot.parts") \/ HasDef(b, s, "loot.parts")))
        /\ ~(Either(b, t, s, "resource")
             /\ (HasUnlinkedBlank(b, t) \/ HasUnlinkedBlank(b, s)))
        /\ ~(Either(b, t, s, "modifier") /\ Either(b, t, s, "villager")
             /\ ~Either(b, t, s, "task"))
        /\ \A pair \in DisallowedPairs : ~PairMatches(b, t, s, pair)

-----------------------------------------------------------------------------
(* Commands.  Room keeps a command within the bounds. *)

Stacks == DOMAIN board.stacks
Room(zs, cs) == board.nextZ + zs <= MaxZ /\ board.nextCard + cs <= MaxCards

\* spawnResolvedRewards with one reward, and finalizeSpawnedStack: it joins a
\* stack lying at the same point that may take it, or stays on its own.
WithReward(b, d) ==
  LET spawned == SpawnSingles(b, <<d>>)
      new     == spawned.nextZ
      Join(t) == LET m == FacePriority(MergeStacks(spawned, t, new), t)
                 IN  LeadVillager(m, t)
  IN  {spawned} \cup {Join(t) : t \in {x \in DOMAIN b.stacks : ValidStackMerge(spawned, x, new)}}

Rewards == UNION {Fresh(d) : d \in {x \in DrawDefs : Kind[x] \in {"loot", "food"}}}
MaybeReward(b) ==
  {b} \cup (IF b.nextZ + 2 <= MaxZ /\ b.nextCard < MaxCards
              THEN UNION {WithReward(b, d) : d \in Rewards} ELSE {})

SeedCards ==
  <<New("deck.first_day"), New("deck.collect"), New("villager.basic"),
    New("villager.basic"), [New("resource.tree") EXCEPT !.left = MaxLeft],
    New("food.apple")>>

BoardSeedDefault ==
  /\ Stacks = {}
  /\ Room(Len(SeedCards), Len(SeedCards))
  /\ board' = SpawnSingles(board, SeedCards)

CardSpawn ==
  /\ Room(1, 1)
  /\ \E d \in SpawnDefs : \E c \in Fresh(d) : board' = SpawnSingles(board, <<c>>)

DeckSpawnPack(s) ==
  /\ Top(board, s).def \in {"deck.first_day", "deck.organization"}
  /\ Room(1, 1)
  /\ LET pack == IF Top(board, s).def = "deck.first_day"
                   THEN "deck.first_day_pack" ELSE "deck.organization_pack"
     IN  board' = SpawnSingles(board, <<New(pack)>>)

\* Sequences of cards a pack, a quest reward or a store bundle delivers.
Deliveries ==
  UNION {[1..n -> UNION {Fresh(d) : d \in DrawDefs}] : n \in 1..MaxDraws}

DeckOpenPack(s) ==
  /\ Top(board, s).def \in PackDefs
  /\ \E draws \in Deliveries :
       /\ Room(Len(draws), Len(draws))
       /\ board' = SpawnSingles(Remove(board, CardsOf(board, s)), draws)

\* quest.claim_reward and GrantStorePurchase: cards delivered outside of a pack.
Deliver ==
  \E cards \in Deliveries :
    /\ Room(Len(cards), Len(cards))
    /\ board' = SpawnSingles(board, cards)

StackBringToFront(s) ==
  /\ Room(1, 0)
  /\ board' = BringToFront(board, s)

Collectible(b, s) ==
  \A c \in CardsOf(b, s) : KindOf(b, c) \in {"loot", "resource", "modifier", "task", "food"}

LootCollectStack(s) ==
  /\ Collectible(board, s)
  /\ board' = Remove(board, CardsOf(board, s))

TaskAssignVillager(t, v) ==
  /\ Has(board, t, "task")
  /\ Has(board, v, "villager")
  /\ Room(1, 0)
  /\ board' = FacePriority(MergeStacks(board, t, v), t)

ZombieClear(z, v) ==
  /\ Has(board, z, "zombie")
  /\ Has(board, v, "villager")
  /\ LET zombies == {c \in CardsOf(board, z) : KindOf(board, c) = "zombie"}
     IN  board' = FacePriority(Remove(board, zombies), z)

\* firstCardByKind
First(b, s, k) ==
  LET cs == b.stacks[s].cards
      at == {i \in DOMAIN cs : KindOf(b, cs[i]) = k}
  IN  cs[CHOOSE i \in at : \A j \in at : i <= j]

\* One charge or portion less; a card with none left is removed.
UseUp(b, c) ==
  IF b.cards[c].left = 1 THEN Remove(b, {c})
  ELSE SetCard(b, c, [b.cards[c] EXCEPT !.left = @ - 1])

FoodConsume(f, v) ==
  /\ Has(board, f, "food")
  /\ Has(board, v, "villager")
  /\ board' = UseUp(board, First(board, f, "food"))

ResourceGather(r, v) ==
  /\ Has(board, r, "resource")
  /\ Has(board, v, "villager")
  /\ ~CrowdsResource(board, r, v)
  /\ Room(1, 0)
  /\ LET merged == IF r = v THEN board ELSE FacePriority(MergeStacks(board, r, v), r)
         led    == LeadVillager(merged, r)
     IN  board' \in MaybeReward(UseUp(led, First(led, r, "resource")))

\* The gestures stack.merge turns into another command, in the order it tries them.
OntoCollectDeck(t, s) == Top(board, t).def = "deck.collect" /\ ~Has(board, s, "deck")
AsAssignment(t, s) ==
  Has(board, t, "task") /\ Has(board, s, "villager") /\ ~Has(board, s, "task")
AsClearing(t, s) ==
  Has(board, t, "zombie") /\ Has(board, s, "villager") /\ ~Has(board, s, "zombie")
AsMeal(t, s) ==
  /\ Has(board, t, "food") /\ ~Has(board, t, "villager")
  /\ Has(board, s, "villager") /\ ~Has(board, s, "food")
Assigns(t, s) == AsAssignment(t, s) \/ AsAssignment(s, t)
Clears(t, s)  == AsClearing(t, s) \/ AsClearing(s, t)
Feeds(t, s)   == AsMeal(t, s) \/ AsMeal(s, t)

MergePlainly(t, s) ==
  /\ ValidStackMerge(board, t, s)
  /\ Room(1, 0)
  /\ board' = LeadVillager(FacePriority(MergeStacks(board, t, s), t), t)

StackMerge(t, s) ==
  \/ OntoCollectDeck(t, s) /\ LootCollectStack(s)
  \/ OntoCollectDeck(s, t) /\ LootCollectStack(t)
  \/ /\ ~Either(board, t, s, "deck")
     /\ \/ AsAssignment(t, s) /\ TaskAssignVillager(t, s)
        \/ AsAssignment(s, t) /\ TaskAssignVillager(s, t)
        \/ /\ ~Assigns(t, s)
           /\ \/ AsClearing(t, s) /\ ZombieClear(t, s)
              \/ AsClearing(s, t) /\ ZombieClear(s, t)
              \/ /\ ~Clears(t, s)
                 /\ \/ AsMeal(t, s) /\ FoodConsume(t, s)
                    \/ AsMeal(s, t) /\ FoodConsume(s, t)
                    \/ ~Feeds(t, s) /\ MergePlainly(t, s)

\* SplitStack and, at index 0, PopBottom; then both halves get their face card.
StackSplit(s, index) ==
  LET cs   == board.stacks[s].cards
      kept == IF index = 0 THEN 2..Len(cs) ELSE 1..index
      pulled == PriorityFace(board, Keep(cs, DOMAIN cs \ kept))
  IN  /\ index \in 0..(Len(cs) - 1)
      /\ Room(1, 0)
      /\ board' = FacePriority(CreateStacks(Detach(board, Range(pulled)), <<pulled>>), s)

StackUnstack(s) ==
  LET cs == board.stacks[s].cards
  IN  /\ Len(cs) > 1
      /\ Room(Len(cs), 0)
      /\ board' = CreateStacks(Detach(board, Range(cs)), [i \in DOMAIN cs |-> <<cs[i]>>])

StackRemove(s) == board' = Remove(board, CardsOf(board, s))

\* task.create_blank: the card of a row just created, so a linked one.
TaskCreateBlank ==
  /\ Room(1, 1)
  /\ board' = SpawnSingles(board, <<[New("task.blank") EXCEPT !.linked = TRUE]>>)

\* task.spawn_existing: a task card under the modifiers its row calls for.
SpawnMods == {<<>>, <<"mod.deadline_pin">>, <<"mod.recurring">>, <<"mod.next_action">>,
              <<"mod.deadline_pin", "mod.recurring">>}
LinkedTask == [New("task.instance") EXCEPT !.linked = TRUE]

TaskSpawnExisting ==
  \E mods \in {m \in SpawnMods : Range(m) \subseteq RowMods} :
    LET cards == [i \in DOMAIN mods |-> New(mods[i])] \o <<LinkedTask>>
        ids   == [i \in DOMAIN cards |-> board.nextCard + i]
    IN  /\ Room(1, Len(cards))
        /\ board' = CreateStacks(CreateCards(board, cards), <<ids>>)

\* task.activate: the same, out of modifier cards taken from loose stacks.
Loose == UNION {CardsOf(board, s) : s \in {x \in Stacks : Pure(board, x, "modifier")}}

TaskActivate ==
  \E used \in UNION {Injection(1..n, Loose) : n \in 0..Cardinality(ModDefs)} :
    LET empty == Stacks = {}
        base  == IF empty THEN SpawnSingles(board, SeedCards) ELSE board
        need  == IF empty THEN Len(SeedCards) + 1 ELSE 1
    IN  /\ \A i, j \in DOMAIN used :
             board.cards[used[i]].def = board.cards[used[j]].def => i = j
        /\ Room(need, need)
        /\ board' = CreateStacks(Detach(CreateCards(base, <<LinkedTask>>), Range(used)),
                                 <<used \o <<base.nextCard + 1>>>>)

TaskCards == {c \in DOMAIN board.cards : KindOf(board, c) = "task"}

\* task.set_title, set_description, set_priority and sync_from_task.
TaskSetData(c) ==
  board' = SetCard(board, c, [board.cards[c] EXCEPT !.def = "task.instance"])

\* task.set_task_id: links the card, or with an empty id unlinks it.
TaskSetTaskID(c) ==
  \E linked \in BOOLEAN :
    board' = SetCard(board, c, [board.cards[c] EXCEPT !.def = "task.instance",
                                                      !.linked = linked])

TaskAddModifier(s) ==
  \E d \in RowMods :
    /\ Has(board, s, "task")
    /\ ValidModifierAdd(board, s, d)
    /\ Room(0, 1)
    /\ LET b == CreateCards(board, <<New(d)>>)
       IN  board' = FacePriority(SetStack(b, s, Append(b.stacks[s].cards, b.nextCard),
                                          b.stacks[s].z), s)

\* Fault: completing removes the whole stack.
CompleteWholeStack(s) ==
  /\ Has(board, s, "task")
  /\ board' = Remove(board, CardsOf(board, s))

\* task.complete_stack, and task.complete_by_task_id for a task on the board:
\* tasks and next actions go, every other card gets a stack of its own.
TaskCompleteStack(s) ==
  LET cs   == board.stacks[s].cards
      Done(c) == KindOf(board, c) = "task" \/ board.cards[c].def = "mod.next_action"
      rest == Keep(cs, {i \in DOMAIN cs : ~Done(cs[i])})
      done == {c \in Range(cs) : Done(c)}
      cleared == Detach(Remove(board, done), Range(rest))
  IN  /\ done # {}
      /\ Room(Len(rest), 0)
      /\ board' \in MaybeReward(CreateStacks(cleared, [i \in DOMAIN rest |-> <<rest[i]>>]))

\* retireFirstDayDeckStacks, ensurePostFirstDayDeckStacks, spawnOverdueZombies.
WorldEndDay ==
  \E n \in 0..MaxZombies :
    LET FirstDay(s) == Top(board, s).def \in {"deck.first_day", "deck.first_day_pack"}
        retired == Remove(board, UNION {CardsOf(board, s) : s \in {x \in Stacks : FirstDay(x)}})
        missing == {i \in DOMAIN ProgressionDecks :
                      \A s \in DOMAIN retired.stacks : Top(retired, s).def # ProgressionDecks[i]}
        decks   == [i \in 1..Cardinality(missing) |-> New(Keep(ProgressionDecks, missing)[i])]
        zombies == [i \in 1..n |-> New("zombie.default_zombie")]
    IN  /\ Room(Len(decks) + n, Len(decks) + n)
        /\ board' = SpawnSingles(retired, decks \o zombies)

-----------------------------------------------------------------------------
Init == board = NewState

\* executeCommand
BoardCommand ==
  \/ "board.seed_default" \in Cmds /\ BoardSeedDefault
  \/ "card.spawn" \in Cmds /\ CardSpawn
  \/ "quest.claim_reward" \in Cmds /\ Deliver
  \/ "task.create_blank" \in Cmds /\ TaskCreateBlank
  \/ "task.spawn_existing" \in Cmds /\ TaskSpawnExisting
  \/ "task.activate" \in Cmds /\ TaskActivate
  \/ "world.end_day" \in Cmds /\ WorldEndDay

StackCommand(s) ==
  \/ "deck.spawn_pack" \in Cmds /\ DeckSpawnPack(s)
  \/ "deck.open_pack" \in Cmds /\ DeckOpenPack(s)
  \/ "stack.bringToFront" \in Cmds /\ StackBringToFront(s)
  \/ "stack.unstack" \in Cmds /\ StackUnstack(s)
  \/ "stack.split" \in Cmds /\ \E i \in 0..MaxCards : StackSplit(s, i)
  \/ "stack.remove" \in Cmds /\ StackRemove(s)
  \/ "loot.collect_stack" \in Cmds /\ LootCollectStack(s)
  \/ "task.add_modifier" \in Cmds /\ TaskAddModifier(s)
  \/ "task.complete_stack" \in Cmds /\ TaskCompleteStack(s)

PairCommand(t, s) ==
  \/ "stack.merge" \in Cmds /\ StackMerge(t, s)
  \/ "task.assign_villager" \in Cmds /\ TaskAssignVillager(t, s)
  \/ "zombie.clear" \in Cmds /\ ZombieClear(t, s)
  \/ "food.consume" \in Cmds /\ FoodConsume(t, s)
  \/ "resource.gather" \in Cmds /\ ResourceGather(t, s)

CardCommand(c) ==
  \/ "task.set_title" \in Cmds /\ TaskSetData(c)
  \/ "task.set_task_id" \in Cmds /\ TaskSetTaskID(c)

Next ==
  \/ BoardCommand
  \/ \E s \in Stacks : StackCommand(s)
  \/ \E s, t \in Stacks : PairCommand(t, s)
  \/ \E c \in TaskCards : CardCommand(c)

Spec == Init /\ [][Next]_board

-----------------------------------------------------------------------------
(* Properties, as predicates of a document, then of the board *)

\* Card and stack ids are in their ranges, and stacks hold cards of the table.
WellFormed(b) ==
  /\ DOMAIN b = {"cards", "stacks", "nextZ", "nextCard"}
  /\ b.nextZ \in Nat /\ b.nextZ >= 10
  /\ b.nextCard \in Nat
  /\ DOMAIN b.cards \subseteq 1..b.nextCard
  /\ \A c \in DOMAIN b.cards : b.cards[c] \in Card
  /\ DOMAIN b.stacks \subseteq 11..b.nextZ
  /\ \A s \in DOMAIN b.stacks :
       b.stacks[s] \in [cards : Seq(DOMAIN b.cards), z : 11..b.nextZ]

TypeOK == WellFormed(board)

\* No stack is empty, none holds a card twice, no two share a card, and no
\* card of the table is outside of all stacks.
Placed(b) ==
  /\ \A s \in DOMAIN b.stacks : /\ b.stacks[s].cards # <<>>
                               /\ IsInjective(b.stacks[s].cards)
  /\ \A s, t \in DOMAIN b.stacks : s # t => CardsOf(b, s) \cap CardsOf(b, t) = {}
  /\ \A c \in DOMAIN b.cards : \E s \in DOMAIN b.stacks : c \in CardsOf(b, s)

\* Whatever commands run, every card of the table lies in exactly one stack,
\* once, and no stack is empty: merging, splitting, unstacking, completing and
\* removing neither lose nor copy a card.
EveryCardPlacedOnce == Placed(board)

Ordered(b) ==
  \A s, t \in DOMAIN b.stacks : b.stacks[s].z = b.stacks[t].z => s = t

\* Two stacks never share a Z, so which one is drawn on top, and which one a
\* spawned reward tries first, is decided by the document alone.
DrawOrderTotal == Ordered(board)

Apart(b) ==
  \A s \in DOMAIN b.stacks, pair \in DisallowedPairs :
    ~(Has(b, s, pair[1]) /\ Has(b, s, pair[2]))

Alone(b) ==
  \A s \in DOMAIN b.stacks : Has(b, s, "deck") => Len(b.stacks[s].cards) = 1

\* The pairs the validator forbids never share a stack, although assigning a
\* villager and gathering merge stacks without asking the validator; and nothing
\* is ever stacked on a deck or pack, so opening or retiring one destroys that
\* one card only.
DisallowedNeverTogether == Apart(board) /\ Alone(board)

Villagers(b) == {c \in DOMAIN b.cards : KindOf(b, c) = "villager"}

\* Only stack.remove, which a run leaves out or restricts, takes a villager off the
\* board: no completion, clearing, collecting, gathering, deck opening or day end
\* ever costs a worker.
VillagersSurvive == [][Villagers(board) \subseteq Villagers(board')]_board
=============================================================================
